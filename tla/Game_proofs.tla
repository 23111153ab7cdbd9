---------------------------- MODULE Game_proofs -----------------------------
(***************************************************************************)
(* The theorems about a game between two peers, for every value of the     *)
(* constants: CommitReveal, its turn loop, and EndOfGame, the audit and    *)
(* the teardown behind it.                                                 *)
(*                                                                         *)
(* First the turn loop: it is well typed, IInv is an inductive invariant   *)
(* of it, and it implements JointGame: the exchange of messages, whatever  *)
(* is lost, late or dead, is a game of simultaneous sealed choices.  The   *)
(* steps fall into three kinds.  A quiet step moves one loop along its     *)
(* program, possibly after sending: it seals nothing, resolves nothing and *)
(* reads nothing.  A sealing step appends one entry to a ledger.  A        *)
(* reading step removes the head of an inbox.                              *)
(*                                                                         *)
(* Then what the end of a game rests on: CInv adds to IInv what the logs   *)
(* say of the turns that were played, so the outcome of a turn loop is     *)
(* that of both boards; and the audit behind it never takes a played game  *)
(* back for what a ledger or a log says.                                   *)
(***************************************************************************)
EXTENDS GameLog, CommitRevealInv, TLAPS, SequenceTheorems

-----------------------------------------------------------------------------
(* Typing.                                                                 *)

(* attempt() always leaves the machine in one of the six states.           *)
LEMMA AttemptType == \A s, t \in State : Attempt(s, t) \in State
BY DEF Attempt, Accepts, State

LEMMA MachineType ==
  ASSUME TypeOK, NEW p \in Peer
  PROVE  /\ Attempt(machine[p], "my_turn") \in State
         /\ Attempt(machine[p], "wait_opponent") \in State
         /\ Attempt(machine[p], "game_over") \in State
<1>1. machine[p] \in State
  BY DEF TypeOK
<1>2. {"my_turn", "wait_opponent", "game_over"} \subseteq State
  BY DEF State
<1> QED
  BY <1>1, <1>2, AttemptType

(* Whatever a peer sends is a message.                                     *)
LEMMA OutgoingType ==
  ASSUME TypeOK, NEW p \in Peer
  PROVE  Outgoing(p) \in Messages
<1> DEFINE own == pending[p]
<1>1. own.turn \in Nat /\ own.act \in Act \cup {NoAct} /\ oppCommit[p] \in Seals
  BY DEF TypeOK, Pendings
<1>2. Len(hist[p]) \in Nat
  BY DEF TypeOK
<1>3. OwnSeal(p) \in Seals /\ NoSeal \in Seals
  BY <1>1 DEF OwnSeal, Seal, Seals, NoSeal, Peer
<1> QED
  BY <1>1, <1>2, <1>3 DEF Outgoing, Msg, Messages, MessageType

(* Ending the turn loop keeps the types of what it assigns.                *)
LEMMA FinishType ==
  ASSUME TypeOK, NEW p \in Peer, NEW o \in Outcomes, NEW s \in State, Finish(p, o, s)
  PROVE  /\ pc' \in [Peer -> PC]
         /\ machine' \in [Peer -> State]
         /\ outcome' \in [Peer -> Outcomes]
<1>1. Attempt(s, "game_over") \in State
  BY AttemptType DEF State
<1> QED
  BY <1>1 DEF Finish, TypeOK, PC, Sending, Waiting

LEMMA TechnicalLossType ==
  ASSUME TypeOK, NEW p \in Peer, NEW c \in Claims, TechnicalLoss(p, c)
  PROVE  /\ pc' \in [Peer -> PC]
         /\ machine' \in [Peer -> State]
         /\ outcome' \in [Peer -> Outcomes]
         /\ claim' \in [Peer -> Claims]
<1>1. Attempt(machine[p], "game_over") \in State
  BY MachineType
<1>2. "technical_loss" \in Outcomes
  BY DEF Outcomes
<1> QED
  BY <1>1, <1>2, FinishType DEF TechnicalLoss, TypeOK

LEMMA BoardOutcomeType == \A h : BoardOutcome(h) \in Outcomes
BY DEF BoardOutcome, Outcomes

LEMMA EndOfMyTurnType ==
  ASSUME TypeOK, NEW p \in Peer, EndOfMyTurn(p)
  PROVE  /\ pc' \in [Peer -> PC]
         /\ machine' \in [Peer -> State]
         /\ outcome' \in [Peer -> Outcomes]
         /\ pending' \in [Peer -> Pendings]
<1> DEFINE waiting == Attempt(machine[p], "wait_opponent")
<1>1. waiting \in State
  BY MachineType
<1>2. Nothing \in Pendings
  BY DEF Nothing, Pendings
<1>3. "wait_reveal" \in PC /\ "wait_commit" \in PC
  BY DEF PC, Waiting
<1>4. CASE p = "police"
  <2>1. /\ pc' = [pc EXCEPT ![p] = "wait_reveal"]
        /\ machine' = [machine EXCEPT ![p] = waiting]
        /\ UNCHANGED <<pending, outcome>>
    BY <1>4 DEF EndOfMyTurn
  <2> QED
    BY <2>1, <1>1, <1>3 DEF TypeOK
<1>5. CASE p # "police" /\ BoardOutcome(hist[p]) # "none"
  <2>1. Finish(p, BoardOutcome(hist[p]), waiting)
    BY <1>5 DEF EndOfMyTurn
  <2>2. pending' \in [Peer -> Pendings]
    BY <1>2, <1>5 DEF EndOfMyTurn, TypeOK
  <2> QED
    BY <2>1, <2>2, <1>1, FinishType, BoardOutcomeType
<1>6. CASE p # "police" /\ BoardOutcome(hist[p]) = "none"
  <2>1. /\ pc' = [pc EXCEPT ![p] = "wait_commit"]
        /\ machine' = [machine EXCEPT ![p] = waiting]
        /\ pending' = [pending EXCEPT ![p] = Nothing]
        /\ UNCHANGED outcome
    BY <1>6 DEF EndOfMyTurn
  <2> QED
    BY <2>1, <1>1, <1>2, <1>3 DEF TypeOK
<1> QED
  BY <1>4, <1>5, <1>6

(* Whatever follows a finished call keeps the types.                       *)
LEMMA ProceedType ==
  ASSUME TypeOK, NEW p \in Peer, Proceed(p)
  PROVE  /\ pc' \in [Peer -> PC]
         /\ machine' \in [Peer -> State]
         /\ outcome' \in [Peer -> Outcomes]
         /\ pending' \in [Peer -> Pendings]
<1>1. CASE \E next \in PC : Goto(p, next)
  BY <1>1 DEF Goto, TypeOK
<1>2. CASE EndOfMyTurn(p)
  BY <1>2, EndOfMyTurnType
<1>3. EndOfMyTurn(p) \/ \E next \in PC : Goto(p, next)
  BY DEF Proceed, PC, Sending, Waiting
<1> QED
  BY <1>1, <1>2, <1>3

LEMMA EnqueueType ==
  ASSUME TypeOK, NEW p \in Peer, Enqueue(p)
  PROVE  inbox' \in [Peer -> Seq(Messages)]
<1>1. Other(p) \in Peer
  BY DEF Other, Peer
<1>2. Append(inbox[Other(p)], Outgoing(p)) \in Seq(Messages)
  BY <1>1, OutgoingType DEF TypeOK
<1> QED
  BY <1>1, <1>2 DEF Enqueue, TypeOK

(* A failed attempt, whether or not it was the last one.                   *)
LEMMA AttemptFailedType ==
  ASSUME TypeOK, NEW p \in Peer, AttemptFailed(p)
  PROVE  /\ pc' \in [Peer -> PC]
         /\ machine' \in [Peer -> State]
         /\ outcome' \in [Peer -> Outcomes]
         /\ pending' \in [Peer -> Pendings]
         /\ claim' \in [Peer -> Claims]
         /\ tries' \in [Peer -> 0 .. Retries]
<1>1. tries[p] \in 0 .. Retries /\ 0 \in 0 .. Retries
  BY RetriesNat DEF TypeOK
<1>2. CASE tries[p] < Retries
  <2>1. tries[p] + 1 \in 0 .. Retries
    BY <1>1, <1>2, RetriesNat
  <2> QED
    BY <1>2, <2>1 DEF AttemptFailed, TypeOK
<1>3. CASE ~(tries[p] < Retries)
  <2>1. tries' \in [Peer -> 0 .. Retries]
    BY <1>1, <1>3 DEF AttemptFailed, TypeOK
  <2>2. CASE pc[p] \in BestEffort
    <3>1. Proceed(p) /\ UNCHANGED claim
      BY <1>3, <2>2 DEF AttemptFailed
    <3> QED
      BY <2>1, <3>1, ProceedType DEF TypeOK
  <2>3. CASE pc[p] \notin BestEffort
    <3>1. TechnicalLoss(p, "opponent_unresponsive") /\ UNCHANGED pending
      BY <1>3, <2>3 DEF AttemptFailed
    <3>2. "opponent_unresponsive" \in Claims
      BY DEF Claims
    <3> QED
      BY <2>1, <3>1, <3>2, TechnicalLossType DEF TypeOK
  <2> QED
    BY <2>2, <2>3
<1> QED
  BY <1>2, <1>3

(* Sealing an action.                                                      *)
LEMMA CommitOwnType ==
  ASSUME TypeOK, NEW p \in Peer, NEW a \in Act, CommitOwn(p, a)
  PROVE  /\ pc' \in [Peer -> PC]
         /\ ledger' \in [Peer -> Seq(Seals)]
         /\ pending' \in [Peer -> Pendings]
<1> DEFINE n == Len(hist[p])
<1>1. n \in Nat
  BY DEF TypeOK
<1>2. Seal(p, n, a) \in Seals
  BY <1>1 DEF Seal, Seals
<1>3. [turn |-> n, act |-> a] \in Pendings
  BY <1>1 DEF Pendings
<1>4. "send_commit" \in PC
  BY DEF PC, Sending
<1>5. Append(ledger[p], Seal(p, n, a)) \in Seq(Seals)
  BY <1>2 DEF TypeOK
<1> HIDE DEF n
<1> QED
  BY <1>3, <1>4, <1>5 DEF CommitOwn, TypeOK, n

(* Reading the queue.                                                      *)
LEMMA HeadType ==
  ASSUME TypeOK, NEW p \in Peer, inbox[p] # <<>>
  PROVE  /\ Head(inbox[p]) \in Messages
         /\ Tail(inbox[p]) \in Seq(Messages)
BY DEF TypeOK

LEMMA TakeType ==
  ASSUME TypeOK, NEW p \in Peer, inbox[p] # <<>>, Take(p)
  PROVE  inbox' \in [Peer -> Seq(Messages)]
BY HeadType DEF Take, TypeOK

LEMMA DrainedType ==
  ASSUME NEW q \in Seq(Messages)
  PROVE  Drained(q) \in Seq(Messages)
<1>1. CASE q = <<>>
  BY <1>1 DEF Drained
<1>2. CASE q # <<>>
  <2>1. Head(q) \in Messages /\ Tail(q) \in Seq(Messages)
    BY <1>2
  <2>2. Append(Tail(q), Head(q)) \in Seq(Messages)
    BY <2>1
  <2> QED
    BY <1>2, <2>1, <2>2 DEF Drained
<1> QED
  BY <1>1, <1>2

LEMMA ReceivedType ==
  ASSUME TypeOK, NEW p \in Peer, NEW m \in Messages, Received(p, m)
  PROVE  log' \in [Peer -> SUBSET Records]
<1>1. Record("received", Len(hist[p]), m) \in Records
  BY DEF Record, Records, TypeOK
<1> QED
  BY <1>1 DEF Received, TypeOK

(* What the two roles do with a legal REVEAL.                              *)
LEMMA AfterRevealType ==
  ASSUME TypeOK, NEW p \in Peer, NEW o \in Outcomes, AfterReveal(p, o)
  PROVE  /\ pc' \in [Peer -> PC]
         /\ machine' \in [Peer -> State]
         /\ outcome' \in [Peer -> Outcomes]
         /\ pending' \in [Peer -> Pendings]
         /\ ackd' \in [Peer -> BOOLEAN]
<1> DEFINE mine == Attempt(machine[p], "my_turn")
<1>1. mine \in State
  BY MachineType
<1>2. Nothing \in Pendings
  BY DEF Nothing, Pendings
<1>3. {"decide", "send_reveal", "wait_ack"} \subseteq PC
  BY DEF PC, Sending, Waiting
<1>4. CASE p = "police" /\ o # "none"
  <2>1. Finish(p, o, mine) /\ pending' = [pending EXCEPT ![p] = Nothing] /\ UNCHANGED ackd
    BY <1>4 DEF AfterReveal
  <2> QED
    BY <2>1, <1>1, <1>2, FinishType DEF TypeOK
<1>5. CASE p = "police" /\ o = "none"
  <2>1. /\ pending' = [pending EXCEPT ![p] = Nothing]
        /\ pc' = [pc EXCEPT ![p] = "decide"]
        /\ machine' = [machine EXCEPT ![p] = mine]
        /\ UNCHANGED <<ackd, outcome>>
    BY <1>5 DEF AfterReveal
  <2> QED
    BY <2>1, <1>1, <1>2, <1>3 DEF TypeOK
<1>6. CASE p # "police"
  <2>1. /\ pc' = [pc EXCEPT ![p] = IF ackd[p] THEN "send_reveal" ELSE "wait_ack"]
        /\ machine' = [machine EXCEPT ![p] = mine]
        /\ ackd' = [ackd EXCEPT ![p] = FALSE]
        /\ UNCHANGED <<pending, outcome>>
    BY <1>6 DEF AfterReveal
  <2> QED
    BY <2>1, <1>1, <1>3 DEF TypeOK
<1> QED
  BY <1>4, <1>5, <1>6

-----------------------------------------------------------------------------
(* Every step keeps the types.                                             *)

LEMMA PushTypes ==
  ASSUME TypeOK, NEW p \in Peer,
         PushAnswered(p) \/ PushUnanswered(p) \/ PushLost(p) \/ PushRefused(p)
  PROVE  TypeOK'
<1>1. CASE PushAnswered(p)
  <2>1. inbox' \in [Peer -> Seq(Messages)]
    BY <1>1, EnqueueType DEF PushAnswered
  <2>2. /\ pc' \in [Peer -> PC] /\ machine' \in [Peer -> State]
        /\ outcome' \in [Peer -> Outcomes] /\ pending' \in [Peer -> Pendings]
    BY <1>1, ProceedType DEF PushAnswered
  <2>3. tries' \in [Peer -> 0 .. Retries]
    BY <1>1, RetriesNat DEF PushAnswered, TypeOK
  <2>4. Record("sent", Outgoing(p).turn, Outgoing(p)) \in Records
    BY OutgoingType DEF Record, Records, Messages
  <2>5. log' \in [Peer -> SUBSET Records]
    BY <1>1, <2>4 DEF PushAnswered, TypeOK
  <2> QED
    BY <1>1, <2>1, <2>2, <2>3, <2>5 DEF PushAnswered, TypeOK
<1>2. CASE PushUnanswered(p)
  <2>1. inbox' \in [Peer -> Seq(Messages)]
    BY <1>2, EnqueueType DEF PushUnanswered
  <2>2. /\ pc' \in [Peer -> PC] /\ machine' \in [Peer -> State]
        /\ outcome' \in [Peer -> Outcomes] /\ pending' \in [Peer -> Pendings]
        /\ claim' \in [Peer -> Claims] /\ tries' \in [Peer -> 0 .. Retries]
    BY <1>2, AttemptFailedType DEF PushUnanswered
  <2>3. faults' \in 0 .. MaxFaults
    BY <1>2, MaxFaultsNat DEF PushUnanswered, TypeOK
  <2> QED
    BY <1>2, <2>1, <2>2, <2>3 DEF PushUnanswered, TypeOK
<1>3. CASE PushLost(p) \/ PushRefused(p)
  <2>1. /\ pc' \in [Peer -> PC] /\ machine' \in [Peer -> State]
        /\ outcome' \in [Peer -> Outcomes] /\ pending' \in [Peer -> Pendings]
        /\ claim' \in [Peer -> Claims] /\ tries' \in [Peer -> 0 .. Retries]
    BY <1>3, AttemptFailedType DEF PushLost, PushRefused
  <2>2. faults' \in 0 .. MaxFaults
    BY <1>3, MaxFaultsNat DEF PushLost, PushRefused, TypeOK
  <2> QED
    BY <1>3, <2>1, <2>2 DEF PushLost, PushRefused, TypeOK
<1> QED
  BY <1>1, <1>2, <1>3

LEMMA DecideTypes == TypeOK /\ Decide => TypeOK'
<1> SUFFICES ASSUME TypeOK, Decide PROVE TypeOK'
  OBVIOUS
<1>1. "police" \in Peer
  BY DEF Peer
<1>2. PICK a \in Act : CommitOwn("police", a)
  BY DEF Decide
<1>3. /\ pc' \in [Peer -> PC] /\ ledger' \in [Peer -> Seq(Seals)]
      /\ pending' \in [Peer -> Pendings]
  BY <1>1, <1>2, CommitOwnType
<1>4. machine' \in [Peer -> State]
  <2>1. machine["police"] \in State /\ Attempt(machine["police"], "my_turn") \in State
    BY <1>1, MachineType DEF TypeOK
  <2> QED
    BY <2>1 DEF Decide, TypeOK
<1>5. oppCommit' \in [Peer -> Seals]
  <2>1. NoSeal \in Seals
    BY DEF NoSeal, Seals, Peer
  <2> QED
    BY <2>1 DEF Decide, TypeOK
<1>6. ackd' \in [Peer -> BOOLEAN]
  BY DEF Decide, TypeOK
<1> QED
  BY <1>3, <1>4, <1>5, <1>6 DEF Decide, TypeOK

LEMMA ReceiveTypes ==
  ASSUME TypeOK, NEW p \in Peer, Receive(p)
  PROVE  TypeOK'
<1> DEFINE m == Head(inbox[p])
<1>1. inbox[p] # <<>> /\ m \in Messages
  BY HeadType DEF Receive
<1>2. m.seal \in Seals
  BY <1>1 DEF Messages
<1> HIDE DEF m
<1>3. CASE p = "thief" /\ TakeCommit(m)
  <2>1. PICK a \in Act : CommitOwn("thief", a)
    BY <1>3 DEF TakeCommit
  <2>2. /\ pc' \in [Peer -> PC] /\ ledger' \in [Peer -> Seq(Seals)]
        /\ pending' \in [Peer -> Pendings]
    BY <1>3, <2>1, CommitOwnType
  <2>3. inbox' \in [Peer -> Seq(Messages)] /\ log' \in [Peer -> SUBSET Records]
    BY <1>1, <1>3, TakeType, ReceivedType DEF TakeCommit
  <2>4. oppCommit' \in [Peer -> Seals]
    BY <1>2, <1>3 DEF TakeCommit, TypeOK
  <2> QED
    BY <1>3, <2>2, <2>3, <2>4 DEF TakeCommit, TypeOK
<1>4. CASE p = "thief" /\ CaptureEarlyAck(m)
  <2>1. inbox' \in [Peer -> Seq(Messages)]
    BY <1>1, <1>4, TakeType DEF CaptureEarlyAck
  <2> QED
    BY <1>4, <2>1 DEF CaptureEarlyAck, TypeOK
<1>5. CASE p = "thief" /\ TakeMatchingAck(m)
  <2>1. inbox' \in [Peer -> Seq(Messages)]
    BY <1>1, <1>5, TakeType DEF TakeMatchingAck
  <2>2. "send_reveal" \in PC
    BY DEF PC, Sending
  <2> QED
    BY <1>5, <2>1, <2>2 DEF TakeMatchingAck, TypeOK
<1>6. CASE p = "police" /\ AcceptAck(m)
  <2>1. inbox' \in [Peer -> Seq(Messages)]
    BY <1>1, <1>6, TakeType DEF AcceptAck
  <2>2. "send_reveal" \in PC
    BY DEF PC, Sending
  <2>3. pc' \in [Peer -> PC]
    BY <1>6, <2>2 DEF AcceptAck, TypeOK
  <2> QED
    BY <1>6, <2>1, <2>3 DEF AcceptAck, TypeOK
<1>7. CASE p = "police" /\ AcceptCommit(m)
  <2>1. inbox' \in [Peer -> Seq(Messages)] /\ log' \in [Peer -> SUBSET Records]
    BY <1>1, <1>7, TakeType, ReceivedType DEF AcceptCommit
  <2>2. "send_ack" \in PC
    BY DEF PC, Sending
  <2>3. pc' \in [Peer -> PC] /\ oppCommit' \in [Peer -> Seals]
    BY <1>2, <1>7, <2>2 DEF AcceptCommit, TypeOK
  <2> QED
    BY <1>7, <2>1, <2>3 DEF AcceptCommit, TypeOK
<1>8. CASE TakeReveal(p, m)
  <2>1. inbox' \in [Peer -> Seq(Messages)]
    <3>1. Drained(Tail(inbox[p])) \in Seq(Messages)
      BY <1>1, HeadType, DrainedType
    <3> QED
      BY <1>8, <3>1 DEF TakeReveal, TypeOK
  <2>2. CASE Legal(hist[p], Other(p), m.act)
    <3> DEFINE j == JointTurn(p, pending[p].act, m.act)
               h == Append(hist[p], j)
    <3>1. j \in JointTurns
      BY <1>1 DEF JointTurn, JointTurns, Messages, TypeOK, Pendings
    <3>2. h \in Seq(JointTurns)
      BY <3>1 DEF TypeOK
    <3> HIDE DEF j
    <3>3. /\ hist' = [hist EXCEPT ![p] = h] /\ Received(p, m)
          /\ AfterReveal(p, BoardOutcome(h)) /\ UNCHANGED claim
      BY <1>8, <2>2 DEF TakeReveal, j
    <3> HIDE DEF h
    <3>4. /\ pc' \in [Peer -> PC] /\ machine' \in [Peer -> State]
          /\ outcome' \in [Peer -> Outcomes] /\ pending' \in [Peer -> Pendings]
          /\ ackd' \in [Peer -> BOOLEAN]
      BY <3>3, AfterRevealType, BoardOutcomeType
    <3>5. log' \in [Peer -> SUBSET Records]
      BY <1>1, <3>3, ReceivedType
    <3>6. hist' \in [Peer -> Seq(JointTurns)]
      BY <3>2, <3>3 DEF TypeOK
    <3> QED
      BY <1>8, <2>1, <3>3, <3>4, <3>5, <3>6 DEF TakeReveal, TypeOK
  <2>3. CASE ~Legal(hist[p], Other(p), m.act)
    <3>1. TechnicalLoss(p, "illegal_action") /\ UNCHANGED <<hist, log, pending, ackd>>
      BY <1>8, <2>3 DEF TakeReveal
    <3>2. "illegal_action" \in Claims
      BY DEF Claims
    <3> QED
      BY <1>8, <2>1, <3>1, <3>2, TechnicalLossType DEF TakeReveal, TypeOK
  <2> QED
    BY <2>2, <2>3
<1>9. CASE DropJitter(p, m)
  <2>1. inbox' \in [Peer -> Seq(Messages)]
    BY <1>1, <1>9, TakeType DEF DropJitter
  <2>2. early' \in [Peer -> BOOLEAN]
    <3>1. (early[p] \/ m.type = "final_reveal") \in BOOLEAN
      OBVIOUS
    <3> QED
      BY <1>9, <3>1 DEF DropJitter, TypeOK
  <2> QED
    BY <1>9, <2>1, <2>2 DEF DropJitter, TypeOK
<1> QED
  BY <1>3, <1>4, <1>5, <1>6, <1>7, <1>8, <1>9 DEF Receive, m

LEMMA SilenceTypes ==
  ASSUME TypeOK, NEW p \in Peer, WaitExpires(p) \/ WaitExpiresEarly(p) \/ Crash(p)
  PROVE  TypeOK'
<1>1. faults' \in 0 .. MaxFaults
  BY MaxFaultsNat DEF WaitExpires, WaitExpiresEarly, Crash, TypeOK
<1>2. CASE Expire(p)
  <2>1. TechnicalLoss(p, "opponent_unresponsive") /\ "opponent_unresponsive" \in Claims
    BY <1>2 DEF Expire, Claims
  <2> QED
    BY <1>1, <1>2, <2>1, TechnicalLossType DEF Expire, TypeOK
<1>3. CASE Crash(p)
  <2>1. "gone" \in PC
    BY DEF PC
  <2> QED
    BY <1>1, <1>3, <2>1 DEF Crash, TypeOK
<1> QED
  BY <1>2, <1>3 DEF WaitExpires, WaitExpiresEarly

(* The types hold initially.                                               *)
LEMMA InitTypes == Init => TypeOK
<1> SUFFICES ASSUME Init PROVE TypeOK
  OBVIOUS
<1>1. {"decide", "wait_commit"} \subseteq PC
  BY DEF PC, Waiting
<1>2. {"handshake", "wait_opponent"} \subseteq State
  BY DEF State
<1>3. NoSeal \in Seals /\ Nothing \in Pendings
  BY DEF NoSeal, Seals, Peer, Nothing, Pendings
<1>4. "none" \in Outcomes /\ "none" \in Claims
  BY DEF Outcomes, Claims
<1>5. 0 \in 0 .. Retries /\ 0 \in 0 .. MaxFaults
  BY RetriesNat, MaxFaultsNat
<1> QED
  BY <1>1, <1>2, <1>3, <1>4, <1>5 DEF Init, TypeOK

LEMMA NextTypes == TypeOK /\ [Next]_vars => TypeOK'
<1> SUFFICES ASSUME TypeOK, [Next]_vars PROVE TypeOK'
  OBVIOUS
<1>1. CASE UNCHANGED vars
  BY <1>1 DEF vars, TypeOK
<1>2. CASE Next
  <2>1. CASE Terminated
    BY <1>1, <2>1 DEF Terminated
  <2>2. ASSUME NEW p \in Peer, Step(p) \/ Fault(p) PROVE TypeOK'
    BY <2>2, PushTypes, DecideTypes, ReceiveTypes, SilenceTypes DEF Step, Fault
  <2> QED
    BY <1>2, <2>1, <2>2 DEF Next
<1> QED
  BY <1>1, <1>2

(* CommitReveal is well typed: whatever the actions, the rules, the retry  *)
(* count and the faults, every variable of the two turn loops keeps its    *)
(* type.                                                                   *)
THEOREM Typing == Spec => []TypeOK
BY InitTypes, NextTypes, PTL DEF Spec

-----------------------------------------------------------------------------
(* Elementary facts.                                                       *)

LEMMA OtherFacts ==
  ASSUME NEW p \in Peer
  PROVE  Other(p) \in Peer /\ Other(p) # p /\ Other(Other(p)) = p
BY DEF Other, Peer

(* The lengths of ledgers and histories are natural numbers.               *)
LEMMA Lengths ==
  ASSUME TypeOK, NEW p \in Peer
  PROVE  /\ N(p) \in Nat /\ L(p) \in Nat /\ Len(inbox[p]) \in Nat
         /\ hist[p] \in Seq(JointTurns) /\ ledger[p] \in Seq(Seals)
         /\ inbox[p] \in Seq(Messages)
BY DEF TypeOK, N, L

LEMMA AppendFacts ==
  ASSUME NEW S, NEW s \in Seq(S), NEW e \in S
  PROVE  /\ Append(s, e) \in Seq(S)
         /\ Len(Append(s, e)) = Len(s) + 1
         /\ \A i \in 1 .. Len(s) : Append(s, e)[i] = s[i]
         /\ Append(s, e)[Len(s) + 1] = e
OBVIOUS

LEMMA TailFacts ==
  ASSUME NEW S, NEW s \in Seq(S), s # <<>>
  PROVE  /\ Head(s) = s[1] /\ Head(s) \in S
         /\ Tail(s) \in Seq(S)
         /\ Len(s) \in Nat \ {0} /\ Len(Tail(s)) = Len(s) - 1
         /\ \A i \in 1 .. Len(Tail(s)) : Tail(s)[i] = s[i + 1]
OBVIOUS

(* Every leg of the game has a rank.                                       *)
LEMMA RankType == ASSUME NEW m, m.turn \in Nat PROVE Rank(m) \in Int
  BY DEF Rank

(* A message in an inbox has the type of a message.                        *)
LEMMA InboxEntry ==
  ASSUME TypeOK, NEW p \in Peer, NEW i \in 1 .. Len(inbox[p])
  PROVE  inbox[p][i] \in Messages /\ inbox[p][i].turn \in Nat
<1>1. inbox[p][i] \in Messages
  BY Lengths, ElementOfSeq
<1> QED
  BY <1>1 DEF Messages

-----------------------------------------------------------------------------
(* What may never be undone.                                               *)

(* Ledgers only grow, and no record of a log is lost.                      *)
Grows ==
  \A p \in Peer :
    /\ L(p) <= L(p)'
    /\ \A i \in 1 .. L(p) : ledger'[p][i] = ledger[p][i]
    /\ log[p] \subseteq log'[p]

(* Holding the opponent's h_commit is for ever.                            *)
LEMMA HeldForEver ==
  ASSUME TypeOK, TypeOK', Grows, NEW p \in Peer, NEW n \in Nat, Held(p, n)
  PROVE  Held(p, n)'
<1> DEFINE q == Other(p)
<1>1. q \in Peer
  BY OtherFacts
<1>2. n < L(q) /\ L(q) \in Nat /\ L(q)' \in Nat
  <2>1. ledger[q] \in Seq(Seals) /\ ledger'[q] \in Seq(Seals)
    BY <1>1 DEF TypeOK
  <2> QED
    BY <2>1, LenProperties DEF Held, L
<1>3. n + 1 \in 1 .. L(q)
  BY <1>2
<1>4. ledger'[q][n + 1] = ledger[q][n + 1] /\ n < L(q)'
  BY <1>1, <1>2, <1>3 DEF Grows
<1> QED
  BY <1>1, <1>4 DEF Held, Grows, L

(* Histories only grow, and a police that has sent its REVEAL stays past   *)
(* it until it has resolved the turn.                                      *)
Advances ==
  /\ \A p \in Peer : N(p) <= N(p)'
  /\ pc["police"] \in Revealed =>
       pc'["police"] \in Revealed \/ N("police") < N("police")'

(* What is true of a message in flight stays true.                         *)
LEMMA LastingForEver ==
  ASSUME TypeOK, TypeOK', Grows, Advances,
         NEW p \in Peer, NEW m, m.turn \in Nat, Lasting(p, m)
  PROVE  Lasting(p, m)'
<1> DEFINE q == Other(p)  n == m.turn
<1>1. /\ q \in Peer
      /\ \A o \in Peer : /\ ledger[o] \in Seq(Seals) /\ ledger'[o] \in Seq(Seals)
                         /\ hist[o] \in Seq(JointTurns) /\ hist'[o] \in Seq(JointTurns)
  BY OtherFacts DEF TypeOK
<1>2. \A o \in Peer : /\ L(o) \in Nat /\ L(o)' \in Nat /\ L(o) <= L(o)'
                     /\ N(o) \in Nat /\ N(o)' \in Nat /\ N(o) <= N(o)'
  BY <1>1, LenProperties DEF L, N, Grows, Advances
<1>3. \A o \in Peer : Held(o, n) => Held(o, n)'
  BY HeldForEver
<1>4. \A o \in Peer : n < L(o) => n < L(o)' /\ ledger'[o][n + 1] = ledger[o][n + 1]
  <2>1. ASSUME NEW o \in Peer, n < L(o)
        PROVE  n < L(o)' /\ ledger'[o][n + 1] = ledger[o][n + 1]
    <3>1. n + 1 \in 1 .. L(o)
      BY <1>2, <2>1
    <3> QED
      BY <1>2, <2>1, <3>1 DEF Grows
  <2> QED
    BY <2>1
<1>5. Protocol(m) => n <= N(q)'
  BY <1>1, <1>2 DEF Lasting
<1>6. m.type = "commit" => n < L(p)' /\ m = Msg("commit", n, ledger'[p][n + 1], NoAct)
  BY <1>4 DEF Lasting
<1>7. m.type = "ack" => Held(p, n)' /\ m.seal = ledger'[q][n + 1]
  BY <1>1, <1>3, <1>4, OtherFacts DEF Lasting, Held, L
<1>8. m.type = "reveal" =>
        /\ n < L(p)' /\ m.act = ledger'[p][n + 1].act
        /\ Held("police", n)' /\ Held("thief", n)'
  BY <1>3, <1>4 DEF Lasting, Peer
<1>9. m.type = "reveal" =>
        /\ p = "thief" => n < N(p)'
        /\ p = "police" => n < N(p)' \/ (n = N(p)' /\ pc'[p] \in Revealed)
  BY <1>2 DEF Lasting, Advances
<1> QED
  BY <1>5, <1>6, <1>7, <1>8, <1>9 DEF Lasting

-----------------------------------------------------------------------------
(* Quiet steps.                                                            *)

(* Where the loop of p may go next by itself.                              *)
Follows(p, x) ==
  \/ x = pc[p]
  \/ x \in Ended /\ (x = "declare" => p = "police")
  \/ p = "police" /\
       \/ pc[p] = "send_commit" /\ x = "wait_ack_commit"
       \/ pc[p] = "send_ack" /\ ackd[p] /\ x = "send_reveal"
       \/ pc[p] = "send_ack" /\ ~ackd[p] /\ x = "wait_ack_commit"
       \/ pc[p] = "send_reveal" /\ x = "send_hint"
       \/ pc[p] \in {"send_reveal", "send_hint"} /\ x = "wait_reveal"
  \/ p = "thief" /\
       \/ pc[p] = "send_commit" /\ x = "send_ack"
       \/ pc[p] = "send_ack" /\ x = "wait_reveal"
       \/ pc[p] = "send_reveal" /\ x = "send_hint"
       \/ /\ pc[p] \in {"send_reveal", "send_hint"} /\ x = "wait_commit"
          /\ BoardOutcome(hist[p]) = "none"

Quiet(p, x) ==
  /\ x \in PC /\ Follows(p, x) /\ (pc[p] \in Ended => x \in Ended)
  /\ pc' = [pc EXCEPT ![p] = x]
  /\ UNCHANGED <<ledger, hist, oppCommit, ackd>>
  /\ \A q \in Peer :
       /\ log[q] \subseteq log'[q]
       /\ \A r \in log'[q] :
            r \in log[q] \/ r.dir = "sent" \/ r.msg.type = "game_over"
  /\ \A q \in Peer : pending'[q] = pending[q] \/ (q = p /\ x \in Ended \cup {"wait_commit"})
  /\ claim'[p] # "illegal_action" \/ claim' = claim
  /\ \A q \in Peer : q # p => claim'[q] = claim[q]

LEMMA QuietGrows == \A p \in Peer, x \in PC : Quiet(p, x) => Grows
BY DEF Quiet, Grows, L

(* The parts of the invariant that do not speak of messages.               *)
LEMMA QuietState ==
  ASSUME IInv, TypeOK', NEW p \in Peer, NEW x \in PC, Quiet(p, x)
  PROVE  /\ LedgerShape' /\ Counting' /\ Standing' /\ Binding'
         /\ Evidence' /\ StillLegal' /\ StillOpen' /\ NoFalseRejection'
<1>0. \A q \in Peer : /\ N(q)' = N(q) /\ L(q)' = L(q)
                      /\ N(q) \in Nat /\ L(q) \in Nat
                      /\ pc'[q] = IF q = p THEN x ELSE pc[q]
  BY Lengths DEF Quiet, IInv, TypeOK, N, L
<1>1. LedgerShape'
  BY DEF Quiet, IInv, LedgerShape, L
<1>2. Counting'
  <2>1. Together' => Together
    BY <1>0 DEF Quiet, Follows, Together, Ended, Peer
  <2> QED
    BY <1>0, <2>1 DEF IInv, Counting, Peer
<1>3. Standing'
  BY <1>0 DEF Quiet, Follows, IInv, Standing, Playing, Active, Ended, TurnOf, Behind, Peer, L, N
<1>4. Binding'
  BY DEF Quiet, IInv, Binding, N
<1>5. Evidence'
  BY DEF Quiet, IInv, Evidence, L
<1>6. StillLegal'
  BY DEF Quiet, IInv, StillLegal, N, L
<1>7. StillOpen'
  BY <1>0 DEF Quiet, Follows, IInv, StillOpen, Active, Ended, Behind, Peer
<1>8. NoFalseRejection'
  BY DEF Quiet, IInv, NoFalseRejection
<1> QED
  BY <1>1, <1>2, <1>3, <1>4, <1>5, <1>6, <1>7, <1>8

(* What a peer holds, it goes on holding for the turn it is in.            *)
LEMMA QuietHolding ==
  ASSUME IInv, TypeOK', NEW p \in Peer, NEW x \in PC, Quiet(p, x)
  PROVE  Holding'
<1>0. /\ TypeOK /\ Grows
      /\ \A q \in Peer : /\ N(q)' = N(q) /\ L(q)' = L(q) /\ N(q) \in Nat
                         /\ pc'[q] = IF q = p THEN x ELSE pc[q]
  BY Lengths, QuietGrows DEF Quiet, IInv, TypeOK, N, L
<1> SUFFICES ASSUME NEW q \in Peer, NEW n, n = TurnOf(q)'
             PROVE  /\ HoldsOther(q)' =>
                         Held(q, n)' /\ oppCommit'[q] = ledger'[Other(q)][n + 1]
                    /\ IsAcked(q)' => Held(Other(q), n)'
  BY DEF Holding
<1>1. HoldsOther(q)' => HoldsOther(q) /\ n = TurnOf(q)
  <2>1. pc["police"] = "send_commit" => oppCommit["police"] = NoSeal
    BY DEF IInv, Standing
  <2> QED
    BY <1>0, <2>1 DEF Quiet, Follows, HoldsOther, TurnOf, Behind, Ended, Peer
<1>2. IsAcked(q)' => IsAcked(q) /\ n = TurnOf(q)
  <2>1. Active("thief") /\ pc["thief"] # "wait_reveal" => ~ackd["thief"]
    BY DEF IInv, Standing
  <2>2. pc["police"] = "send_commit" => ~ackd["police"]
    BY DEF IInv, Standing
  <2> QED
    BY <1>0, <2>1, <2>2 DEF Quiet, Follows, IsAcked, TurnOf, Behind, Ended, Active, Peer
<1>3. HoldsOther(q) \/ IsAcked(q) => TurnOf(q) \in Nat
  <2>1. HoldsOther(q) \/ IsAcked(q) => Playing(q)
    BY DEF HoldsOther, IsAcked, Playing, Active, Ended
  <2>2. Playing(q) => TurnOf(q) >= 0
    BY DEF IInv, Standing
  <2> QED
    BY <1>0, <2>1, <2>2 DEF TurnOf
<1>4. n = TurnOf(q) /\ HoldsOther(q) =>
        Held(q, n) /\ oppCommit[q] = ledger[Other(q)][n + 1]
  BY DEF IInv, Holding
<1>5. n = TurnOf(q) /\ IsAcked(q) => Held(Other(q), n)
  BY DEF IInv, Holding
<1> QED
  BY <1>0, <1>1, <1>2, <1>3, <1>4, <1>5, HeldForEver, OtherFacts DEF Quiet

LEMMA QuietAdvances ==
  ASSUME IInv, NEW p \in Peer, NEW x \in PC, Quiet(p, x)
  PROVE  Advances
<1>1. \A q \in Peer : N(q)' = N(q) /\ N(q) \in Nat
  BY Lengths DEF Quiet, IInv, N
<1>2. pc["police"] \in Revealed => pc'["police"] \in Revealed
  <2>1. pc'["police"] = IF p = "police" THEN x ELSE pc["police"]
    BY DEF Quiet, IInv, TypeOK, Peer
  <2> QED
    BY <2>1 DEF Quiet, Follows, Revealed, Ended
<1> QED
  BY <1>1, <1>2 DEF Advances

(* The floors of the inboxes do not rise in a quiet step, and the ceilings *)
(* do not sink.                                                            *)
LEMMA QuietBounds ==
  ASSUME IInv, NEW p \in Peer, NEW x \in PC, Quiet(p, x), NEW q \in Peer, Active(q)'
  PROVE  /\ Active(q)
         /\ Floor(q)' <= Floor(q) /\ Floor(q) \in Int /\ Floor(q)' \in Int
         /\ Ceiling(q) <= Ceiling(q)' /\ Ceiling(q) \in Int /\ Ceiling(q)' \in Int
<1>1. /\ N(q)' = N(q) /\ N(q) \in Nat /\ pc \in [Peer -> PC]
      /\ pc'[q] = IF q = p THEN x ELSE pc[q]
  BY Lengths DEF Quiet, IInv, TypeOK, N
<1>2. Active(q)
  BY <1>1 DEF Quiet, Active
<1>3. pc["police"] = "send_commit" => oppCommit["police"] = NoSeal
  BY DEF IInv, Standing
<1>4. Floor(q)' <= Floor(q) /\ Floor(q) \in Int /\ Floor(q)' \in Int
  BY <1>1, <1>2, <1>3 DEF Quiet, Follows, Active, Floor, Fresh, HoldsOther, Ended, Peer
<1>5. TurnOf(q) \in Int /\ TurnOf(q)' \in Int
  BY <1>1 DEF TurnOf
<1>6. Ceiling(q) <= Ceiling(q)' /\ Ceiling(q) \in Int /\ Ceiling(q)' \in Int
  BY <1>1, <1>2, <1>5 DEF Quiet, Follows, Active, Ceiling, TurnOf, Behind, Ended, Peer
<1> QED
  BY <1>2, <1>4, <1>6

(* What was in an inbox stays true and in order over a quiet step.         *)
LEMMA QuietFlight ==
  ASSUME IInv, TypeOK', NEW p \in Peer, NEW x \in PC, Quiet(p, x),
         NEW q \in Peer, NEW i \in 1 .. Len(inbox[Other(q)]), NEW m, m = inbox[Other(q)][i]
  PROVE  Lasting(q, m)'
<1>1. Grows /\ Advances /\ TypeOK
  BY QuietGrows, QuietAdvances DEF IInv
<1>2. m.turn \in Nat
  BY <1>1, InboxEntry, OtherFacts
<1>3. Lasting(q, m)
  BY DEF IInv, Flight
<1> QED
  BY <1>1, <1>2, <1>3, LastingForEver

LEMMA QuietSorted ==
  ASSUME IInv, TypeOK', NEW p \in Peer, NEW x \in PC, Quiet(p, x),
         NEW q \in Peer, NEW s, s = inbox[Other(q)]
  PROVE  /\ \A i \in 1 .. Len(s) : Rank(s[i]) \in Int
         /\ Active(Other(q))' => \A i \in 1 .. Len(s) :
              Protocol(s[i]) => Rank(s[i]) >= Floor(Other(q))'
         /\ Active(q)' => \A i \in 1 .. Len(s) :
              Protocol(s[i]) => Rank(s[i]) <= Ceiling(q)
         /\ Active(q)' => \A i \in 1 .. Len(s) :
              Protocol(s[i]) => Rank(s[i]) <= Ceiling(q)'
         /\ Active(Other(q))' => \A i, j \in 1 .. Len(s) :
              i < j /\ Protocol(s[i]) /\ Protocol(s[j])
                => Rank(s[i]) <= Rank(s[j])
<1>1. \A i \in 1 .. Len(s) : Rank(s[i]) \in Int
  <2>1. \A i \in 1 .. Len(s) : s[i].turn \in Nat
    BY InboxEntry, OtherFacts DEF IInv
  <2> QED
    BY <2>1, RankType
<1>2. ASSUME Active(Other(q))', NEW i \in 1 .. Len(s), Protocol(s[i])
      PROVE  Rank(s[i]) >= Floor(Other(q))'
  <2>1. PICK o \in Peer : o = Other(q)
    BY OtherFacts
  <2>2. Active(o) /\ Floor(o)' <= Floor(o) /\ Floor(o) \in Int /\ Floor(o)' \in Int
    BY <1>2, <2>1, QuietBounds
  <2>3. Rank(s[i]) >= Floor(o)
    BY <1>2, <2>1, <2>2 DEF IInv, Ordered
  <2> QED
    BY <1>1, <2>1, <2>2, <2>3
<1>3. ASSUME Active(q)', NEW i \in 1 .. Len(s), Protocol(s[i])
      PROVE  Rank(s[i]) <= Ceiling(q) /\ Rank(s[i]) <= Ceiling(q)'
  <2>1. /\ Active(q) /\ Ceiling(q) <= Ceiling(q)'
        /\ Ceiling(q) \in Int /\ Ceiling(q)' \in Int
    BY <1>3, QuietBounds
  <2>2. Rank(s[i]) <= Ceiling(q)
    BY <1>3, <2>1 DEF IInv, Ordered
  <2> QED
    BY <1>1, <2>1, <2>2
<1>4. Active(Other(q))' => Active(Other(q))
  BY QuietBounds, OtherFacts
<1> QED
  BY <1>1, <1>2, <1>3, <1>4 DEF IInv, Ordered

(* A quiet step that sends nothing keeps the invariant.                    *)
LEMMA QuietSilent ==
  ASSUME IInv, TypeOK', NEW p \in Peer, NEW x \in PC, Quiet(p, x), UNCHANGED inbox
  PROVE  IInv'
<1>1. /\ LedgerShape' /\ Counting' /\ Standing' /\ Binding'
      /\ Evidence' /\ StillLegal' /\ StillOpen' /\ NoFalseRejection' /\ Holding'
  BY QuietState, QuietHolding
<1>2. Flight'
  BY QuietFlight DEF Flight
<1>3. Ordered'
  BY QuietSorted DEF Ordered
<1> QED
  BY <1>1, <1>2, <1>3 DEF IInv

-----------------------------------------------------------------------------
(* Sending.                                                                *)

(* The message of each sending place, under the turn the sender is in.     *)
LEMMA OutgoingCases ==
  ASSUME IInv, NEW p \in Peer, pc[p] \in Sending
  PROVE  LET m == Outgoing(p)  n == TurnOf(p) IN
         /\ Active(p) <=> Protocol(m) \/ m.type = "hint"
         /\ Active(p) => m.turn = n /\ n \in Nat /\ L(p) = n + 1 /\ n + 1 \in 1 .. L(p)
         /\ m.type = "commit" => pc[p] = "send_commit" /\ m = Msg("commit", n, ledger[p][n + 1], NoAct)
         /\ m.type = "ack" => pc[p] = "send_ack" /\ m.seal = oppCommit[p]
         /\ m.type = "reveal" => pc[p] = "send_reveal" /\ m.act = ledger[p][n + 1].act
         /\ m.type = "hint" => pc[p] = "send_hint"
<1> DEFINE m == Outgoing(p)  n == TurnOf(p)
<1>1. CASE pc[p] \in {"declare", "publish"}
  <2>1. m.type \in {"game_over", "final_reveal"}
    BY <1>1 DEF Outgoing, Msg
  <2>2. ~Active(p)
    BY <1>1 DEF Active, Ended
  <2> QED
    BY <2>1, <2>2 DEF Protocol
<1>2. CASE pc[p] \notin {"declare", "publish"}
  <2>1. Active(p) /\ Playing(p)
    BY <1>2 DEF Active, Playing, Ended, Sending
  <2>2. /\ L(p) = n + 1 /\ pending[p].turn = n /\ n >= 0
        /\ pending[p].act = ledger[p][L(p)].act
    BY <2>1 DEF IInv, Standing
  <2>3. n \in Nat /\ n + 1 \in 1 .. L(p)
    BY <2>2, Lengths DEF IInv, TurnOf
  <2>4. ledger[p][n + 1] = Seal(p, n, ledger[p][n + 1].act)
    BY <2>3 DEF IInv, LedgerShape
  <2>5. OwnSeal(p) = ledger[p][n + 1]
    BY <2>2, <2>4 DEF OwnSeal
  <2>6. /\ pc[p] = "send_commit" => m = Msg("commit", n, ledger[p][n + 1], NoAct)
        /\ pc[p] = "send_ack" => m = Msg("ack", n, oppCommit[p], NoAct)
        /\ pc[p] = "send_reveal" => m = Msg("reveal", n, NoSeal, ledger[p][n + 1].act)
        /\ pc[p] = "send_hint" => m = Msg("hint", n, NoSeal, NoAct)
    BY <2>2, <2>5 DEF Outgoing
  <2>7. pc[p] \in {"send_commit", "send_ack", "send_reveal", "send_hint"}
    BY <1>2 DEF Sending
  <2> HIDE DEF m, n
  <2>8. m.turn = n /\ m.type \in {"commit", "ack", "reveal", "hint"}
    BY <2>6, <2>7 DEF Msg
  <2> QED
    BY <2>1, <2>2, <2>3, <2>6, <2>7, <2>8 DEF Msg, Protocol, m, n
<1> QED
  BY <1>1, <1>2

(* What is sent is true, and as new as anything sent before.               *)
LEMMA OutgoingFits ==
  ASSUME IInv, NEW p \in Peer, pc[p] \in Sending, NEW m, m = Outgoing(p)
  PROVE  /\ m.turn \in Nat /\ Lasting(p, m)
         /\ Protocol(m) => Active(p) /\ Rank(m) = Ceiling(p) /\ Ceiling(p) \in Int
         /\ Protocol(m) /\ Active(Other(p)) => Rank(m) >= Floor(Other(p))
<1> DEFINE n == TurnOf(p)  q == Other(p)
<1>0. /\ N("police") \in Nat /\ N("thief") \in Nat
      /\ N("police") <= N("thief") /\ N("thief") <= N("police") + 1
      /\ Together => N("police") = N("thief")
  BY Lengths DEF IInv, Counting, Peer
<1>1. m.turn \in Nat
  BY OutgoingType DEF IInv, Messages
<1>2. CASE ~Protocol(m)
  BY <1>1, <1>2 DEF Lasting, Protocol
<1>3. CASE Protocol(m)
  <2>1. /\ Active(p) /\ m.turn = n /\ n \in Nat /\ L(p) = n + 1
        /\ m.type = "commit" => pc[p] = "send_commit" /\ m = Msg("commit", n, ledger[p][n + 1], NoAct)
        /\ m.type = "ack" => pc[p] = "send_ack" /\ m.seal = oppCommit[p]
        /\ m.type = "reveal" => pc[p] = "send_reveal" /\ m.act = ledger[p][n + 1].act
        /\ m.type = "hint" => pc[p] = "send_hint"
    BY <1>3, OutgoingCases
  <2>2. m.type \in {"commit", "ack", "reveal", "hint"}
    BY <1>3 DEF Protocol
  <2>3. n <= N(q)
    BY <1>0, <2>1, <2>2 DEF Together, TurnOf, Behind, Other, Peer
  <2>4. m.type = "ack" => Held(p, n) /\ m.seal = ledger[q][n + 1]
    <3>1. pc[p] = "send_ack" => HoldsOther(p)
      BY DEF HoldsOther, Peer
    <3> QED
      BY <2>1, <3>1 DEF IInv, Holding
  <2>5. m.type = "reveal" => Held(p, n) /\ Held(q, n)
    <3>1. pc[p] = "send_reveal" => HoldsOther(p) /\ IsAcked(p)
      BY DEF HoldsOther, IsAcked, Peer
    <3> QED
      BY <2>1, <3>1 DEF IInv, Holding
  <2>6. m.type = "reveal" =>
          /\ p = "thief" => n < N(p)
          /\ p = "police" => n = N(p) /\ pc[p] \in Revealed
    BY <1>0, <2>1 DEF TurnOf, Behind, Revealed, Peer
  <2>7. Lasting(p, m)
    <3>1. m.type = "reveal" => Held("police", n) /\ Held("thief", n)
      BY <2>5 DEF Other, Peer
    <3> QED
      BY <2>1, <2>3, <2>4, <2>6, <3>1 DEF Lasting
  <2>8. Rank(m) = Ceiling(p) /\ Ceiling(p) \in Int
    BY <2>1, <2>2 DEF Rank, Ceiling
  <2>9. ASSUME Active(q) PROVE Rank(m) >= Floor(q)
    <3>1. CASE p = "police"
      <4>1. q = "thief" /\ n = N("police")
        BY <3>1 DEF Other, TurnOf
      <4>2. CASE N("thief") = N("police")
        BY <1>0, <2>1, <2>2, <4>1, <4>2 DEF Rank, Floor
      <4>3. CASE N("thief") = N("police") + 1
        <5>1. ~Together
          BY <1>0, <4>3
        <5>2. pc[p] \in {"send_reveal", "send_hint"} /\ ~Fresh("thief")
          BY <2>1, <2>2, <3>1, <5>1 DEF Together, Fresh
        <5> QED
          BY <1>0, <2>1, <2>2, <3>1, <4>1, <4>3, <5>2 DEF Rank, Floor
      <4> QED
        BY <1>0, <4>2, <4>3
    <3>2. CASE p = "thief"
      <4>1. q = "police"
        BY <3>2 DEF Other
      <4>2. CASE pc[p] \in {"send_commit", "send_ack"}
        BY <1>0, <2>1, <2>2, <3>2, <4>1, <4>2 DEF Rank, Floor, Together, TurnOf, Behind
      <4>3. CASE pc[p] \in {"send_reveal", "send_hint"}
        <5>1. n = N("thief") - 1 /\ L("thief") = N("thief") /\ Rank(m) = 3 * N("thief") - 1
          BY <1>0, <2>1, <2>2, <3>2, <4>3 DEF Rank, TurnOf, Behind
        <5>2. Fresh("police") => N("police") < N("thief")
          <6>1. Fresh("police") => HoldsOther("police")
            BY DEF Fresh
          <6>2. TurnOf("police") = N("police")
            BY DEF TurnOf
          <6>3. HoldsOther("police") => Held("police", N("police"))
            BY <6>2 DEF IInv, Holding, Peer
          <6>4. Held("police", N("police")) => N("police") < L("thief")
            BY DEF Held, Other, L
          <6> QED
            BY <5>1, <6>1, <6>3, <6>4
        <5> QED
          BY <1>0, <4>1, <5>1, <5>2 DEF Floor
      <4> QED
        BY <2>1, <2>2, <4>2, <4>3
    <3> QED
      BY <3>1, <3>2 DEF Peer
  <2> QED
    BY <1>1, <2>1, <2>7, <2>8, <2>9
<1> QED
  BY <1>2, <1>3

(* A quiet step of a loop that also puts its outgoing message in the       *)
(* opponent's inbox keeps the invariant.                                   *)
LEMMA QuietSend ==
  ASSUME IInv, TypeOK', NEW p \in Peer, NEW x \in PC, Quiet(p, x),
         pc[p] \in Sending, Enqueue(p)
  PROVE  IInv'
<1>1. /\ LedgerShape' /\ Counting' /\ Standing' /\ Binding'
      /\ Evidence' /\ StillLegal' /\ StillOpen' /\ NoFalseRejection' /\ Holding'
  BY QuietState, QuietHolding
<1>2. PICK m : m = Outgoing(p)
  OBVIOUS
<1>3. /\ m.turn \in Nat /\ Lasting(p, m) /\ m \in Messages
      /\ Protocol(m) => Active(p) /\ Rank(m) = Ceiling(p) /\ Ceiling(p) \in Int
      /\ Protocol(m) /\ Active(Other(p)) => Rank(m) >= Floor(Other(p))
  BY <1>2, OutgoingFits, OutgoingType DEF IInv
<1>4. PICK s \in Seq(Messages) : s = inbox[Other(p)]
  BY Lengths, OtherFacts DEF IInv
<1>5. PICK t : /\ t = Append(s, m) /\ t \in Seq(Messages)
               /\ Len(s) \in Nat /\ Len(t) = Len(s) + 1
               /\ \A i \in 1 .. Len(s) : t[i] = s[i]
               /\ t[Len(s) + 1] = m
  <2>1. Len(s) \in Nat
    BY LenProperties
  <2>2. /\ Append(s, m) \in Seq(Messages) /\ Len(Append(s, m)) = Len(s) + 1
        /\ \A i \in 1 .. Len(s) : Append(s, m)[i] = s[i]
        /\ Append(s, m)[Len(s) + 1] = m
    BY <1>3, AppendFacts
  <2> QED
    BY <2>1, <2>2
<1>6. inbox'[Other(p)] = t /\ inbox'[p] = inbox[p]
  BY <1>2, <1>4, <1>5, OtherFacts DEF Enqueue, IInv, TypeOK
<1>7. Lasting(p, m)'
  BY <1>3, QuietGrows, QuietAdvances, LastingForEver DEF IInv
<1>8. Flight'
  <2> SUFFICES ASSUME NEW q \in Peer, NEW i \in 1 .. Len(inbox'[Other(q)])
               PROVE  Lasting(q, inbox[Other(q)][i])'
    BY DEF Flight
  <2>1. CASE q = p
    <3>1. CASE i = Len(s) + 1
      BY <1>5, <1>6, <1>7, <2>1, <3>1
    <3>2. CASE i \in 1 .. Len(s)
      <4>1. PICK e : e = s[i]
        OBVIOUS
      <4>2. Lasting(p, e)'
        BY <1>4, <3>2, <4>1, QuietFlight
      <4> QED
        BY <1>5, <1>6, <2>1, <3>2, <4>1, <4>2
    <3> QED
      BY <1>5, <1>6, <2>1, <3>1, <3>2
  <2>2. CASE q # p
    <3>1. Other(q) = p
      BY <2>2 DEF Other, Peer
    <3>2. inbox'[Other(q)] = inbox[Other(q)]
      BY <1>6, <3>1
    <3> QED
      BY <3>2, QuietFlight
  <2> QED
    BY <2>1, <2>2
<1>9. Ordered'
  <2> SUFFICES ASSUME NEW q \in Peer, NEW u, u = inbox'[Other(q)]
               PROVE  /\ Active(Other(q))' => \A i \in 1 .. Len(u) :
                           Protocol(u[i]) => Rank(u[i]) >= Floor(Other(q))'
                      /\ Active(q)' => \A i \in 1 .. Len(u) :
                           Protocol(u[i]) => Rank(u[i]) <= Ceiling(q)'
                      /\ Active(Other(q))' => \A i, j \in 1 .. Len(u) :
                           i < j /\ Protocol(u[i]) /\ Protocol(u[j])
                             => Rank(u[i]) <= Rank(u[j])
    BY DEF Ordered
  <2>1. CASE q # p
    <3>1. Other(q) = p
      BY <2>1 DEF Other, Peer
    <3>2. u = inbox[Other(q)]
      BY <1>6, <3>1
    <3> QED
      BY <3>2, QuietSorted
  <2>2. CASE q = p
    <3>1. u = t
      BY <1>6, <2>2
    <3>2. PICK o \in Peer : o = Other(p)
      BY OtherFacts
    <3>3. /\ \A i \in 1 .. Len(s) : Rank(s[i]) \in Int
          /\ Active(o)' => \A i \in 1 .. Len(s) :
               Protocol(s[i]) => Rank(s[i]) >= Floor(o)'
          /\ Active(p)' => \A i \in 1 .. Len(s) :
               Protocol(s[i]) => Rank(s[i]) <= Ceiling(p)
          /\ Active(p)' => \A i \in 1 .. Len(s) :
               Protocol(s[i]) => Rank(s[i]) <= Ceiling(p)'
          /\ Active(o)' => \A i, j \in 1 .. Len(s) :
               i < j /\ Protocol(s[i]) /\ Protocol(s[j])
                 => Rank(s[i]) <= Rank(s[j])
      BY <1>4, <3>2, QuietSorted
    <3>4. Protocol(m) /\ Active(o)' => Rank(m) >= Floor(o)'
      BY <1>3, <3>2, QuietBounds DEF Rank
    <3>5. Protocol(m) /\ Active(p)' => Rank(m) <= Ceiling(p)'
      BY <1>3, QuietBounds
    <3>6. Protocol(m) => \A i \in 1 .. Len(s) : Protocol(s[i]) => Rank(s[i]) <= Rank(m)
      BY <1>3, <1>4 DEF IInv, Ordered
    <3>7. \A i \in 1 .. Len(t) : i \in 1 .. Len(s) \/ i = Len(s) + 1
      BY <1>5
    <3> HIDE DEF Rank, Protocol, Active, Floor, Ceiling
    <3>8. Active(o)' => \A i \in 1 .. Len(t) : Protocol(t[i]) => Rank(t[i]) >= Floor(o)'
      BY <1>5, <3>3, <3>4, <3>7
    <3>9. Active(p)' => \A i \in 1 .. Len(t) : Protocol(t[i]) => Rank(t[i]) <= Ceiling(p)'
      BY <1>5, <3>3, <3>5, <3>7
    <3>10. ASSUME Active(o)', NEW i \in 1 .. Len(t), NEW j \in 1 .. Len(t),
                  i < j, Protocol(t[i]), Protocol(t[j])
           PROVE  Rank(t[i]) <= Rank(t[j])
      <4>1. i \in 1 .. Len(s)
        BY <1>5, <3>10
      <4>2. CASE j \in 1 .. Len(s)
        BY <1>5, <3>3, <3>10, <4>1, <4>2
      <4>3. CASE j = Len(s) + 1
        BY <1>5, <3>6, <3>10, <4>1, <4>3
      <4> QED
        BY <3>7, <4>2, <4>3
    <3> QED
      BY <2>2, <3>1, <3>2, <3>8, <3>9, <3>10
  <2> QED
    BY <2>1, <2>2
<1> QED
  BY <1>1, <1>8, <1>9 DEF IInv

-----------------------------------------------------------------------------
(* The steps that are quiet.                                               *)

(* The moves of pc and pending in a quiet step.                            *)
Moves(p, x) ==
  /\ x \in PC /\ Follows(p, x) /\ (pc[p] \in Ended => x \in Ended)
  /\ pc' = [pc EXCEPT ![p] = x]
  /\ \A q \in Peer : pending'[q] = pending[q] \/ (q = p /\ x \in Ended \cup {"wait_commit"})

(* Ending the loop is such a move.                                         *)
LEMMA FinishMoves ==
  ASSUME NEW p \in Peer, NEW o, NEW s, Finish(p, o, s),
         \A q \in Peer : q # p => pending'[q] = pending[q]
  PROVE  \E x \in PC : Moves(p, x)
<1> DEFINE x == IF p = "police" /\ o = "capture" THEN "declare" ELSE "publish"
<1>1. x \in PC /\ x \in Ended /\ (x = "declare" => p = "police")
  BY DEF PC, Sending, Ended
<1>2. pc' = [pc EXCEPT ![p] = x]
  BY DEF Finish
<1> QED
  BY <1>1, <1>2 DEF Moves, Follows

LEMMA EndOfMyTurnMoves ==
  ASSUME IInv, NEW p \in Peer, pc[p] \in {"send_reveal", "send_hint"}, EndOfMyTurn(p)
  PROVE  \E x \in PC : Moves(p, x)
<1>1. "wait_reveal" \in PC /\ "wait_commit" \in PC
  BY DEF PC, Waiting
<1>2. pc[p] \notin Ended
  BY DEF Ended
<1>3. CASE p = "police"
  <2>1. pc' = [pc EXCEPT ![p] = "wait_reveal"] /\ pending' = pending
    BY <1>3 DEF EndOfMyTurn
  <2> QED
    BY <1>1, <1>2, <1>3, <2>1 DEF Moves, Follows
<1>4. CASE p = "thief"
  <2>1. pending' = [pending EXCEPT ![p] = Nothing]
    BY <1>4 DEF EndOfMyTurn
  <2>2. \A q \in Peer : q # p => pending'[q] = pending[q]
    BY <2>1 DEF IInv, TypeOK
  <2>3. CASE BoardOutcome(hist[p]) # "none"
    <3>1. Finish(p, BoardOutcome(hist[p]), Attempt(machine[p], "wait_opponent"))
      BY <1>4, <2>3 DEF EndOfMyTurn
    <3> QED
      BY <2>2, <3>1, FinishMoves
  <2>4. CASE BoardOutcome(hist[p]) = "none"
    <3>1. pc' = [pc EXCEPT ![p] = "wait_commit"]
      BY <1>4, <2>4 DEF EndOfMyTurn
    <3> QED
      BY <1>1, <1>2, <1>4, <2>2, <2>4, <3>1 DEF Moves, Follows
  <2> QED
    BY <2>3, <2>4
<1> QED
  BY <1>3, <1>4 DEF Peer

LEMMA ProceedMoves ==
  ASSUME IInv, NEW p \in Peer, pc[p] \in Sending, Proceed(p)
  PROVE  \E x \in PC : Moves(p, x)
<1>1. ASSUME NEW x \in PC, Goto(p, x), Follows(p, x), pc[p] \in Ended => x \in Ended
      PROVE  Moves(p, x)
  BY <1>1 DEF Goto, Moves
<1>2. {"wait_ack_commit", "send_ack", "wait_reveal", "send_reveal", "send_hint",
       "publish", "over"} \subseteq PC
  BY DEF PC, Sending, Waiting
<1>3. pc[p] \notin {"declare", "publish"} => pc[p] \notin Ended
  BY DEF Sending, Ended
<1>4. CASE pc[p] = "send_commit"
  BY <1>1, <1>2, <1>3, <1>4 DEF Proceed, Follows, Peer
<1>5. CASE pc[p] = "send_ack"
  BY <1>1, <1>2, <1>3, <1>5 DEF Proceed, Follows, Peer
<1>6. CASE pc[p] = "send_reveal"
  <2>1. CASE SendsHint(p)
    <3>1. Goto(p, "send_hint")
      BY <1>6, <2>1 DEF Proceed
    <3> QED
      BY <1>1, <1>2, <1>3, <1>6, <3>1 DEF Follows, Peer
  <2>2. CASE ~SendsHint(p)
    BY <1>6, <2>2, EndOfMyTurnMoves DEF Proceed
  <2> QED
    BY <2>1, <2>2
<1>7. CASE pc[p] = "send_hint"
  BY <1>7, EndOfMyTurnMoves DEF Proceed
<1>8. CASE pc[p] = "declare"
  <2>1. Goto(p, "publish")
    BY <1>8 DEF Proceed
  <2> QED
    BY <1>1, <1>2, <2>1 DEF Follows, Ended
<1>9. CASE pc[p] = "publish"
  <2>1. Goto(p, "over")
    BY <1>9 DEF Proceed
  <2> QED
    BY <1>1, <1>2, <2>1 DEF Follows, Ended
<1> QED
  BY <1>4, <1>5, <1>6, <1>7, <1>8, <1>9 DEF Sending

(* A failed attempt stays, gives up a best-effort call, or ends the loop.  *)
LEMMA AttemptFailedMoves ==
  ASSUME IInv, NEW p \in Peer, pc[p] \in Sending, AttemptFailed(p)
  PROVE  /\ \E x \in PC : Moves(p, x)
         /\ \A q \in Peer : claim'[q] # "illegal_action"
<1>0. /\ pc \in [Peer -> PC] /\ claim \in [Peer -> Claims]
      /\ \A q \in Peer : claim[q] # "illegal_action"
  BY DEF IInv, TypeOK, NoFalseRejection
<1>1. CASE tries[p] < Retries
  <2>1. UNCHANGED <<pc, pending, claim>>
    BY <1>1 DEF AttemptFailed
  <2>2. Moves(p, pc[p]) /\ pc[p] \in PC
    BY <1>0, <2>1 DEF Moves, Follows
  <2> QED
    BY <1>0, <2>1, <2>2
<1>2. CASE ~(tries[p] < Retries) /\ pc[p] \in BestEffort
  <2>1. Proceed(p) /\ claim' = claim
    BY <1>2 DEF AttemptFailed
  <2> QED
    BY <1>0, <2>1, ProceedMoves
<1>3. CASE ~(tries[p] < Retries) /\ pc[p] \notin BestEffort
  <2>1. TechnicalLoss(p, "opponent_unresponsive") /\ pending' = pending
    BY <1>3 DEF AttemptFailed
  <2>2. \E x \in PC : Moves(p, x)
    BY <2>1, FinishMoves DEF TechnicalLoss
  <2> QED
    BY <1>0, <2>1, <2>2 DEF TechnicalLoss
<1> QED
  BY <1>1, <1>2, <1>3

(* The steps of a loop that sends, waits in vain or dies are quiet.        *)
LEMMA PushQuiet ==
  ASSUME IInv, NEW p \in Peer,
         PushAnswered(p) \/ PushUnanswered(p) \/ PushLost(p) \/ PushRefused(p)
  PROVE  /\ pc[p] \in Sending
         /\ Enqueue(p) \/ UNCHANGED inbox
         /\ \E x \in PC : Quiet(p, x)
<1>0. pc[p] \in Sending /\ claim \in [Peer -> Claims] /\ NoFalseRejection
  BY DEF PushAnswered, PushUnanswered, PushLost, PushRefused, IInv, TypeOK
<1>1. \E x \in PC : Moves(p, x)
  BY <1>0, ProceedMoves, AttemptFailedMoves
     DEF PushAnswered, PushUnanswered, PushLost, PushRefused
<1>2. /\ UNCHANGED <<ledger, hist, oppCommit, ackd>>
      /\ Enqueue(p) \/ UNCHANGED inbox
  BY DEF PushAnswered, PushUnanswered, PushLost, PushRefused
<1>3. \A q \in Peer :
        /\ log[q] \subseteq log'[q]
        /\ \A r \in log'[q] :
            r \in log[q] \/ r.dir = "sent" \/ r.msg.type = "game_over"
  <2>1. CASE PushAnswered(p)
    <3>1. \A q \in Peer : log'[q] =
            IF q = p THEN log[q] \cup {Record("sent", Outgoing(p).turn, Outgoing(p))}
            ELSE log[q]
      BY <2>1 DEF PushAnswered, IInv, TypeOK
    <3>2. Record("sent", Outgoing(p).turn, Outgoing(p)).dir = "sent"
      BY DEF Record
    <3> QED
      BY <3>1, <3>2
  <2>2. CASE UNCHANGED log
    BY <2>2
  <2> QED
    BY <2>1, <2>2 DEF PushUnanswered, PushLost, PushRefused
<1>4. \/ claim' = claim
      \/ claim'[p] # "illegal_action" /\ \A q \in Peer : q # p => claim'[q] = claim[q]
  <2>1. CASE PushAnswered(p)
    BY <2>1 DEF PushAnswered
  <2>2. CASE AttemptFailed(p)
    BY <1>0, <2>2 DEF AttemptFailed, TechnicalLoss
  <2> QED
    BY <2>1, <2>2 DEF PushUnanswered, PushLost, PushRefused
<1>5. \E x \in PC : Quiet(p, x)
  BY <1>1, <1>2, <1>3, <1>4 DEF Quiet, Moves
<1> QED
  BY <1>0, <1>2, <1>5

LEMMA PushInv ==
  ASSUME IInv, TypeOK', NEW p \in Peer,
         PushAnswered(p) \/ PushUnanswered(p) \/ PushLost(p) \/ PushRefused(p)
  PROVE  IInv'
BY PushQuiet, QuietSend, QuietSilent

LEMMA SilenceQuiet ==
  ASSUME IInv, NEW p \in Peer,
         WaitExpires(p) \/ WaitExpiresEarly(p) \/ Crash(p)
  PROVE  UNCHANGED inbox /\ \E x \in PC : Quiet(p, x)
<1>0. claim \in [Peer -> Claims]
  BY DEF IInv, TypeOK
<1>1. CASE Expire(p)
  <2>1. \E x \in PC : Moves(p, x)
    BY <1>1, FinishMoves DEF Expire, TechnicalLoss
  <2>2. /\ claim'[p] # "illegal_action"
        /\ \A q \in Peer : q # p => claim'[q] = claim[q]
    BY <1>0, <1>1 DEF Expire, TechnicalLoss
  <2>3. UNCHANGED <<inbox, ledger, hist, oppCommit, ackd, log>>
    BY <1>1 DEF Expire
  <2>4. \E x \in PC : Quiet(p, x)
    BY <2>1, <2>2, <2>3 DEF Quiet, Moves
  <2> QED
    BY <2>3, <2>4
<1>2. CASE Crash(p)
  <2>1. "gone" \in PC /\ "gone" \in Ended
    BY DEF PC, Ended
  <2>2. UNCHANGED <<inbox, ledger, hist, oppCommit, ackd, log, claim, pending>>
    BY <1>2 DEF Crash
  <2>3. Quiet(p, "gone")
    BY <1>2, <2>1, <2>2 DEF Crash, Quiet, Follows
  <2> QED
    BY <2>1, <2>2, <2>3
<1> QED
  BY <1>1, <1>2 DEF WaitExpires, WaitExpiresEarly

LEMMA SilenceInv ==
  ASSUME IInv, TypeOK', NEW p \in Peer,
         WaitExpires(p) \/ WaitExpiresEarly(p) \/ Crash(p)
  PROVE  IInv'
BY SilenceQuiet, QuietSilent

-----------------------------------------------------------------------------
(* Reading.                                                                *)

(* Whatever is in the inbox of p was in flight from its opponent.          *)
LEMMA InFlight ==
  ASSUME IInv, NEW p \in Peer, NEW i \in 1 .. Len(inbox[p]), NEW m, m = inbox[p][i]
  PROVE  m \in Messages /\ m.turn \in Nat /\ Lasting(Other(p), m)
<1>1. PICK q \in Peer : q = Other(p) /\ Other(q) = p
  BY OtherFacts
<1>2. Lasting(q, m)
  BY <1>1 DEF IInv, Flight
<1> QED
  BY <1>1, <1>2, InboxEntry DEF IInv

(* An ACK that names p's outstanding commit is an ACK of the turn p is in. *)
LEMMA MatchingAck ==
  ASSUME IInv, NEW p \in Peer, Playing(p), NEW i \in 1 .. Len(inbox[p]), NEW m,
         m = inbox[p][i], m.type = "ack", m.seal = OwnSeal(p)
  PROVE  Held(Other(p), TurnOf(p))
<1> DEFINE k == m.turn
<1>1. k \in Nat /\ Held(Other(p), k) /\ m.seal = ledger[p][k + 1]
  <2>1. Other(Other(p)) = p
    BY OtherFacts
  <2> QED
    BY <2>1, InFlight DEF Lasting
<1>2. k < L(p) /\ L(p) \in Nat
  BY <1>1, OtherFacts, Lengths DEF Held, L, IInv
<1>3. k + 1 \in 1 .. L(p)
  BY <1>1, <1>2
<1>4. ledger[p][k + 1] = Seal(p, (k + 1) - 1, ledger[p][k + 1].act)
  BY <1>3 DEF IInv, LedgerShape
<1>5. ledger[p][k + 1].turn = k
  BY <1>1, <1>4 DEF Seal
<1>6. OwnSeal(p).turn = pending[p].turn
  BY DEF OwnSeal, Seal
<1>7. pending[p].turn = TurnOf(p)
  BY DEF IInv, Standing
<1> QED
  BY <1>1, <1>5, <1>6, <1>7

(* An inbox that only loses or moves entries stays true.                   *)
LEMMA FlightKept ==
  ASSUME IInv, TypeOK', Grows, Advances,
         \A q \in Peer : \A i \in 1 .. Len(inbox'[q]) :
           \E j \in 1 .. Len(inbox[q]) : inbox'[q][i] = inbox[q][j]
  PROVE  Flight'
<1> SUFFICES ASSUME NEW p \in Peer, NEW i \in 1 .. Len(inbox'[Other(p)])
             PROVE  Lasting(p, inbox[Other(p)][i])'
  BY DEF Flight
<1>1. PICK q \in Peer : q = Other(p) /\ Other(q) = p
  BY OtherFacts
<1>2. PICK j \in 1 .. Len(inbox[q]) : inbox'[q][i] = inbox[q][j]
  BY <1>1
<1>3. PICK m : m = inbox[q][j]
  OBVIOUS
<1>4. m.turn \in Nat /\ Lasting(p, m)
  BY <1>1, <1>2, <1>3, InFlight
<1>5. Lasting(p, m)'
  BY <1>4, LastingForEver DEF IInv
<1> QED
  BY <1>1, <1>2, <1>3, <1>5

LEMMA TakeEntries ==
  ASSUME IInv, NEW p \in Peer, inbox[p] # <<>>, Take(p)
  PROVE  /\ inbox'[Other(p)] = inbox[Other(p)]
         /\ inbox'[p] = Tail(inbox[p])
         /\ Head(inbox[p]) = inbox[p][1] /\ 1 \in 1 .. Len(inbox[p])
         /\ Len(inbox[p]) \in Nat /\ Len(inbox'[p]) = Len(inbox[p]) - 1
         /\ \A i \in 1 .. Len(inbox'[p]) :
              inbox'[p][i] = inbox[p][i + 1] /\ i + 1 \in 1 .. Len(inbox[p])
         /\ \A q \in Peer : \A i \in 1 .. Len(inbox'[q]) :
              \E j \in 1 .. Len(inbox[q]) : inbox'[q][i] = inbox[q][j]
<1> DEFINE s == inbox[p]
<1>1. s \in Seq(Messages) /\ inbox \in [Peer -> Seq(Messages)]
  BY DEF IInv, TypeOK
<1>2. inbox'[Other(p)] = inbox[Other(p)] /\ inbox'[p] = Tail(s)
  BY <1>1, OtherFacts DEF Take
<1>3. /\ Head(s) = s[1] /\ Len(s) \in Nat \ {0} /\ Len(Tail(s)) = Len(s) - 1
      /\ \A i \in 1 .. Len(Tail(s)) : Tail(s)[i] = s[i + 1]
  BY <1>1, TailFacts
<1>4. \A i \in 1 .. Len(inbox'[p]) :
        inbox'[p][i] = s[i + 1] /\ i + 1 \in 1 .. Len(s)
  BY <1>2, <1>3
<1>5. \A q \in Peer : q = p \/ q = Other(p)
  BY DEF Other, Peer
<1>6. \A q \in Peer : \A i \in 1 .. Len(inbox'[q]) :
        \E j \in 1 .. Len(inbox[q]) : inbox'[q][i] = inbox[q][j]
  BY <1>2, <1>4, <1>5
<1> QED
  BY <1>2, <1>3, <1>4, <1>6

(* The inbox a reader takes from stays in order, even when the reader now  *)
(* refuses whatever is older than what it took.                            *)
LEMMA TakeSorted ==
  ASSUME IInv, NEW p \in Peer, inbox[p] # <<>>, Take(p), NEW m, m = Head(inbox[p]),
         NEW q, q = Other(p), Active(q)' => Active(q) /\ Ceiling(q)' = Ceiling(q),
         Active(p), Floor(p) \in Int, Floor(p)' \in Int,
         Floor(p)' <= Floor(p) \/ (Protocol(m) /\ Floor(p)' <= Rank(m))
  PROVE  LET s == inbox'[p] IN
         /\ Active(p)' => \A i \in 1 .. Len(s) : Protocol(s[i]) => Rank(s[i]) >= Floor(p)'
         /\ Active(q)' => \A i \in 1 .. Len(s) : Protocol(s[i]) => Rank(s[i]) <= Ceiling(q)'
         /\ Active(p)' => \A i, j \in 1 .. Len(s) :
              i < j /\ Protocol(s[i]) /\ Protocol(s[j]) => Rank(s[i]) <= Rank(s[j])
<1> DEFINE s == inbox[p]  t == inbox'[p]
<1>1. q \in Peer /\ Other(q) = p
  BY OtherFacts
<1>2. /\ s[1] = m /\ 1 \in 1 .. Len(s) /\ Len(s) \in Nat /\ Len(t) = Len(s) - 1
      /\ \A i \in 1 .. Len(t) : t[i] = s[i + 1] /\ i + 1 \in 1 .. Len(s)
  BY TakeEntries
<1>3. \A i \in 1 .. Len(s) : Rank(s[i]) \in Int
  <2>1. \A i \in 1 .. Len(s) : s[i].turn \in Nat
    BY InboxEntry DEF IInv
  <2> HIDE DEF s
  <2> QED
    BY <2>1, RankType
<1>4. /\ \A i \in 1 .. Len(s) : Protocol(s[i]) => Rank(s[i]) >= Floor(p)
      /\ Active(q) => \A i \in 1 .. Len(s) : Protocol(s[i]) => Rank(s[i]) <= Ceiling(q)
      /\ \A i, j \in 1 .. Len(s) :
           i < j /\ Protocol(s[i]) /\ Protocol(s[j]) => Rank(s[i]) <= Rank(s[j])
  BY <1>1 DEF IInv, Ordered
<1> HIDE DEF s, t
<1>5. ASSUME NEW i \in 1 .. Len(t), Protocol(t[i])
      PROVE  Rank(t[i]) >= Floor(p)'
  <2>1. t[i] = s[i + 1] /\ i + 1 \in 1 .. Len(s) /\ 1 < i + 1
    BY <1>2
  <2>2. Rank(t[i]) >= Floor(p) /\ Rank(t[i]) \in Int
    BY <1>3, <1>4, <1>5, <2>1
  <2>3. Protocol(m) => Rank(m) <= Rank(t[i]) /\ Rank(m) \in Int
    BY <1>2, <1>3, <1>4, <1>5, <2>1
  <2> QED
    BY <2>2, <2>3
<1>6. ASSUME NEW i \in 1 .. Len(t), NEW j \in 1 .. Len(t), i < j,
             Protocol(t[i]), Protocol(t[j])
      PROVE  Rank(t[i]) <= Rank(t[j])
  <2>1. /\ t[i] = s[i + 1] /\ i + 1 \in 1 .. Len(s)
        /\ t[j] = s[j + 1] /\ j + 1 \in 1 .. Len(s) /\ i + 1 < j + 1
    BY <1>2, <1>6
  <2> QED
    BY <1>4, <1>6, <2>1
<1>7. Active(q)' => \A i \in 1 .. Len(t) : Protocol(t[i]) => Rank(t[i]) <= Ceiling(q)'
  BY <1>2, <1>4
<1> QED
  BY <1>5, <1>6, <1>7 DEF t

(* The inbox the reader sends to is not touched.                           *)
LEMMA ReaderSends ==
  ASSUME IInv, NEW p \in Peer, NEW q, q = Other(p), inbox'[q] = inbox[q],
         Active(q)' => Active(q) /\ Floor(q)' = Floor(q),
         Active(p)' => /\ Active(p) /\ Ceiling(p) <= Ceiling(p)'
                       /\ Ceiling(p) \in Int /\ Ceiling(p)' \in Int
  PROVE  LET s == inbox'[q] IN
         /\ Active(q)' => \A i \in 1 .. Len(s) : Protocol(s[i]) => Rank(s[i]) >= Floor(q)'
         /\ Active(p)' => \A i \in 1 .. Len(s) : Protocol(s[i]) => Rank(s[i]) <= Ceiling(p)'
         /\ Active(q)' => \A i, j \in 1 .. Len(s) :
              i < j /\ Protocol(s[i]) /\ Protocol(s[j]) => Rank(s[i]) <= Rank(s[j])
<1> DEFINE s == inbox[q]
<1>1. q \in Peer
  BY OtherFacts
<1>2. \A i \in 1 .. Len(s) : Rank(s[i]) \in Int
  <2>1. \A i \in 1 .. Len(s) : s[i].turn \in Nat
    BY <1>1, InboxEntry DEF IInv
  <2> QED
    BY <2>1 DEF Rank
<1>3. /\ Active(q) => \A i \in 1 .. Len(s) : Protocol(s[i]) => Rank(s[i]) >= Floor(q)
      /\ Active(p) => \A i \in 1 .. Len(s) : Protocol(s[i]) => Rank(s[i]) <= Ceiling(p)
      /\ Active(q) => \A i, j \in 1 .. Len(s) :
           i < j /\ Protocol(s[i]) /\ Protocol(s[j]) => Rank(s[i]) <= Rank(s[j])
  BY DEF IInv, Ordered
<1> HIDE DEF s
<1>4. Active(p)' => \A i \in 1 .. Len(s) : Protocol(s[i]) => Rank(s[i]) <= Ceiling(p)'
  BY <1>2, <1>3
<1> QED
  BY <1>3, <1>4 DEF s

(* Reading an envelope without resolving a turn or sealing an action.      *)
Reads(p, x) ==
  /\ inbox[p] # <<>> /\ Take(p)
  /\ pc[p] \in Waiting /\ x \in PC
  /\ \/ x = pc[p]
     \/ p = "police" /\ pc[p] = "wait_ack_commit" /\ x \in {"send_ack", "send_reveal"}
     \/ p = "thief" /\ pc[p] = "wait_ack" /\ x = "send_reveal"
  /\ pc' = [pc EXCEPT ![p] = x]
  /\ UNCHANGED <<ledger, hist, pending, claim>>
  /\ \A q \in Peer : log[q] \subseteq log'[q]
  /\ \A q \in Peer : q # p => oppCommit'[q] = oppCommit[q] /\ ackd'[q] = ackd[q]
  /\ p = "thief" /\ x # "wait_reveal" => ~ackd'[p]

LEMMA ReadState ==
  ASSUME IInv, TypeOK', NEW p \in Peer, NEW x \in PC, Reads(p, x)
  PROVE  /\ LedgerShape' /\ Counting' /\ Standing' /\ Binding'
         /\ StillLegal' /\ StillOpen' /\ NoFalseRejection'
<1>0. \A q \in Peer : /\ N(q)' = N(q) /\ L(q)' = L(q)
                      /\ N(q) \in Nat /\ L(q) \in Nat
                      /\ pc'[q] = IF q = p THEN x ELSE pc[q]
  BY Lengths DEF Reads, IInv, TypeOK, N, L
<1>1. LedgerShape'
  BY DEF Reads, IInv, LedgerShape, L
<1>2. Counting'
  <2>1. Together' => Together
    BY <1>0 DEF Reads, Together, Peer
  <2> QED
    BY <1>0, <2>1 DEF IInv, Counting, Peer
<1>3. Standing'
  <2>1. \A q \in Peer : /\ Playing(q)' = Playing(q) /\ Active(q)' = Active(q)
                        /\ TurnOf(q)' = TurnOf(q) /\ pending'[q] = pending[q]
    BY <1>0 DEF Reads, Waiting, Playing, Active, Ended, TurnOf, Behind, Peer
  <2>2. /\ pc'["police"] \notin {"wait_commit", "wait_ack"}
        /\ pc'["thief"] \notin {"decide", "wait_ack_commit", "declare"}
    BY <1>0 DEF Reads, IInv, Standing, Peer
  <2>3. \A q \in Peer :
          /\ Playing(q)' =>
               /\ L(q)' = TurnOf(q)' + 1 /\ pending'[q].turn = TurnOf(q)'
               /\ TurnOf(q)' >= 0
               /\ pending'[q].act = ledger'[q][L(q)'].act
          /\ Active(q)' /\ ~Playing(q)' => L(q)' = N(q)'
    BY <1>0, <2>1 DEF Reads, IInv, Standing
  <2>4. pc'["police"] = "send_commit" => oppCommit'["police"] = NoSeal /\ ~ackd'["police"]
    BY <1>0 DEF Reads, Waiting, IInv, Standing, Peer
  <2>5. Active("thief")' /\ pc'["thief"] # "wait_reveal" => ~ackd'["thief"]
    BY <1>0, <2>1 DEF Reads, IInv, Standing, Peer
  <2> QED
    BY <2>2, <2>3, <2>4, <2>5 DEF Standing
<1>4. Binding'
  BY DEF Reads, IInv, Binding, N
<1>5. StillLegal'
  BY DEF Reads, IInv, StillLegal, N, L
<1>6. StillOpen'
  BY <1>0 DEF Reads, Waiting, IInv, StillOpen, Active, Ended, Behind, Peer
<1>7. NoFalseRejection'
  BY DEF Reads, IInv, NoFalseRejection
<1> QED
  BY <1>1, <1>2, <1>3, <1>4, <1>5, <1>6, <1>7

(* A reader that now holds the opponent's h_commit has just read it.       *)
LEMMA ReadOrder ==
  ASSUME IInv, TypeOK', NEW p \in Peer, NEW x \in PC, Reads(p, x),
         NEW m, m = Head(inbox[p]),
         Fresh(p)' => Fresh(p) \/ (Protocol(m) /\ Rank(m) >= 3 * N(p))
  PROVE  Flight' /\ Ordered' /\ Grows
<1>0. \A q \in Peer : /\ N(q)' = N(q) /\ N(q) \in Nat
                      /\ pc'[q] = IF q = p THEN x ELSE pc[q]
  BY Lengths DEF Reads, IInv, TypeOK, N
<1>1. Grows
  BY DEF Reads, Grows, L
<1>2. Advances
  BY <1>0 DEF Reads, Advances, Revealed, Ended, Peer
<1>3. Flight'
  BY <1>1, <1>2, TakeEntries, FlightKept DEF Reads
<1>4. PICK q \in Peer : q = Other(p) /\ q # p /\ Other(q) = p
  BY OtherFacts
<1>5. Active(q)' => Active(q) /\ Floor(q)' = Floor(q) /\ Ceiling(q)' = Ceiling(q)
  BY <1>0, <1>4 DEF Reads, Active, Floor, Fresh, HoldsOther, Ceiling, TurnOf
<1>6. Active(p) /\ Active(p)'
  BY <1>0 DEF Reads, Waiting, Active, Ended
<1>7. Ceiling(p) <= Ceiling(p)' /\ Ceiling(p) \in Int /\ Ceiling(p)' \in Int
  <2>1. TurnOf(p)' = TurnOf(p) /\ TurnOf(p) \in Int
    BY <1>0 DEF Reads, TurnOf, Behind
  <2> QED
    BY <1>0, <2>1 DEF Reads, Waiting, Ceiling
<1>8. /\ Floor(p) \in Int /\ Floor(p)' \in Int
      /\ Floor(p)' <= Floor(p) \/ (Protocol(m) /\ Floor(p)' <= Rank(m))
  BY <1>0 DEF Floor
<1>9. inbox[p] # <<>> /\ Take(p)
  BY DEF Reads
<1>10. inbox'[q] = inbox[q]
  BY <1>4, <1>9, TakeEntries
<1>11. Ordered'
  <2> SUFFICES ASSUME NEW o \in Peer, NEW u, u = inbox'[Other(o)]
               PROVE  /\ Active(Other(o))' => \A i \in 1 .. Len(u) :
                           Protocol(u[i]) => Rank(u[i]) >= Floor(Other(o))'
                      /\ Active(o)' => \A i \in 1 .. Len(u) :
                           Protocol(u[i]) => Rank(u[i]) <= Ceiling(o)'
                      /\ Active(Other(o))' => \A i, j \in 1 .. Len(u) :
                           i < j /\ Protocol(u[i]) /\ Protocol(u[j])
                             => Rank(u[i]) <= Rank(u[j])
    BY DEF Ordered
  <2>1. CASE o = p
    BY <1>4, <1>5, <1>6, <1>7, <1>10, <2>1, ReaderSends
  <2>2. CASE o = q
    BY <1>4, <1>5, <1>6, <1>8, <1>9, <2>2, TakeSorted
  <2> QED
    BY <1>4, <2>1, <2>2 DEF Other, Peer
<1> QED
  BY <1>1, <1>3, <1>11

(* An envelope the leg does not want changes nothing.                      *)
LEMMA DropInv ==
  ASSUME IInv, TypeOK', NEW p \in Peer, inbox[p] # <<>>,
         DropJitter(p, Head(inbox[p]))
  PROVE  IInv'
<1>1. pc[p] \in PC /\ pc \in [Peer -> PC]
  BY DEF IInv, TypeOK
<1>2. pc' = [pc EXCEPT ![p] = pc[p]]
  BY <1>1 DEF DropJitter
<1>3. p = "thief" /\ pc[p] # "wait_reveal" => ~ackd[p]
  BY DEF DropJitter, IInv, Standing, Active, Ended, Waiting
<1>4. Reads(p, pc[p])
  BY <1>1, <1>2, <1>3 DEF DropJitter, Reads
<1>5. Fresh(p)' = Fresh(p)
  BY DEF DropJitter, Fresh, HoldsOther
<1>6. Flight' /\ Ordered'
  BY <1>1, <1>4, <1>5, ReadOrder
<1>7. Holding'
  BY DEF DropJitter, IInv, Holding, Held, HoldsOther, IsAcked, TurnOf, N
<1>8. Evidence'
  BY DEF DropJitter, IInv, Evidence, L
<1> QED
  BY <1>1, <1>4, <1>6, <1>7, <1>8, ReadState DEF IInv

LEMMA AcceptAckInv ==
  ASSUME IInv, TypeOK', inbox["police"] # <<>>, AcceptAck(Head(inbox["police"]))
  PROVE  IInv'
<1> DEFINE p == "police"  m == Head(inbox[p])
           x == IF oppCommit[p] # NoSeal THEN "send_reveal" ELSE pc[p]
<1>0. p \in Peer /\ Other(p) = "thief" /\ "thief" \in Peer /\ Other("thief") = p
  BY DEF Peer, Other
<1>1. x \in PC /\ pc[p] = "wait_ack_commit" /\ pc' = [pc EXCEPT ![p] = x]
  BY DEF AcceptAck, PC, Sending, Waiting
<1>2. TypeOK /\ pc'[p] = x /\ pc'["thief"] = pc["thief"]
  BY <1>0, <1>1 DEF IInv, TypeOK
<1>3. Reads(p, x)
  BY <1>0, <1>1, <1>2 DEF AcceptAck, Reads, TypeOK, Waiting
<1>4. Fresh(p)' => Fresh(p)
  BY <1>1, <1>2 DEF AcceptAck, Fresh, HoldsOther
<1>5. Flight' /\ Ordered' /\ Grows
  BY <1>0, <1>1, <1>3, <1>4, ReadOrder
<1>6. N(p) \in Nat /\ TurnOf(p) = N(p) /\ TurnOf(p)' = N(p) /\ TurnOf("thief")' = TurnOf("thief")
  BY <1>0, <1>2, Lengths DEF AcceptAck, TurnOf, N
<1>7. Held("thief", N(p))
  <2>1. Playing(p)
    BY <1>1 DEF Playing, Active, Ended
  <2>2. m = inbox[p][1] /\ 1 \in 1 .. Len(inbox[p])
    BY <1>0, <1>3, TakeEntries DEF IInv, Reads
  <2> QED
    BY <1>0, <1>6, <2>1, <2>2, MatchingAck DEF AcceptAck
<1>8. Holding'
  <2> SUFFICES ASSUME NEW q \in Peer, NEW n, n = TurnOf(q)'
               PROVE  /\ HoldsOther(q)' =>
                           Held(q, n)' /\ oppCommit'[q] = ledger'[Other(q)][n + 1]
                      /\ IsAcked(q)' => Held(Other(q), n)'
    BY DEF Holding
  <2>1. \A o \in Peer : Held(o, n)' <=> Held(o, n)
    BY DEF AcceptAck, Held
  <2>2. n = TurnOf(q)
    BY <1>6 DEF Peer
  <2>3. HoldsOther(q)' => HoldsOther(q)
    BY <1>1, <1>2 DEF AcceptAck, HoldsOther, Peer
  <2>4. IsAcked(q)' => IsAcked(q) \/ q = p
    BY <1>0, <1>1, <1>2 DEF AcceptAck, IsAcked, IInv, TypeOK, Peer
  <2> QED
    BY <1>0, <1>6, <1>7, <2>1, <2>2, <2>3, <2>4, OtherFacts DEF AcceptAck, IInv, Holding
<1>9. Evidence'
  BY DEF AcceptAck, IInv, Evidence, L
<1> QED
  BY <1>0, <1>1, <1>3, <1>5, <1>8, <1>9, ReadState DEF IInv

LEMMA CaptureEarlyAckInv ==
  ASSUME IInv, TypeOK', inbox["thief"] # <<>>, CaptureEarlyAck(Head(inbox["thief"]))
  PROVE  IInv'
<1> DEFINE p == "thief"  m == Head(inbox[p])
<1>0. p \in Peer /\ Other(p) = "police" /\ "police" \in Peer /\ Other("police") = p
  BY DEF Peer, Other
<1>1. pc[p] \in PC /\ pc[p] = "wait_reveal" /\ pc' = pc /\ pc' = [pc EXCEPT ![p] = pc[p]]
  BY <1>0 DEF CaptureEarlyAck, IInv, TypeOK
<1>2. Reads(p, pc[p])
  BY <1>0, <1>1 DEF CaptureEarlyAck, Reads, IInv, TypeOK, Waiting
<1>3. Fresh(p)' => Fresh(p)
  BY <1>1 DEF CaptureEarlyAck, Fresh, HoldsOther
<1>4. Flight' /\ Ordered' /\ Grows
  BY <1>0, <1>1, <1>2, <1>3, ReadOrder
<1>5. /\ N(p) \in Nat /\ TurnOf(p) = N(p)
      /\ \A q \in Peer : TurnOf(q)' = TurnOf(q)
  BY <1>0, <1>1, Lengths DEF CaptureEarlyAck, TurnOf, N, Behind, IInv
<1>6. Held("police", N(p))
  <2>1. Playing(p)
    BY <1>1 DEF Playing, Active, Ended
  <2>2. m = inbox[p][1] /\ 1 \in 1 .. Len(inbox[p])
    BY <1>0, <1>2, TakeEntries DEF IInv, Reads
  <2> QED
    BY <1>0, <1>5, <2>1, <2>2, MatchingAck DEF CaptureEarlyAck
<1>7. Holding'
  <2> SUFFICES ASSUME NEW q \in Peer, NEW n, n = TurnOf(q)'
               PROVE  /\ HoldsOther(q)' =>
                           Held(q, n)' /\ oppCommit'[q] = ledger'[Other(q)][n + 1]
                      /\ IsAcked(q)' => Held(Other(q), n)'
    BY DEF Holding
  <2>1. \A o \in Peer : Held(o, n)' <=> Held(o, n)
    BY DEF CaptureEarlyAck, Held
  <2>2. n = TurnOf(q) /\ (HoldsOther(q)' => HoldsOther(q))
    BY <1>1, <1>5 DEF CaptureEarlyAck, HoldsOther
  <2>3. IsAcked(q)' => IsAcked(q) \/ q = p
    BY <1>0, <1>1 DEF CaptureEarlyAck, IsAcked, IInv, TypeOK, Peer
  <2> QED
    BY <1>0, <1>5, <1>6, <2>1, <2>2, <2>3, OtherFacts DEF CaptureEarlyAck, IInv, Holding
<1>8. Evidence'
  BY DEF CaptureEarlyAck, IInv, Evidence, L
<1> QED
  BY <1>0, <1>1, <1>2, <1>4, <1>7, <1>8, ReadState DEF IInv

LEMMA TakeMatchingAckInv ==
  ASSUME IInv, TypeOK', inbox["thief"] # <<>>, TakeMatchingAck(Head(inbox["thief"]))
  PROVE  IInv'
<1> DEFINE p == "thief"  m == Head(inbox[p])  x == "send_reveal"
<1>0. p \in Peer /\ Other(p) = "police" /\ "police" \in Peer /\ Other("police") = p
  BY DEF Peer, Other
<1>1. x \in PC /\ pc[p] = "wait_ack" /\ pc' = [pc EXCEPT ![p] = x]
  BY DEF TakeMatchingAck, PC, Sending
<1>2. TypeOK /\ pc'[p] = x /\ pc'["police"] = pc["police"]
  BY <1>0, <1>1 DEF IInv, TypeOK
<1>3. Reads(p, x)
  BY <1>0, <1>1, <1>2 DEF TakeMatchingAck, Reads, TypeOK, Waiting
<1>4. Fresh(p)' => Fresh(p)
  BY <1>1, <1>2 DEF Fresh
<1>5. Flight' /\ Ordered' /\ Grows
  BY <1>0, <1>1, <1>3, <1>4, ReadOrder
<1>6. /\ TurnOf(p) \in Nat
      /\ \A q \in Peer : TurnOf(q)' = TurnOf(q)
  <2>1. Playing(p)
    BY <1>1 DEF Playing, Active, Ended
  <2>2. TurnOf(p) >= 0 /\ TurnOf(p) \in Int
    BY <1>0, <2>1, Lengths DEF IInv, Standing, TurnOf
  <2> QED
    BY <1>1, <1>2, <2>2 DEF TakeMatchingAck, TurnOf, N, Behind, Peer
<1>7. Held("police", TurnOf(p))
  <2>1. Playing(p)
    BY <1>1 DEF Playing, Active, Ended
  <2>2. m = inbox[p][1] /\ 1 \in 1 .. Len(inbox[p])
    BY <1>0, <1>3, TakeEntries DEF IInv, Reads
  <2> QED
    BY <1>0, <2>1, <2>2, MatchingAck DEF TakeMatchingAck
<1>8. Holding'
  <2> SUFFICES ASSUME NEW q \in Peer, NEW n, n = TurnOf(q)'
               PROVE  /\ HoldsOther(q)' =>
                           Held(q, n)' /\ oppCommit'[q] = ledger'[Other(q)][n + 1]
                      /\ IsAcked(q)' => Held(Other(q), n)'
    BY DEF Holding
  <2>1. \A o \in Peer : Held(o, n)' <=> Held(o, n)
    BY DEF TakeMatchingAck, Held
  <2>2. n = TurnOf(q) /\ (HoldsOther(q)' => HoldsOther(q))
    BY <1>1, <1>2, <1>6 DEF TakeMatchingAck, HoldsOther, Peer
  <2>3. IsAcked(q)' => IsAcked(q) \/ q = p
    BY <1>0, <1>1, <1>2 DEF TakeMatchingAck, IsAcked, IInv, TypeOK, Peer
  <2> QED
    BY <1>0, <1>7, <2>1, <2>2, <2>3, OtherFacts DEF TakeMatchingAck, IInv, Holding
<1>9. Evidence'
  BY DEF TakeMatchingAck, IInv, Evidence, L
<1> QED
  BY <1>0, <1>1, <1>3, <1>5, <1>8, <1>9, ReadState DEF IInv

-----------------------------------------------------------------------------
(* Reading a COMMIT or a REVEAL: it is of the turn the reader is in.       *)

LEMMA CommitOfThisTurn ==
  ASSUME IInv, NEW p \in Peer, Active(p), ~Fresh(p), inbox[p] # <<>>,
         NEW m, m = Head(inbox[p]), m.type = "commit"
  PROVE  /\ m \in Messages /\ m.turn = N(p) /\ N(p) \in Nat /\ N(p) < L(Other(p))
         /\ m.seal = ledger[Other(p)][N(p) + 1]
         /\ m = Msg("commit", N(p), ledger[Other(p)][N(p) + 1], NoAct)
         /\ Protocol(m) /\ Rank(m) = 3 * N(p)
<1>0. N(p) \in Nat
  BY Lengths DEF IInv
<1>1. m = inbox[p][1] /\ 1 \in 1 .. Len(inbox[p])
  <2>1. inbox[p] \in Seq(Messages)
    BY Lengths DEF IInv
  <2> QED
    BY <2>1, TailFacts
<1>2. m \in Messages /\ m.turn \in Nat /\ Lasting(Other(p), m)
  BY <1>1, InFlight
<1>3. Protocol(m)
  BY DEF Protocol
<1>4. m.turn <= N(p)
  BY <1>2, <1>3, OtherFacts DEF Lasting
<1>5. Rank(m) >= Floor(p)
  <2>1. PICK q \in Peer : Other(q) = p
    BY OtherFacts
  <2> QED
    BY <1>1, <1>3, <2>1 DEF IInv, Ordered
<1>6. Rank(m) = 3 * m.turn /\ Floor(p) = 3 * N(p) - 1
  BY <1>2 DEF Rank, Floor
<1>7. m.turn = N(p)
  BY <1>0, <1>2, <1>4, <1>5, <1>6
<1>8. /\ m.turn < L(Other(p))
      /\ m = Msg("commit", m.turn, ledger[Other(p)][m.turn + 1], NoAct)
  BY <1>2 DEF Lasting
<1>9. m.seal = ledger[Other(p)][m.turn + 1]
  BY <1>8 DEF Msg
<1> QED
  BY <1>0, <1>2, <1>3, <1>6, <1>7, <1>8, <1>9

(* A REVEAL comes while the other side of the turn is known to the reader, *)
(* and nothing a turn newer can be behind it.                              *)
LEMMA RevealOfThisTurn ==
  ASSUME IInv, NEW p \in Peer, pc[p] = "wait_reveal", inbox[p] # <<>>,
         NEW m, m = Head(inbox[p]), m.type = "reveal"
  PROVE  /\ m \in Messages /\ m.turn = N(p) /\ N(p) \in Nat /\ N(p) < L(Other(p))
         /\ m.act = ledger[Other(p)][N(p) + 1].act
         /\ Lasting(Other(p), m)
         /\ \A i \in 1 .. Len(inbox[p]) :
              Protocol(inbox[p][i]) => Rank(inbox[p][i]) = 3 * N(p) + 2
<1> DEFINE s == inbox[p]
<1>0. N(p) \in Nat /\ Active(p) /\ Fresh(p)
  BY Lengths DEF IInv, Active, Ended, Fresh, HoldsOther, Peer
<1>1. m = s[1] /\ 1 \in 1 .. Len(s) /\ Len(s) \in Nat
  <2>1. s \in Seq(Messages)
    BY Lengths DEF IInv
  <2> QED
    BY <2>1, TailFacts
<1>2. \A i \in 1 .. Len(s) :
        s[i] \in Messages /\ s[i].turn \in Nat /\ Lasting(Other(p), s[i])
  BY InFlight
<1>3. PICK q \in Peer : q = Other(p) /\ Other(q) = p
  BY OtherFacts
<1>4. \A i \in 1 .. Len(s) : Protocol(s[i]) =>
        /\ s[i].turn <= N(p) /\ Rank(s[i]) >= 3 * N(p)
        /\ Rank(s[1]) <= Rank(s[i])
  <2>1. Protocol(s[1])
    BY <1>1 DEF Protocol
  <2>2. Floor(p) = 3 * N(p)
    BY <1>0 DEF Floor
  <2>3. \A i \in 1 .. Len(s) : Protocol(s[i]) => s[i].turn <= N(p)
    BY <1>2, <1>3 DEF Lasting
  <2>4. \A i \in 1 .. Len(s) : Protocol(s[i]) => Rank(s[i]) >= 3 * N(p)
    BY <1>0, <1>3, <2>2 DEF IInv, Ordered
  <2>5. \A i \in 1 .. Len(s) : i = 1 \/ 1 < i
    BY <1>1
  <2>6. \A i \in 1 .. Len(s) : 1 < i /\ Protocol(s[i]) => Rank(s[1]) <= Rank(s[i])
    BY <1>0, <1>1, <1>3, <2>1 DEF IInv, Ordered
  <2>7. Rank(s[1]) \in Int
    BY <1>1, <1>2, RankType
  <2> QED
    BY <2>3, <2>4, <2>5, <2>6, <2>7
<1>5. m.turn = N(p) /\ Rank(s[1]) = 3 * N(p) + 2
  <2>1. Protocol(s[1]) /\ s[1].turn \in Nat /\ Rank(s[1]) = 3 * s[1].turn + 2
    BY <1>1, <1>2 DEF Protocol, Rank
  <2> QED
    BY <1>0, <1>1, <1>4, <2>1
<1>6. ASSUME NEW i \in 1 .. Len(s), Protocol(s[i])
      PROVE  Rank(s[i]) = 3 * N(p) + 2
  <2>1. s[i].turn \in Nat /\ s[i].turn <= N(p) /\ 3 * N(p) + 2 <= Rank(s[i])
    BY <1>2, <1>4, <1>5, <1>6
  <2> QED
    BY <1>0, <2>1 DEF Rank
<1>7. m.turn < L(q) /\ m.act = ledger[q][m.turn + 1].act
  BY <1>1, <1>2, <1>3 DEF Lasting
<1> QED
  BY <1>0, <1>1, <1>2, <1>3, <1>5, <1>6, <1>7

(* New records that agree with the opponent's ledger keep the evidence.    *)
Fits(p, r) ==
  /\ r.turn < L(Other(p))
  /\ r.msg.type \in {"commit", "reveal"}
  /\ r.msg.type = "commit" => r.msg.seal = ledger[Other(p)][r.turn + 1]
  /\ r.msg.type = "reveal" => r.msg.act = ledger[Other(p)][r.turn + 1].act

LEMMA EvidenceKept ==
  ASSUME IInv, TypeOK', Grows,
         \A p \in Peer : \A r \in log'[p] : r \in log[p] \/ r.dir = "sent" \/ Fits(p, r)
  PROVE  Evidence'
<1> SUFFICES ASSUME NEW p \in Peer, NEW r \in log'[p],
                    r.dir = "received", r.msg.type # "game_over"
             PROVE  Fits(p, r)'
  BY DEF Evidence, Fits, L
<1>1. Fits(p, r)
  BY DEF IInv, Evidence, Fits, L
<1>2. r.turn \in Nat
  <2>1. r \in Records
    BY DEF TypeOK
  <2> QED
    BY <2>1 DEF Records
<1>3. PICK q \in Peer : q = Other(p)
  BY OtherFacts
<1>4. L(q) \in Nat /\ L(q)' \in Nat
  <2>1. ledger[q] \in Seq(Seals) /\ ledger'[q] \in Seq(Seals)
    BY DEF IInv, TypeOK
  <2> QED
    BY <2>1, LenProperties DEF L
<1>5. r.turn + 1 \in 1 .. L(q) /\ L(q) <= L(q)'
  BY <1>1, <1>2, <1>3, <1>4 DEF Fits, Grows
<1>6. ledger'[q][r.turn + 1] = ledger[q][r.turn + 1] /\ r.turn < L(q)'
  BY <1>2, <1>4, <1>5 DEF Grows
<1> QED
  BY <1>1, <1>3, <1>6 DEF Fits

LEMMA ReceivedFits ==
  ASSUME IInv, NEW p \in Peer, NEW m, Received(p, m),
         m.type \in {"commit", "reveal"}, N(p) < L(Other(p)),
         m.type = "commit" => m.seal = ledger[Other(p)][N(p) + 1],
         m.type = "reveal" => m.act = ledger[Other(p)][N(p) + 1].act
  PROVE  /\ \A q \in Peer : log[q] \subseteq log'[q]
         /\ Record("received", N(p), m) \in log'[p]
         /\ \A q \in Peer : \A r \in log'[q] : r \in log[q] \/ r.dir = "sent" \/ Fits(q, r)
<1> DEFINE e == Record("received", N(p), m)
<1>1. \A q \in Peer : log'[q] = IF q = p THEN log[q] \cup {e} ELSE log[q]
  BY DEF Received, N, IInv, TypeOK
<1>2. Fits(p, e)
  <2>1. e.turn = N(p) /\ e.msg = m
    BY DEF Record
  <2> HIDE DEF e
  <2> QED
    BY <2>1 DEF Fits
<1> QED
  BY <1>1, <1>2

LEMMA AcceptCommitInv ==
  ASSUME IInv, TypeOK', inbox["police"] # <<>>, AcceptCommit(Head(inbox["police"]))
  PROVE  IInv'
<1> DEFINE p == "police"  m == Head(inbox[p])  x == "send_ack"
<1>0. p \in Peer /\ Other(p) = "thief" /\ "thief" \in Peer /\ Other("thief") = p
  BY DEF Peer, Other
<1>1. x \in PC /\ pc[p] = "wait_ack_commit" /\ pc' = [pc EXCEPT ![p] = x]
  BY DEF AcceptCommit, PC, Sending
<1>2. /\ TypeOK /\ pc'[p] = x /\ pc'["thief"] = pc["thief"]
      /\ oppCommit'[p] = m.seal /\ oppCommit'["thief"] = oppCommit["thief"]
  BY <1>0, <1>1 DEF IInv, TypeOK, AcceptCommit
<1>3. Active(p) /\ ~Fresh(p)
  BY <1>1 DEF AcceptCommit, Active, Ended, Fresh, HoldsOther
<1>4. /\ m.turn = N(p) /\ N(p) \in Nat /\ N(p) < L("thief")
      /\ m.seal = ledger["thief"][N(p) + 1]
      /\ m = Msg("commit", N(p), ledger["thief"][N(p) + 1], NoAct)
      /\ Protocol(m) /\ Rank(m) = 3 * N(p)
  BY <1>0, <1>3, CommitOfThisTurn DEF AcceptCommit
<1>5. /\ \A q \in Peer : log[q] \subseteq log'[q]
      /\ Record("received", N(p), m) \in log'[p]
      /\ \A q \in Peer : \A r \in log'[q] : r \in log[q] \/ r.dir = "sent" \/ Fits(q, r)
  BY <1>0, <1>4, ReceivedFits DEF AcceptCommit
<1>6. Reads(p, x)
  BY <1>0, <1>1, <1>2, <1>5 DEF AcceptCommit, Reads, TypeOK, Waiting
<1>7. Flight' /\ Ordered' /\ Grows
  BY <1>0, <1>1, <1>4, <1>6, ReadOrder
<1>8. /\ TurnOf(p)' = N(p) /\ TurnOf("thief")' = TurnOf("thief") /\ TurnOf(p) = N(p)
  BY <1>0, <1>2 DEF AcceptCommit, TurnOf, N
<1>9. Holding'
  <2> SUFFICES ASSUME NEW q \in Peer, NEW n, n = TurnOf(q)'
               PROVE  /\ HoldsOther(q)' =>
                           Held(q, n)' /\ oppCommit'[q] = ledger'[Other(q)][n + 1]
                      /\ IsAcked(q)' => Held(Other(q), n)'
    BY DEF Holding
  <2>1. \A o \in Peer : Held(o, n) => Held(o, n)'
    BY <1>5 DEF AcceptCommit, Held
  <2>2. n = TurnOf(q)
    BY <1>8 DEF Peer
  <2>3. IsAcked(q)' => IsAcked(q)
    BY <1>1, <1>2 DEF AcceptCommit, IsAcked, Peer
  <2>4. CASE q = p
    <3>1. Held(p, n)'
      BY <1>0, <1>4, <1>5, <1>8, <2>4 DEF AcceptCommit, Held, L
    <3> QED
      BY <1>0, <1>2, <1>4, <1>8, <2>1, <2>2, <2>3, <2>4, <3>1 DEF AcceptCommit, IInv, Holding
  <2>5. CASE q = "thief"
    <3>1. HoldsOther(q)' => HoldsOther(q)
      BY <1>2, <2>5 DEF HoldsOther
    <3> QED
      BY <1>0, <1>2, <2>1, <2>2, <2>3, <2>5, <3>1 DEF AcceptCommit, IInv, Holding
  <2> QED
    BY <2>4, <2>5 DEF Peer
<1>10. Evidence'
  BY <1>5, <1>7, EvidenceKept
<1> QED
  BY <1>0, <1>1, <1>6, <1>7, <1>9, <1>10, ReadState DEF IInv

-----------------------------------------------------------------------------
(* Sealing an action.                                                      *)

(* Equally long histories are equal: both are made of the sealed actions.  *)
LEMMA SameHistory ==
  ASSUME TypeOK, Binding, NEW p \in Peer, NEW q \in Peer, N(p) = N(q)
  PROVE  hist[p] = hist[q]
<1>1. hist[p] \in Seq(JointTurns) /\ hist[q] \in Seq(JointTurns)
  BY Lengths
<1>2. Len(hist[p]) = Len(hist[q])
  BY DEF N
<1>3. \A i \in 1 .. Len(hist[p]) : hist[p][i] = hist[q][i]
  BY <1>2 DEF Binding, N
<1> QED
  BY <1>1, <1>2, <1>3, SeqEqual

Sealing(p, a) ==
  /\ a \in Act /\ CommitOwn(p, a)
  /\ \/ p = "police" /\ pc[p] = "decide"
     \/ p = "thief" /\ pc[p] = "wait_commit"
  /\ UNCHANGED <<hist, claim>>
  /\ \A q \in Peer : q # p => oppCommit'[q] = oppCommit[q] /\ ackd'[q] = ackd[q]
  /\ p = "police" => oppCommit'[p] = NoSeal /\ ~ackd'[p]
  /\ p = "thief" => ackd'[p] = ackd[p]
  /\ \A q \in Peer : log[q] \subseteq log'[q]

LEMMA SealFacts ==
  ASSUME IInv, NEW p \in Peer, NEW a, Sealing(p, a)
  PROVE  /\ \A q \in Peer : /\ N(q) \in Nat /\ L(q) \in Nat /\ N(q)' = N(q)
                            /\ L(q)' = IF q = p THEN L(q) + 1 ELSE L(q)
                            /\ pc'[q] = IF q = p THEN "send_commit" ELSE pc[q]
                            /\ TurnOf(q)' = TurnOf(q)
                            /\ \A i \in 1 .. L(q) : ledger'[q][i] = ledger[q][i]
                            /\ q # p => ledger'[q] = ledger[q] /\ pending'[q] = pending[q]
         /\ L(p) = N(p) /\ TurnOf(p) = N(p)
         /\ ledger'[p][N(p) + 1] = Seal(p, N(p), a)
         /\ pending'[p].turn = N(p) /\ pending'[p].act = a
         /\ Grows /\ Advances
<1>0. \A q \in Peer : /\ N(q) \in Nat /\ L(q) \in Nat
                      /\ ledger[q] \in Seq(Seals)
  BY Lengths DEF IInv
<1>1. \A q \in Peer : /\ N(q)' = N(q)
                      /\ pc'[q] = IF q = p THEN "send_commit" ELSE pc[q]
  BY DEF Sealing, CommitOwn, IInv, TypeOK, N
<1>2. \A q \in Peer : TurnOf(q)' = TurnOf(q)
  BY <1>1 DEF Sealing, TurnOf, Behind
<1>3. Active(p) /\ ~Playing(p) /\ TurnOf(p) = N(p)
  BY DEF Sealing, Active, Playing, Ended, TurnOf, Behind
<1>4. L(p) = N(p)
  BY <1>3 DEF IInv, Standing
<1>5. ledger'[p] = Append(ledger[p], Seal(p, N(p), a))
  BY DEF Sealing, CommitOwn, IInv, TypeOK, N
<1>6. Seal(p, N(p), a) \in Seals
  BY <1>0 DEF Seal, Seals, Sealing
<1>7. /\ L(p)' = L(p) + 1 /\ ledger'[p][L(p) + 1] = Seal(p, N(p), a)
      /\ \A i \in 1 .. L(p) : ledger'[p][i] = ledger[p][i]
  BY <1>0, <1>5, <1>6, AppendFacts DEF L
<1>8. \A q \in Peer : q # p => ledger'[q] = ledger[q] /\ pending'[q] = pending[q]
  BY DEF Sealing, CommitOwn, IInv, TypeOK
<1>9. \A q \in Peer : q # p => L(q)' = L(q)
  BY <1>8 DEF L
<1>10. pending'[p].turn = N(p) /\ pending'[p].act = a
  BY DEF Sealing, CommitOwn, IInv, TypeOK, N
<1>11. Grows
  BY <1>0, <1>7, <1>8, <1>9 DEF Grows, Sealing
<1>12. Advances
  BY <1>0, <1>1 DEF Advances, Sealing, Revealed, Ended, Peer
<1> QED
  BY <1>0, <1>1, <1>2, <1>3, <1>4, <1>7, <1>8, <1>9, <1>10, <1>11, <1>12

LEMMA SealState ==
  ASSUME IInv, TypeOK', NEW p \in Peer, NEW a, Sealing(p, a), N("police") = N("thief")
  PROVE  /\ LedgerShape' /\ Counting' /\ Standing' /\ Binding'
         /\ StillLegal' /\ StillOpen' /\ NoFalseRejection'
<1>0. /\ \A q \in Peer : /\ N(q) \in Nat /\ L(q) \in Nat /\ N(q)' = N(q)
                         /\ L(q)' = IF q = p THEN L(q) + 1 ELSE L(q)
                         /\ pc'[q] = IF q = p THEN "send_commit" ELSE pc[q]
                         /\ TurnOf(q)' = TurnOf(q)
                         /\ \A i \in 1 .. L(q) : ledger'[q][i] = ledger[q][i]
                         /\ q # p => ledger'[q] = ledger[q] /\ pending'[q] = pending[q]
      /\ L(p) = N(p) /\ TurnOf(p) = N(p)
      /\ ledger'[p][N(p) + 1] = Seal(p, N(p), a)
      /\ pending'[p].turn = N(p) /\ pending'[p].act = a
  BY SealFacts
<1>1. /\ \A q \in Peer : N(q) = N(p)
      /\ Seal(p, N(p), a).act = a /\ a \in Act
  BY DEF Seal, Sealing, Peer
<1>2. LedgerShape'
  <2> SUFFICES ASSUME NEW q \in Peer, NEW i \in 1 .. L(q)'
               PROVE  /\ ledger'[q][i].act \in Act
                      /\ ledger'[q][i] = Seal(q, i - 1, ledger'[q][i].act)
    BY DEF LedgerShape
  <2>1. CASE i \in 1 .. L(q)
    BY <1>0, <2>1 DEF IInv, LedgerShape
  <2>2. CASE i \notin 1 .. L(q)
    <3>1. q = p /\ i = N(p) + 1 /\ i - 1 = N(p)
      BY <1>0, <2>2
    <3> QED
      BY <1>0, <1>1, <3>1
  <2> QED
    BY <2>1, <2>2
<1>3. Counting'
  BY <1>0, <1>1 DEF IInv, Counting, Peer
<1>4. Standing'
  <2>1. \A q \in Peer : q # p =>
          Playing(q)' = Playing(q) /\ Active(q)' = Active(q)
    BY <1>0 DEF Playing, Active
  <2>2. Playing(p)' /\ Active(p)
    BY <1>0 DEF Playing, Active, Ended, Sealing
  <2>3. \A q \in Peer :
          /\ Playing(q)' =>
               /\ L(q)' = TurnOf(q)' + 1 /\ pending'[q].turn = TurnOf(q)'
               /\ TurnOf(q)' >= 0
               /\ pending'[q].act = ledger'[q][L(q)'].act
          /\ Active(q)' /\ ~Playing(q)' => L(q)' = N(q)'
    BY <1>0, <1>1, <2>1, <2>2 DEF IInv, Standing
  <2>4. /\ pc'["police"] \notin {"wait_commit", "wait_ack"}
        /\ pc'["thief"] \notin {"decide", "wait_ack_commit", "declare"}
    BY <1>0 DEF IInv, Standing, Peer
  <2>5. pc'["police"] = "send_commit" => oppCommit'["police"] = NoSeal /\ ~ackd'["police"]
    BY <1>0 DEF Sealing, IInv, Standing, Peer
  <2>6. Active("thief")' /\ pc'["thief"] # "wait_reveal" => ~ackd'["thief"]
    BY <1>0, <2>1, <2>2 DEF Sealing, IInv, Standing, Peer
  <2> QED
    BY <2>3, <2>4, <2>5, <2>6 DEF Standing
<1>5. Binding'
  <2>1. \A q \in Peer : N(q) <= L(q) /\ N("thief") <= L(q) /\ N("police") <= L(q)
    BY <1>0, <1>1 DEF IInv, Counting, Peer
  <2>2. \A q \in Peer : \A i \in 1 .. N(q) :
          /\ ledger'["police"][i] = ledger["police"][i]
          /\ ledger'["thief"][i] = ledger["thief"][i]
    BY <1>0, <1>1, <2>1 DEF Peer
  <2> QED
    BY <1>0, <2>2 DEF IInv, Binding, Sealing
<1>6. StillLegal'
  <2> SUFFICES ASSUME NEW o \in Peer, NEW q \in Peer, N(q)' < L(o)'
               PROVE  Legal(hist'[q], o, ledger'[o][N(q)' + 1].act)
    BY DEF StillLegal
  <2>1. hist' = hist /\ N(q)' = N(q)
    BY <1>0 DEF Sealing
  <2>2. CASE N(q) < L(o)
    <3>1. ledger'[o][N(q) + 1] = ledger[o][N(q) + 1]
      BY <1>0, <2>2
    <3>2. Legal(hist[q], o, ledger[o][N(q) + 1].act)
      BY <2>2 DEF IInv, StillLegal
    <3> QED
      BY <2>1, <3>1, <3>2
  <2>3. CASE ~(N(q) < L(o))
    <3>1. o = p /\ N(q) = N(p)
      BY <1>0, <1>1, <2>1, <2>3
    <3>2. hist[q] = hist[p]
      BY <3>1, SameHistory DEF IInv
    <3>3. Legal(hist[p], p, a)
      BY DEF Sealing, CommitOwn
    <3> QED
      BY <1>0, <1>1, <2>1, <3>1, <3>2, <3>3
  <2> QED
    BY <2>2, <2>3
<1>7. StillOpen'
  BY <1>0 DEF Sealing, IInv, StillOpen, Active, Ended, Behind
<1>8. NoFalseRejection'
  BY DEF Sealing, IInv, NoFalseRejection
<1> QED
  BY <1>2, <1>3, <1>4, <1>5, <1>6, <1>7, <1>8

(* What the peer that does not seal holds, it goes on holding.             *)
LEMMA SealHolding ==
  ASSUME IInv, TypeOK', NEW p \in Peer, NEW a, Sealing(p, a),
         NEW k, k = N(p),
         HoldsOther(p)' => Held(p, k)' /\ oppCommit'[p] = ledger[Other(p)][k + 1]
  PROVE  Holding'
<1>0. /\ \A q \in Peer : /\ N(q) \in Nat /\ L(q) \in Nat
                         /\ pc'[q] = IF q = p THEN "send_commit" ELSE pc[q]
                         /\ TurnOf(q)' = TurnOf(q)
                         /\ \A i \in 1 .. L(q) : ledger'[q][i] = ledger[q][i]
                         /\ q # p => ledger'[q] = ledger[q]
      /\ TurnOf(p) = N(p) /\ Grows
  BY SealFacts
<1> SUFFICES ASSUME NEW q \in Peer, NEW n, n = TurnOf(q)'
             PROVE  /\ HoldsOther(q)' =>
                         Held(q, n)' /\ oppCommit'[q] = ledger'[Other(q)][n + 1]
                    /\ IsAcked(q)' => Held(Other(q), n)'
  BY DEF Holding
<1>1. n = TurnOf(q)
  BY <1>0
<1>2. PICK o \in Peer : o = Other(q) /\ o # q
  BY OtherFacts
<1>3. CASE q = p
  <2>1. ~IsAcked(q)'
    BY <1>0, <1>3 DEF IsAcked
  <2>2. n = k /\ ledger'[o] = ledger[o]
    BY <1>0, <1>1, <1>2, <1>3
  <2> QED
    BY <1>2, <1>3, <2>1, <2>2
<1>4. CASE q # p
  <2>1. HoldsOther(q)' = HoldsOther(q) /\ IsAcked(q)' = IsAcked(q) /\ oppCommit'[q] = oppCommit[q]
    BY <1>0, <1>4 DEF Sealing, HoldsOther, IsAcked
  <2>2. HoldsOther(q) \/ IsAcked(q) => n \in Nat
    <3>1. HoldsOther(q) \/ IsAcked(q) => Playing(q)
      BY DEF HoldsOther, IsAcked, Playing, Active, Ended
    <3> QED
      BY <1>0, <1>1, <3>1 DEF IInv, Standing, TurnOf
  <2>3. HoldsOther(q) => Held(q, n) /\ oppCommit[q] = ledger[o][n + 1]
    BY <1>1, <1>2 DEF IInv, Holding
  <2>4. IsAcked(q) => Held(o, n)
    BY <1>1, <1>2 DEF IInv, Holding
  <2>5. HoldsOther(q) => n < L(o)
    BY <1>2, <2>3 DEF Held, L
  <2>6. HoldsOther(q) => ledger'[o][n + 1] = ledger[o][n + 1]
    BY <1>0, <2>2, <2>5
  <2>7. \A r \in Peer : n \in Nat /\ Held(r, n) => Held(r, n)'
    BY <1>0, HeldForEver DEF IInv
  <2> QED
    BY <1>2, <2>1, <2>2, <2>3, <2>4, <2>6, <2>7
<1> QED
  BY <1>3, <1>4

(* The two steps that seal.                                                *)
LEMMA DecideSeals ==
  ASSUME IInv, Decide
  PROVE  N("police") = N("thief") /\ \E a \in Act : Sealing("police", a)
<1> DEFINE p == "police"
<1>1. PICK a \in Act : CommitOwn(p, a)
  BY DEF Decide
<1>2. /\ oppCommit'[p] = NoSeal /\ ~ackd'[p]
      /\ \A o \in Peer : o # p => oppCommit'[o] = oppCommit[o] /\ ackd'[o] = ackd[o]
  BY DEF Decide, IInv, TypeOK, Peer
<1>3. UNCHANGED <<hist, claim, log>> /\ pc[p] = "decide"
  BY DEF Decide
<1>4. Sealing(p, a)
  BY <1>1, <1>2, <1>3 DEF Sealing
<1> QED
  BY <1>3, <1>4 DEF IInv, Counting, Together

LEMMA TakeCommitSeals ==
  ASSUME IInv, inbox["thief"] # <<>>, NEW m, m = Head(inbox["thief"]), TakeCommit(m)
  PROVE  LET p == "thief"  q == "police"  k == N(p) IN
         /\ k = N(q) /\ k \in Nat /\ k < L(q)
         /\ m.seal = ledger[q][k + 1] /\ m = Msg("commit", k, ledger[q][k + 1], NoAct)
         /\ Protocol(m) /\ Rank(m) = 3 * k
         /\ Record("received", k, m) \in log'[p]
         /\ \A o \in Peer : \A r \in log'[o] : r \in log[o] \/ r.dir = "sent" \/ Fits(o, r)
         /\ oppCommit'[p] = m.seal /\ oppCommit'[q] = oppCommit[q]
         /\ \E a \in Act : Sealing(p, a)
<1> DEFINE p == "thief"  q == "police"
<1>0. p \in Peer /\ q \in Peer /\ Other(p) = q /\ Other(q) = p
  BY DEF Peer, Other
<1>1. PICK a \in Act : CommitOwn(p, a)
  BY DEF TakeCommit
<1>2. Active(p) /\ ~Fresh(p)
  BY DEF TakeCommit, Active, Ended, Fresh
<1>3. PICK k : /\ k = N(p) /\ k \in Nat /\ m.turn = k /\ k < L(q)
               /\ m.seal = ledger[q][k + 1]
               /\ m = Msg("commit", k, ledger[q][k + 1], NoAct)
               /\ Protocol(m) /\ Rank(m) = 3 * k
  BY <1>0, <1>2, CommitOfThisTurn DEF TakeCommit
<1>4. /\ \A o \in Peer : log[o] \subseteq log'[o]
      /\ Record("received", k, m) \in log'[p]
      /\ \A o \in Peer : \A r \in log'[o] : r \in log[o] \/ r.dir = "sent" \/ Fits(o, r)
  BY <1>0, <1>3, ReceivedFits DEF TakeCommit
<1>5. oppCommit'[p] = m.seal /\ oppCommit'[q] = oppCommit[q]
  BY <1>0 DEF TakeCommit, IInv, TypeOK
<1>6. Sealing(p, a)
  BY <1>0, <1>1, <1>4, <1>5 DEF TakeCommit, Sealing, Peer
<1>7. k = N(q)
  <2>1. N(q) \in Nat /\ L(q) \in Nat /\ N(q) <= N(p) /\ L(q) <= N(q) + 1
    BY <1>0, Lengths DEF IInv, Counting
  <2> QED
    BY <1>3, <2>1
<1> QED
  BY <1>3, <1>4, <1>5, <1>6, <1>7

LEMMA DecideInv ==
  ASSUME IInv, TypeOK', Decide
  PROVE  IInv'
<1> DEFINE p == "police"  q == "thief"
<1>0. p \in Peer /\ q \in Peer /\ Other(p) = q /\ Other(q) = p
  BY DEF Peer, Other
<1>1. N("police") = N("thief")
  BY DecideSeals
<1>2. PICK a \in Act : Sealing(p, a)
  BY DecideSeals
<1>3. /\ \A o \in Peer : /\ N(o) \in Nat /\ N(o)' = N(o)
                         /\ pc'[o] = IF o = p THEN "send_commit" ELSE pc[o]
                         /\ TurnOf(o)' = TurnOf(o)
      /\ L(p) = N(p) /\ TurnOf(p) = N(p) /\ Grows /\ Advances
  BY <1>0, <1>2, SealFacts
<1>5. /\ LedgerShape' /\ Counting' /\ Standing' /\ Binding'
      /\ StillLegal' /\ StillOpen' /\ NoFalseRejection'
  BY <1>0, <1>2, <1>1, SealState
<1>6. ~HoldsOther(p)'
  BY <1>0, <1>3 DEF HoldsOther
<1>7. Holding'
  BY <1>0, <1>2, <1>6, SealHolding
<1>8. Evidence'
  BY <1>3, EvidenceKept DEF Decide
<1>9. Flight'
  BY <1>3, FlightKept DEF Decide
<1>10. /\ Floor(p)' = Floor(p) /\ Active(p)' = Active(p) /\ Active(p)
       /\ Ceiling(p) <= Ceiling(p)' /\ Ceiling(p) \in Int /\ Ceiling(p)' \in Int
  BY <1>0, <1>3, <1>6 DEF Decide, Floor, Fresh, Active, Ended, Ceiling, HoldsOther
<1>11. /\ Floor(q)' = Floor(q) /\ Ceiling(q)' = Ceiling(q) /\ Active(q)' = Active(q)
  BY <1>0, <1>3 DEF Floor, Fresh, HoldsOther, Active, Ceiling
<1>12. Ordered'
  <2> SUFFICES ASSUME NEW o \in Peer, NEW u, u = inbox'[Other(o)]
               PROVE  /\ Active(Other(o))' => \A i \in 1 .. Len(u) :
                           Protocol(u[i]) => Rank(u[i]) >= Floor(Other(o))'
                      /\ Active(o)' => \A i \in 1 .. Len(u) :
                           Protocol(u[i]) => Rank(u[i]) <= Ceiling(o)'
                      /\ Active(Other(o))' => \A i, j \in 1 .. Len(u) :
                           i < j /\ Protocol(u[i]) /\ Protocol(u[j])
                             => Rank(u[i]) <= Rank(u[j])
    BY DEF Ordered
  <2>1. inbox' = inbox
    BY DEF Decide
  <2>2. CASE o = p
    BY <1>0, <1>10, <1>11, <2>1, <2>2, ReaderSends
  <2>3. CASE o = q
    BY <1>0, <1>10, <1>11, <2>1, <2>3 DEF IInv, Ordered
  <2> QED
    BY <2>2, <2>3 DEF Peer
<1> QED
  BY <1>5, <1>7, <1>8, <1>9, <1>12 DEF IInv

LEMMA TakeCommitInv ==
  ASSUME IInv, TypeOK', inbox["thief"] # <<>>, TakeCommit(Head(inbox["thief"]))
  PROVE  IInv'
<1> DEFINE p == "thief"  q == "police"
<1>0. p \in Peer /\ q \in Peer /\ Other(p) = q /\ Other(q) = p
  BY DEF Peer, Other
<1>1. PICK m : m = Head(inbox[p]) /\ TakeCommit(m)
  OBVIOUS
<1>2. Active(p)
  BY <1>1 DEF TakeCommit, Active, Ended
<1>3. PICK k \in Nat : k = N(p)
  BY <1>0, Lengths DEF IInv
<1>4. /\ k = N(q) /\ k < L(q) /\ m.seal = ledger[q][k + 1]
      /\ m = Msg("commit", k, ledger[q][k + 1], NoAct)
      /\ Protocol(m) /\ Rank(m) = 3 * k
      /\ Record("received", k, m) \in log'[p]
      /\ \A o \in Peer : \A r \in log'[o] : r \in log[o] \/ r.dir = "sent" \/ Fits(o, r)
  BY <1>1, <1>3, TakeCommitSeals
<1>5. oppCommit'[p] = m.seal /\ oppCommit'[q] = oppCommit[q]
  BY <1>1, TakeCommitSeals
<1>6. PICK a \in Act : Sealing(p, a)
  BY <1>1, TakeCommitSeals
<1>7. /\ \A o \in Peer : /\ N(o) \in Nat /\ N(o)' = N(o)
                         /\ pc'[o] = IF o = p THEN "send_commit" ELSE pc[o]
                         /\ TurnOf(o)' = TurnOf(o)
      /\ ledger'[q] = ledger[q] /\ L(q) \in Nat
      /\ TurnOf(p) = N(p) /\ Grows /\ Advances
  BY <1>0, <1>6, SealFacts
<1>8. N("police") = N("thief")
  BY <1>3, <1>4
<1>9. /\ LedgerShape' /\ Counting' /\ Standing' /\ Binding'
      /\ StillLegal' /\ StillOpen' /\ NoFalseRejection'
  BY <1>0, <1>6, <1>8, SealState
<1>10. Held(p, k)'
  BY <1>0, <1>3, <1>4, <1>7 DEF Held, L, Msg
<1>11. Holding'
  BY <1>0, <1>3, <1>4, <1>5, <1>6, <1>10, SealHolding
<1>12. Evidence'
  BY <1>4, <1>7, EvidenceKept
<1>13. inbox[p] # <<>> /\ Take(p)
  BY <1>1 DEF TakeCommit
<1>14. Flight'
  BY <1>0, <1>7, <1>13, TakeEntries, FlightKept
<1>15. /\ Floor(p) \in Int /\ Floor(p)' \in Int /\ Floor(p)' <= Rank(m)
       /\ Ceiling(p) <= Ceiling(p)' /\ Ceiling(p) \in Int /\ Ceiling(p)' \in Int
  BY <1>0, <1>1, <1>3, <1>4, <1>7 DEF TakeCommit, Floor, Ceiling
<1>16. Floor(q)' = Floor(q) /\ Ceiling(q)' = Ceiling(q) /\ Active(q)' = Active(q)
  BY <1>0, <1>5, <1>7 DEF Floor, Fresh, HoldsOther, Active, Ceiling
<1>17. inbox'[q] = inbox[q]
  BY <1>0, <1>13, TakeEntries
<1>18. Ordered'
  <2> SUFFICES ASSUME NEW o \in Peer, NEW u, u = inbox'[Other(o)]
               PROVE  /\ Active(Other(o))' => \A i \in 1 .. Len(u) :
                           Protocol(u[i]) => Rank(u[i]) >= Floor(Other(o))'
                      /\ Active(o)' => \A i \in 1 .. Len(u) :
                           Protocol(u[i]) => Rank(u[i]) <= Ceiling(o)'
                      /\ Active(Other(o))' => \A i, j \in 1 .. Len(u) :
                           i < j /\ Protocol(u[i]) /\ Protocol(u[j])
                             => Rank(u[i]) <= Rank(u[j])
    BY DEF Ordered
  <2>1. CASE o = p
    BY <1>0, <1>2, <1>15, <1>16, <1>17, <2>1, ReaderSends
  <2>2. CASE o = q
    <3>1. Active(q)' => Active(q) /\ Ceiling(q)' = Ceiling(q)
      BY <1>16
    <3>2. Protocol(m) /\ Floor(p)' <= Rank(m)
      BY <1>4, <1>15
    <3>3. Floor(p) \in Int /\ Floor(p)' \in Int /\ m = Head(inbox[p])
      BY <1>1, <1>15
    <3> QED
      BY <1>0, <1>2, <1>13, <2>2, <3>1, <3>2, <3>3, TakeSorted
  <2> QED
    BY <2>1, <2>2 DEF Peer
<1> QED
  BY <1>9, <1>11, <1>12, <1>14, <1>18 DEF IInv

-----------------------------------------------------------------------------
(* Resolving a joint turn.                                                 *)

(* drain_trailing_hint loses a hint or moves an envelope, no more.         *)
LEMMA DrainedEntries ==
  ASSUME NEW s \in Seq(Messages), s # <<>>
  PROVE  \A i \in 1 .. Len(Drained(Tail(s))) :
           \E j \in 1 .. Len(s) : Drained(Tail(s))[i] = s[j]
<1> DEFINE t == Tail(s)  u == Drained(t)
<1>1. /\ t \in Seq(Messages) /\ Len(s) \in Nat \ {0} /\ Len(t) = Len(s) - 1
      /\ \A i \in 1 .. Len(t) : t[i] = s[i + 1]
  BY TailFacts
<1>2. \A i \in 1 .. Len(t) : \E j \in 1 .. Len(s) : t[i] = s[j]
  <2>1. \A i \in 1 .. Len(t) : i + 1 \in 1 .. Len(s)
    BY <1>1
  <2> QED
    BY <1>1, <2>1
<1> SUFFICES ASSUME NEW i \in 1 .. Len(u)
             PROVE  \E j \in 1 .. Len(t) : u[i] = t[j]
  BY <1>2
<1>3. CASE t = <<>>
  BY <1>3 DEF Drained
<1>4. CASE t # <<>>
  <2>1. PICK v : v = Tail(t)
    OBVIOUS
  <2>2. /\ v \in Seq(Messages) /\ Head(t) = t[1] /\ Head(t) \in Messages
        /\ Len(t) \in Nat \ {0} /\ Len(v) = Len(t) - 1
        /\ \A k \in 1 .. Len(v) : v[k] = t[k + 1]
    BY <1>1, <1>4, <2>1, TailFacts
  <2>3. \A k \in 1 .. Len(v) : k + 1 \in 1 .. Len(t) /\ v[k] = t[k + 1]
    BY <2>2
  <2>4. CASE Head(t).type = "hint"
    <3>1. u = v
      BY <1>4, <2>1, <2>4 DEF Drained
    <3> QED
      BY <2>3, <3>1
  <2>5. CASE Head(t).type # "hint"
    <3>1. u = Append(v, Head(t))
      BY <1>4, <2>1, <2>5 DEF Drained
    <3>2. /\ Len(u) = Len(v) + 1 /\ u[Len(v) + 1] = Head(t)
          /\ \A k \in 1 .. Len(v) : u[k] = v[k]
      <4>1. PICK e \in Messages : e = Head(t)
        BY <2>2
      <4> HIDE DEF u, t
      <4> QED
        BY <2>2, <3>1, <4>1, AppendFacts
    <3>3. i \in 1 .. Len(v) \/ i = Len(v) + 1
      BY <2>2, <3>2
    <3>4. 1 \in 1 .. Len(t)
      BY <2>2
    <3> HIDE DEF u, t
    <3> QED
      BY <2>2, <2>3, <3>2, <3>3, <3>4
  <2> QED
    BY <2>4, <2>5
<1> QED
  BY <1>3, <1>4

(* An opponent's action is always accepted: it was legal where it was      *)
(* sealed, and the reader's position is the same.                          *)
LEMMA RevealAccepted ==
  ASSUME IInv, NEW p \in Peer, inbox[p] # <<>>, NEW m, m = Head(inbox[p]), TakeReveal(p, m)
  PROVE  LET h == Append(hist[p], JointTurn(p, pending[p].act, m.act)) IN
         /\ hist' = [hist EXCEPT ![p] = h]
         /\ Received(p, m) /\ AfterReveal(p, BoardOutcome(h)) /\ claim' = claim
<1>1. N(p) < L(Other(p)) /\ m.act = ledger[Other(p)][N(p) + 1].act
  BY RevealOfThisTurn DEF TakeReveal
<1>2. Legal(hist[p], Other(p), m.act)
  BY <1>1, OtherFacts DEF IInv, StillLegal
<1> QED
  BY <1>2 DEF TakeReveal

(* What resolving a turn does to the reader.                               *)
LEMMA RevealFacts ==
  ASSUME IInv, NEW p \in Peer, inbox[p] # <<>>, NEW m, m = Head(inbox[p]), TakeReveal(p, m)
  PROVE  /\ N(p) \in Nat /\ N(p)' = N(p) + 1
         /\ \A i \in 1 .. N(p) : hist'[p][i] = hist[p][i]
         /\ hist'[p][N(p) + 1] =
              <<ledger["police"][N(p) + 1].act, ledger["thief"][N(p) + 1].act>>
         /\ L(p) = N(p) + 1 /\ L(Other(p)) = N(p) + 1
         /\ hist'[Other(p)] = hist[Other(p)] /\ pc'[Other(p)] = pc[Other(p)]
         /\ pending'[Other(p)] = pending[Other(p)] /\ ackd'[Other(p)] = ackd[Other(p)]
         /\ p = "police" =>
              /\ N("thief") = N(p) + 1
              /\ \/ pc'[p] = "decide" /\ BoardOutcome(hist'[p]) = "none"
                 \/ pc'[p] \in {"declare", "publish"}
         /\ p = "thief" =>
              /\ N("police") = N(p) /\ pc["police"] \in Revealed
              /\ pending'[p] = pending[p] /\ ~ackd'[p]
              /\ pc'[p] = IF ackd[p] THEN "send_reveal" ELSE "wait_ack"
<1> DEFINE q == Other(p)  e == JointTurn(p, pending[p].act, m.act)  h == Append(hist[p], e)
<1>1. /\ hist' = [hist EXCEPT ![p] = h]
      /\ AfterReveal(p, BoardOutcome(h))
  BY RevealAccepted
<1>2. /\ m.turn = N(p) /\ N(p) \in Nat /\ N(p) < L(q)
      /\ m.act = ledger[q][N(p) + 1].act /\ Lasting(q, m)
  BY RevealOfThisTurn DEF TakeReveal
<1>3. q \in Peer /\ q # p /\ Other(q) = p
  BY OtherFacts
<1>4. /\ N("police") \in Nat /\ N("thief") \in Nat /\ L(p) \in Nat /\ L(q) \in Nat
      /\ N("police") <= N("thief") /\ N("thief") <= N("police") + 1
      /\ L(q) <= N("police") + 1 /\ L(p) <= N("police") + 1
  BY <1>3, Lengths DEF IInv, Counting, Peer
<1>5. pending[p].act = ledger[p][N(p) + 1].act /\ L(p) = N(p) + 1
  <2>1. Playing(p) /\ TurnOf(p) = N(p)
    BY DEF TakeReveal, Playing, Active, Ended, TurnOf, Behind
  <2> QED
    BY <2>1 DEF IInv, Standing
<1>6. e = <<ledger["police"][N(p) + 1].act, ledger["thief"][N(p) + 1].act>>
  BY <1>2, <1>5 DEF JointTurn, Other, Peer
<1>7. e \in JointTurns /\ hist[p] \in Seq(JointTurns) /\ hist'[p] = h
  <2>1. hist[p] \in Seq(JointTurns) /\ hist'[p] = h
    BY <1>1 DEF IInv, TypeOK
  <2>2. pending[p].act \in Act \cup {NoAct}
    BY DEF IInv, TypeOK, Pendings
  <2>3. m.act \in Act \cup {NoAct}
    BY RevealOfThisTurn DEF TakeReveal, Messages
  <2> QED
    BY <2>1, <2>2, <2>3 DEF JointTurn, JointTurns
<1>8. /\ Len(h) = N(p) + 1 /\ h[N(p) + 1] = e
      /\ \A i \in 1 .. N(p) : h[i] = hist[p][i]
  BY <1>7, AppendFacts DEF N
<1>9. /\ hist'[q] = hist[q] /\ pc'[q] = pc[q]
      /\ pending'[q] = pending[q] /\ ackd'[q] = ackd[q]
  BY <1>1, <1>3 DEF AfterReveal, Finish, IInv, TypeOK
<1>10. /\ N(p)' = N(p) + 1
       /\ \A i \in 1 .. N(p) : hist'[p][i] = hist[p][i]
       /\ hist'[p][N(p) + 1] =
            <<ledger["police"][N(p) + 1].act, ledger["thief"][N(p) + 1].act>>
  BY <1>6, <1>7, <1>8 DEF N
<1>11. CASE p = "police"
  <2>1. q = "thief" /\ N("thief") = N(p) + 1
    BY <1>2, <1>4, <1>11 DEF Lasting, Other, TakeReveal
  <2>2. \/ pc'[p] = "decide" /\ BoardOutcome(h) = "none"
        \/ pc'[p] \in {"declare", "publish"}
    BY <1>1, <1>11 DEF AfterReveal, Finish, IInv, TypeOK
  <2>3. L(q) = N(p) + 1 /\ hist'[p] = h
    BY <1>2, <1>4, <1>7, <1>11
  <2> HIDE DEF h, e
  <2> QED
    BY <1>2, <1>5, <1>9, <1>11, <1>10, <2>1, <2>2, <2>3
<1>12. CASE p = "thief"
  <2>1. q = "police" /\ N("police") = N(p)
    BY <1>12 DEF TakeReveal, IInv, Counting, Together, Other
  <2>2. pc["police"] \in Revealed
    BY <1>2, <1>4, <2>1 DEF Lasting, TakeReveal
  <2>3. /\ pending'[p] = pending[p] /\ ~ackd'[p]
        /\ pc'[p] = IF ackd[p] THEN "send_reveal" ELSE "wait_ack"
    BY <1>1, <1>12 DEF AfterReveal, IInv, TypeOK
  <2>4. L(q) = N(p) + 1
    BY <1>2, <1>4, <2>1
  <2> HIDE DEF h, e
  <2> QED
    BY <1>2, <1>5, <1>9, <1>12, <1>10, <2>1, <2>2, <2>3, <2>4
<1> QED
  BY <1>11, <1>12 DEF Peer

LEMMA RevealState ==
  ASSUME IInv, TypeOK', NEW p \in Peer, inbox[p] # <<>>, NEW m, m = Head(inbox[p]),
         TakeReveal(p, m)
  PROVE  /\ LedgerShape' /\ Counting' /\ Standing' /\ Binding'
         /\ StillLegal' /\ StillOpen' /\ NoFalseRejection'
<1>1. PICK q \in Peer : q = Other(p) /\ q # p /\ Other(q) = p
  BY OtherFacts
<1>2. PICK k \in Nat : k = N(p)
  BY Lengths DEF IInv
<1>3. /\ N(p)' = k + 1 /\ N(q)' = N(q) /\ hist'[q] = hist[q] /\ pc'[q] = pc[q]
      /\ \A i \in 1 .. k : hist'[p][i] = hist[p][i]
      /\ hist'[p][k + 1] = <<ledger["police"][k + 1].act, ledger["thief"][k + 1].act>>
      /\ L(p) = k + 1 /\ L(q) = k + 1
      /\ pending'[q] = pending[q] /\ ackd'[q] = ackd[q]
  BY <1>1, <1>2, RevealFacts DEF N
<1>4. /\ p = "police" =>
           /\ N(q) = k + 1
           /\ \/ pc'[p] = "decide" /\ BoardOutcome(hist'[p]) = "none"
              \/ pc'[p] \in {"declare", "publish"}
      /\ p = "thief" =>
           /\ N(q) = k /\ pc[q] \in Revealed
           /\ pending'[p] = pending[p] /\ ~ackd'[p]
           /\ pc'[p] = IF ackd[p] THEN "send_reveal" ELSE "wait_ack"
  BY <1>1, <1>2, RevealFacts DEF Other
<1>5. \A o \in Peer : o = p \/ o = q
  BY <1>1 DEF Peer
<1>6. \/ p = "police" /\ q = "thief"
      \/ p = "thief" /\ q = "police"
  BY <1>1 DEF Peer
<1>7. ledger' = ledger /\ oppCommit' = oppCommit /\ claim' = claim /\ L(p)' = L(p) /\ L(q)' = L(q)
  BY RevealAccepted DEF TakeReveal, L
<1>8. LedgerShape'
  BY <1>7 DEF IInv, LedgerShape, L
<1>9. Counting'
  <2>1. CASE p = "police"
    BY <1>2, <1>3, <1>4, <1>6, <1>7, <2>1 DEF Counting, Peer
  <2>2. CASE p = "thief"
    <3>1. ~Together'
      BY <1>3, <1>4, <1>6, <2>2 DEF Together, Revealed, Ended
    <3> QED
      BY <1>2, <1>3, <1>4, <1>6, <1>7, <2>2, <3>1 DEF Counting, Peer
  <2> QED
    BY <1>6, <2>1, <2>2
<1>10. Standing'
  <2>1. /\ Playing(q)' = Playing(q) /\ Active(q)' = Active(q) /\ TurnOf(q)' = TurnOf(q)
    BY <1>3 DEF Playing, Active, TurnOf
  <2>2. /\ Playing(q)' =>
             /\ L(q)' = TurnOf(q)' + 1 /\ pending'[q].turn = TurnOf(q)'
             /\ TurnOf(q)' >= 0
             /\ pending'[q].act = ledger'[q][L(q)'].act
        /\ Active(q)' /\ ~Playing(q)' => L(q)' = N(q)'
    BY <1>3, <1>7, <2>1 DEF IInv, Standing
  <2>3. CASE p = "police"
    <3>1. ~Playing(p)' /\ pc'[p] \in {"decide", "declare", "publish"} /\ L(p)' = N(p)'
      BY <1>3, <1>4, <1>7, <2>3 DEF Playing, Active, Ended
    <3> QED
      BY <1>3, <1>5, <1>6, <2>1, <2>2, <2>3, <3>1 DEF IInv, Standing
  <2>4. CASE p = "thief"
    <3>1. pc'[p] \in {"send_reveal", "wait_ack"} /\ ~ackd'[p]
      BY <1>4, <2>4
    <3>2. Playing(p)' /\ TurnOf(p)' = k
      BY <1>2, <1>3, <2>4, <3>1 DEF Playing, Active, Ended, TurnOf, Behind
    <3>3. pending[p].turn = k /\ pending[p].act = ledger[p][L(p)].act
      <4>1. Playing(p) /\ TurnOf(p) = k
        BY <1>2 DEF TakeReveal, Playing, Active, Ended, TurnOf, Behind
      <4> QED
        BY <4>1 DEF IInv, Standing
    <3>4. /\ L(p)' = TurnOf(p)' + 1 /\ pending'[p].turn = TurnOf(p)'
          /\ TurnOf(p)' >= 0
          /\ pending'[p].act = ledger'[p][L(p)'].act
      BY <1>2, <1>3, <1>4, <1>7, <2>4, <3>2, <3>3
    <3>5. /\ pc'["police"] \notin {"wait_commit", "wait_ack", "send_commit"}
          /\ pc'["thief"] \notin {"decide", "wait_ack_commit", "declare"}
      BY <1>3, <1>4, <1>6, <2>4, <3>1 DEF Revealed, Ended
    <3>6. \A o \in Peer :
             /\ Playing(o)' =>
                  /\ L(o)' = TurnOf(o)' + 1 /\ pending'[o].turn = TurnOf(o)'
                  /\ TurnOf(o)' >= 0
                  /\ pending'[o].act = ledger'[o][L(o)'].act
             /\ Active(o)' /\ ~Playing(o)' => L(o)' = N(o)'
      BY <1>5, <2>2, <3>2, <3>4
    <3> QED
      BY <2>4, <3>1, <3>5, <3>6 DEF Standing
  <2> QED
    BY <1>6, <2>3, <2>4
<1>11. Binding'
  <2> SUFFICES ASSUME NEW o \in Peer, NEW i \in 1 .. N(o)'
               PROVE  hist'[o][i] = <<ledger'["police"][i].act, ledger'["thief"][i].act>>
    BY DEF Binding
  <2>1. CASE o = p
    <3>1. i \in 1 .. k \/ i = k + 1
      BY <1>2, <1>3, <2>1
    <3> QED
      BY <1>2, <1>3, <1>7, <2>1, <3>1 DEF IInv, Binding
  <2>2. CASE o = q
    BY <1>3, <1>7, <2>2 DEF IInv, Binding
  <2> QED
    BY <1>5, <2>1, <2>2
<1>12. StillLegal'
  <2> SUFFICES ASSUME NEW o \in Peer, NEW r \in Peer, N(r)' < L(o)'
               PROVE  Legal(hist'[r], o, ledger'[o][N(r)' + 1].act)
    BY DEF StillLegal
  <2>1. r = q
    BY <1>2, <1>3, <1>5, <1>7
  <2> QED
    BY <1>1, <1>3, <1>5, <1>7, <2>1 DEF IInv, StillLegal
<1>13. StillOpen'
  <2>1. Active(q)' = Active(q) /\ pc'[q] = pc[q] /\ hist'[q] = hist[q]
    BY <1>3 DEF Active
  <2>2. p = "police" /\ Active(p)' => BoardOutcome(hist'[p]) = "none"
    BY <1>4 DEF Active, Ended
  <2>3. p = "thief" => pc'[p] \in Behind
    BY <1>4 DEF Behind
  <2>4. Active(q)' /\ ~(q = "thief" /\ pc'[q] \in Behind) => BoardOutcome(hist'[q]) = "none"
    BY <2>1 DEF IInv, StillOpen
  <2> QED
    BY <1>5, <1>6, <2>2, <2>3, <2>4 DEF StillOpen
<1>14. NoFalseRejection'
  BY <1>7 DEF IInv, NoFalseRejection
<1> QED
  BY <1>8, <1>9, <1>10, <1>11, <1>12, <1>13, <1>14

LEMMA RevealHolding ==
  ASSUME IInv, TypeOK', NEW p \in Peer, inbox[p] # <<>>, NEW m, m = Head(inbox[p]),
         TakeReveal(p, m), \A o \in Peer : log[o] \subseteq log'[o]
  PROVE  Holding'
<1>1. PICK q \in Peer : q = Other(p) /\ q # p /\ Other(q) = p
  BY OtherFacts
<1>2. PICK k \in Nat : k = N(p)
  BY Lengths DEF IInv
<1>3. /\ N(p)' = k + 1 /\ N(q)' = N(q) /\ pc'[q] = pc[q] /\ ackd'[q] = ackd[q]
  BY <1>1, <1>2, RevealFacts DEF N
<1>4. /\ p = "police" => pc'[p] \in {"decide", "declare", "publish"}
      /\ p = "thief" => pc'[p] = IF ackd[p] THEN "send_reveal" ELSE "wait_ack"
  BY RevealFacts
<1>5. ledger' = ledger /\ oppCommit' = oppCommit
  BY DEF TakeReveal
<1>6. \A o \in Peer : \A n : Held(o, n) => Held(o, n)'
  BY <1>5 DEF Held
<1> SUFFICES ASSUME NEW o \in Peer, NEW n, n = TurnOf(o)'
             PROVE  /\ HoldsOther(o)' =>
                         Held(o, n)' /\ oppCommit'[o] = ledger'[Other(o)][n + 1]
                    /\ IsAcked(o)' => Held(Other(o), n)'
  BY DEF Holding
<1>7. PICK x \in Peer : x = Other(o)
  BY OtherFacts
<1>8. CASE o = q
  <2>1. n = TurnOf(o) /\ HoldsOther(o)' = HoldsOther(o) /\ IsAcked(o)' = IsAcked(o)
    BY <1>3, <1>5, <1>8 DEF TurnOf, HoldsOther, IsAcked
  <2>2. /\ HoldsOther(o) => Held(o, n) /\ oppCommit[o] = ledger[x][n + 1]
        /\ IsAcked(o) => Held(x, n)
    BY <1>7, <2>1 DEF IInv, Holding
  <2> QED
    BY <1>5, <1>6, <1>7, <2>1, <2>2
<1>9. CASE o = p
  <2>1. CASE p = "police"
    BY <1>4, <1>9, <2>1 DEF HoldsOther, IsAcked
  <2>2. CASE p = "thief"
    <3>1. TurnOf(o) = k /\ n = k
      BY <1>2, <1>3, <1>4, <1>9, <2>2 DEF TakeReveal, TurnOf, Behind
    <3>2. HoldsOther(o)
      BY <1>9, <2>2 DEF TakeReveal, HoldsOther
    <3>3. IsAcked(o)' => IsAcked(o)
      BY <1>4, <1>9, <2>2 DEF TakeReveal, IsAcked
    <3>4. /\ Held(o, n) /\ oppCommit[o] = ledger[x][n + 1]
          /\ IsAcked(o) => Held(x, n)
      BY <1>7, <3>1, <3>2 DEF IInv, Holding
    <3> QED
      BY <1>5, <1>6, <1>7, <3>3, <3>4
  <2> QED
    BY <2>1, <2>2 DEF Peer
<1> QED
  BY <1>1, <1>8, <1>9 DEF Peer

LEMMA TakeRevealInv ==
  ASSUME IInv, TypeOK', NEW p \in Peer, inbox[p] # <<>>, TakeReveal(p, Head(inbox[p]))
  PROVE  IInv'
<1>1. PICK q \in Peer : q = Other(p) /\ q # p /\ Other(q) = p
  BY OtherFacts
<1>2. PICK k \in Nat : k = N(p)
  BY Lengths DEF IInv
<1>3. PICK m : m = Head(inbox[p]) /\ TakeReveal(p, m)
  OBVIOUS
<1>4. /\ k < L(q) /\ m.act = ledger[q][k + 1].act
      /\ \A i \in 1 .. Len(inbox[p]) :
           Protocol(inbox[p][i]) => Rank(inbox[p][i]) = 3 * k + 2
  BY <1>1, <1>2, <1>3, RevealOfThisTurn DEF TakeReveal
<1>5. /\ \A o \in Peer : log[o] \subseteq log'[o]
      /\ \A o \in Peer : \A r \in log'[o] : r \in log[o] \/ r.dir = "sent" \/ Fits(o, r)
  <2>1. Received(p, m) /\ m.type = "reveal"
    BY <1>3, RevealAccepted DEF TakeReveal
  <2> QED
    BY <1>1, <1>2, <1>4, <2>1, ReceivedFits
<1>6. /\ N(p)' = k + 1 /\ N(q)' = N(q) /\ N(q) \in Nat
      /\ pc'[q] = pc[q] /\ hist'[q] = hist[q]
      /\ ledger' = ledger /\ oppCommit' = oppCommit
  BY <1>1, <1>2, <1>3, RevealFacts, Lengths DEF N, TakeReveal, IInv
<1>7. /\ p = "police" => pc'[p] \in {"decide", "declare", "publish"}
      /\ p = "thief" => pc'[p] \in {"send_reveal", "wait_ack"}
  BY <1>3, RevealFacts
<1>8. Grows
  BY <1>5, <1>6 DEF Grows, L
<1>9. Advances
  <2>1. \A o \in Peer : N(o) <= N(o)'
    BY <1>1, <1>2, <1>6 DEF Peer
  <2>2. p = "police" => N("police") < N("police")'
    BY <1>2, <1>6
  <2>3. p = "thief" => pc'["police"] = pc["police"]
    BY <1>1, <1>6 DEF Other
  <2> QED
    BY <2>1, <2>2, <2>3 DEF Advances, Peer
<1>10. /\ inbox'[q] = inbox[q] /\ inbox'[p] = Drained(Tail(inbox[p]))
       /\ \A i \in 1 .. Len(inbox'[p]) :
            \E j \in 1 .. Len(inbox[p]) : inbox'[p][i] = inbox[p][j]
  <2>1. inbox \in [Peer -> Seq(Messages)]
    BY DEF IInv, TypeOK
  <2>2. inbox'[q] = inbox[q] /\ inbox'[p] = Drained(Tail(inbox[p]))
    BY <1>1, <1>3, <2>1 DEF TakeReveal
  <2> QED
    BY <2>1, <2>2, DrainedEntries
<1>11. Flight'
  <2>1. \A o \in Peer : \A i \in 1 .. Len(inbox'[o]) :
          \E j \in 1 .. Len(inbox[o]) : inbox'[o][i] = inbox[o][j]
    <3>1. \A i \in 1 .. Len(inbox'[q]) : \E j \in 1 .. Len(inbox[q]) : inbox'[q][i] = inbox[q][j]
      BY <1>10
    <3>2. \A o \in Peer : o = p \/ o = q
      BY <1>1 DEF Peer
    <3>3. \A i \in 1 .. Len(inbox'[p]) : \E j \in 1 .. Len(inbox[p]) : inbox'[p][i] = inbox[p][j]
      BY <1>10
    <3> QED
      BY <3>1, <3>2, <3>3
  <2> QED
    BY <1>8, <1>9, <2>1, FlightKept
<1>12. Evidence'
  BY <1>5, <1>8, EvidenceKept
<1>13. /\ Active(q)' = Active(q) /\ Floor(q)' = Floor(q) /\ Ceiling(q)' = Ceiling(q)
  BY <1>1, <1>6 DEF Active, Floor, Fresh, HoldsOther, Ceiling, TurnOf
<1>14. Active(p)' => Floor(p)' = 3 * k + 2
  <2>1. Active(p)' => ~Fresh(p)'
    BY <1>7 DEF Active, Ended, Fresh, HoldsOther, Peer
  <2> QED
    BY <1>2, <1>6, <2>1 DEF Floor
<1>15. /\ Active(p)
       /\ Active(p)' => /\ Ceiling(p) <= Ceiling(p)'
                        /\ Ceiling(p) \in Int /\ Ceiling(p)' \in Int
  <2>1. pc[p] = "wait_reveal"
    BY <1>3 DEF TakeReveal
  <2>2. CASE p = "police"
    BY <1>2, <1>6, <1>7, <2>1, <2>2 DEF Active, Ended, Ceiling, TurnOf
  <2>3. CASE p = "thief"
    <3>1. TurnOf(p) = k /\ TurnOf(p)' = k
      BY <1>2, <1>6, <1>7, <2>1, <2>3 DEF TurnOf, Behind
    <3> QED
      BY <1>2, <1>7, <2>1, <2>3, <3>1 DEF Active, Ended, Ceiling
  <2> QED
    BY <2>2, <2>3 DEF Peer
<1>16. Ordered'
  <2> SUFFICES ASSUME NEW o \in Peer, NEW u, u = inbox'[Other(o)]
               PROVE  /\ Active(Other(o))' => \A i \in 1 .. Len(u) :
                           Protocol(u[i]) => Rank(u[i]) >= Floor(Other(o))'
                      /\ Active(o)' => \A i \in 1 .. Len(u) :
                           Protocol(u[i]) => Rank(u[i]) <= Ceiling(o)'
                      /\ Active(Other(o))' => \A i, j \in 1 .. Len(u) :
                           i < j /\ Protocol(u[i]) /\ Protocol(u[j])
                             => Rank(u[i]) <= Rank(u[j])
    BY DEF Ordered
  <2>1. CASE o = p
    BY <1>1, <1>10, <1>13, <1>15, <2>1, ReaderSends
  <2>2. CASE o = q
    <3>1. \A i \in 1 .. Len(u) : Protocol(u[i]) =>
            \E j \in 1 .. Len(inbox[p]) : u[i] = inbox[p][j] /\ Rank(u[i]) = 3 * k + 2
      BY <1>1, <1>4, <1>10, <2>2
    <3>2. Active(q) => \A j \in 1 .. Len(inbox[p]) :
            Protocol(inbox[p][j]) => Rank(inbox[p][j]) <= Ceiling(q)
      BY <1>1 DEF IInv, Ordered
    <3>3. Active(q)' => \A i \in 1 .. Len(u) : Protocol(u[i]) => Rank(u[i]) <= Ceiling(q)'
      BY <1>13, <3>1, <3>2
    <3> QED
      BY <1>1, <1>14, <2>2, <3>1, <3>3
  <2> QED
    BY <1>1, <2>1, <2>2 DEF Peer
<1> QED
  BY <1>3, <1>5, <1>11, <1>12, <1>16, RevealState, RevealHolding DEF IInv

-----------------------------------------------------------------------------
(* The invariant.                                                          *)

LEMMA InitInv == Init => IInv
<1> SUFFICES ASSUME Init PROVE IInv
  OBVIOUS
<1>1. TypeOK
  BY InitTypes
<1>2. /\ \A p \in Peer : /\ N(p) = 0 /\ L(p) = 0 /\ inbox[p] = <<>> /\ hist[p] = <<>>
                         /\ log[p] = {} /\ ~ackd[p] /\ claim[p] = "none"
      /\ pc["police"] = "decide" /\ pc["thief"] = "wait_commit"
  BY DEF Init, N, L, Peer
<1>3. \A p \in Peer : Active(p) /\ ~Playing(p) /\ ~HoldsOther(p) /\ ~IsAcked(p)
  BY <1>2 DEF Active, Ended, Playing, HoldsOther, IsAcked, Peer
<1>4. LedgerShape /\ Binding /\ StillLegal
  BY <1>2 DEF LedgerShape, Binding, StillLegal
<1>5. Counting
  BY <1>2 DEF Counting, Peer
<1>6. Standing
  BY <1>2, <1>3 DEF Standing, Peer
<1>7. Holding
  BY <1>3 DEF Holding
<1>8. Flight /\ Ordered
  BY <1>2, OtherFacts DEF Flight, Ordered
<1>9. Evidence
  BY <1>2 DEF Evidence
<1>10. StillOpen
  <2>1. BoardOutcome(<<>>) = "none"
    BY NotCaughtAtStart, TurnBound DEF BoardOutcome
  <2> QED
    BY <1>2, <2>1 DEF StillOpen
<1>11. NoFalseRejection
  BY <1>2 DEF NoFalseRejection
<1> QED
  BY <1>1, <1>4, <1>5, <1>6, <1>7, <1>8, <1>9, <1>10, <1>11 DEF IInv

LEMMA StepInv == IInv /\ [Next]_vars => IInv'
<1> SUFFICES ASSUME IInv, [Next]_vars PROVE IInv'
  OBVIOUS
<1>1. TypeOK'
  BY NextTypes DEF IInv
<1>2. ASSUME NEW p \in Peer, Receive(p) PROVE IInv'
  <2>1. PICK m : m = Head(inbox[p])
    OBVIOUS
  <2>2. CASE p = "thief" /\ TakeCommit(m)
    BY <1>1, <1>2, <2>1, <2>2, TakeCommitInv DEF Receive
  <2>3. CASE p = "thief" /\ CaptureEarlyAck(m)
    BY <1>1, <1>2, <2>1, <2>3, CaptureEarlyAckInv DEF Receive
  <2>4. CASE p = "thief" /\ TakeMatchingAck(m)
    BY <1>1, <1>2, <2>1, <2>4, TakeMatchingAckInv DEF Receive
  <2>5. CASE p = "police" /\ AcceptAck(m)
    BY <1>1, <1>2, <2>1, <2>5, AcceptAckInv DEF Receive
  <2>6. CASE p = "police" /\ AcceptCommit(m)
    BY <1>1, <1>2, <2>1, <2>6, AcceptCommitInv DEF Receive
  <2>7. CASE TakeReveal(p, m)
    BY <1>1, <1>2, <2>1, <2>7, TakeRevealInv DEF Receive
  <2>8. CASE DropJitter(p, m)
    BY <1>1, <1>2, <2>1, <2>8, DropInv DEF Receive
  <2> QED
    BY <1>2, <2>1, <2>2, <2>3, <2>4, <2>5, <2>6, <2>7, <2>8 DEF Receive
<1>3. ASSUME NEW p \in Peer, Step(p) PROVE IInv'
  BY <1>1, <1>2, <1>3, DecideInv, PushInv, SilenceInv DEF Step
<1>4. ASSUME NEW p \in Peer, Fault(p) PROVE IInv'
  BY <1>1, <1>4, PushInv, SilenceInv DEF Fault
<1>5. CASE UNCHANGED vars
  <2>1. /\ "police" \in Peer /\ pc["police"] \in PC /\ UNCHANGED inbox
        /\ pc' = [pc EXCEPT !["police"] = pc["police"]]
    BY <1>5 DEF vars, IInv, TypeOK, Peer
  <2>2. Quiet("police", pc["police"])
    BY <1>5, <2>1 DEF vars, Quiet, Follows
  <2> QED
    BY <1>1, <2>1, <2>2, QuietSilent
<1> QED
  BY <1>3, <1>4, <1>5 DEF Next, Terminated

(* IInv, the conjunction that explains the protocol, holds in every state  *)
(* the two turn loops can reach, whatever is lost, late or dead.           *)
THEOREM Invariance == Spec => []IInv
<1>1. Init => IInv
  BY InitInv
<1>2. IInv /\ [Next]_vars => IInv'
  BY StepInv
<1> QED
  BY <1>1, <1>2, PTL DEF Spec

-----------------------------------------------------------------------------
(* What the invariant gives.                                               *)

LEMMA InboundInFlight ==
  ASSUME IInv, NEW p \in Peer, NEW m \in Inbound(p)
  PROVE  m \in Messages /\ m.turn \in Nat /\ Lasting(Other(p), m)
<1>1. PICK i \in DOMAIN inbox[p] : m = inbox[p][i]
  BY DEF Inbound
<1>2. i \in 1 .. Len(inbox[p])
  BY <1>1, Lengths DEF IInv
<1> QED
  BY <1>1, <1>2, InFlight

(* The commit-reveal gate of turn_commit.py, for any number of turns and   *)
(* retries and any board: no plaintext action travels before both peers    *)
(* hold the other's commitment to the same turn.                           *)
THEOREM Gate == Spec => []BothLocked
<1>1. IInv => BothLocked
  BY InboundInFlight DEF BothLocked, Lasting
<1> QED
  BY <1>1, Invariance, PTL

(* Everything on the wire is backed by a ledger entry already on disk.     *)
THEOREM WireBacked == Spec => []WireMatchesLedger
<1>1. IInv => WireMatchesLedger
  <2> SUFFICES ASSUME IInv, NEW p \in Peer, NEW m \in Inbound(Other(p))
               PROVE  /\ m.type \in {"commit", "reveal"} => m.turn < Len(ledger[p])
                      /\ m.type = "commit" => m.seal = ledger[p][m.turn + 1]
                      /\ m.type = "reveal" => m.act = ledger[p][m.turn + 1].act
                      /\ m.type = "ack" => /\ Held(p, m.turn)
                                           /\ m.seal = ledger[Other(p)][m.turn + 1]
    BY DEF WireMatchesLedger
  <2>1. Lasting(p, m)
    BY InboundInFlight, OtherFacts
  <2> QED
    BY <2>1 DEF Lasting, L, Msg
<1> QED
  BY <1>1, Invariance, PTL

(* Both boards move by the sealed actions and nothing else.                *)
THEOREM Resolution == Spec => []ResolvesSealedActions
<1>1. IInv => ResolvesSealedActions
  <2> SUFFICES ASSUME IInv, NEW p \in Peer, NEW i \in 1 .. Len(hist[p])
               PROVE  /\ \A q \in Peer : i <= Len(ledger[q])
                      /\ hist[p][i] = <<ledger["police"][i].act, ledger["thief"][i].act>>
    BY DEF ResolvesSealedActions
  <2>1. \A q \in Peer : N(q) \in Nat /\ L(q) \in Nat
    BY Lengths DEF IInv
  <2>2. \A q \in Peer : N(p) <= L(q)
    BY <2>1 DEF IInv, Counting, Peer
  <2> QED
    BY <2>1, <2>2 DEF IInv, Binding, N, L
<1> QED
  BY <1>1, Invariance, PTL

(* The two peers agree on the game without a referee: the police's history *)
(* is the thief's, at most one joint turn behind.                          *)
THEOREM NoDivergence == Spec => []Agreement
<1>1. IInv => Agreement
  <2> SUFFICES ASSUME IInv PROVE Agreement
    OBVIOUS
  <2>1. /\ N("police") \in Nat /\ N("thief") \in Nat
        /\ hist["police"] \in Seq(JointTurns) /\ hist["thief"] \in Seq(JointTurns)
    BY Lengths DEF IInv, Peer
  <2>2. N("thief") \in {N("police"), N("police") + 1}
    BY <2>1 DEF IInv, Counting
  <2>3. \A i \in 1 .. N("police") : hist["police"][i] = hist["thief"][i]
    <3>1. \A i \in 1 .. N("police") : i \in 1 .. N("thief")
      BY <2>1, <2>2
    <3>2. \A p \in Peer : \A i \in 1 .. N(p) :
            hist[p][i] = <<ledger["police"][i].act, ledger["thief"][i].act>>
      BY DEF IInv, Binding
    <3> QED
      BY <3>1, <3>2 DEF Peer
  <2>4. hist["police"] = SubSeq(hist["thief"], 1, Len(hist["police"]))
    <3>1. PICK s : s = SubSeq(hist["thief"], 1, N("police"))
      OBVIOUS
    <3>2. /\ s \in Seq(JointTurns) /\ Len(s) = N("police")
          /\ \A i \in 1 .. N("police") : s[i] = hist["thief"][i]
      BY <2>1, <2>2, <3>1, SubSeqProperties DEF N
    <3> QED
      BY <2>1, <2>3, <3>1, <3>2, SeqEqual DEF N
  <2> QED
    BY <2>2, <2>4 DEF Agreement, N
<1> QED
  BY <1>1, Invariance, PTL

-----------------------------------------------------------------------------
(* What a step of the turn loop adds to a log.                             *)

NewRecord(p, r) ==
  \/ /\ pc[p] \in Sending /\ r = Record("sent", Outgoing(p).turn, Outgoing(p))
     /\ tries' = [tries EXCEPT ![p] = 0] /\ Enqueue(p) /\ Proceed(p)
  \/ /\ pc[p] \in Waiting /\ inbox[p] # <<>>
     /\ r = Record("received", N(p), Head(inbox[p]))
     /\ r.msg.type \in {"commit", "reveal"}

LEMMA NewRecords ==
  ASSUME TypeOK, [Next]_vars, NEW p \in Peer, NEW r \in log'[p]
  PROVE  r \in log[p] \/ NewRecord(p, r)
<1> SUFFICES ASSUME r \notin log[p] PROVE NewRecord(p, r)
  OBVIOUS
<1>1. PICK q \in Peer : Step(q) \/ Fault(q)
  BY DEF Next, vars, Terminated
<1>2. CASE PushAnswered(q)
  BY <1>2 DEF PushAnswered, NewRecord, TypeOK
<1>3. CASE Decide \/ PushRefused(q) \/ WaitExpires(q) \/ Fault(q)
  BY <1>3 DEF Decide, PushRefused, WaitExpires, Expire, Fault, PushUnanswered,
     PushLost, WaitExpiresEarly, Crash
<1>4. CASE Receive(q)
  <2>1. PICK m : m = Head(inbox[q]) /\ inbox[q] # <<>>
    BY <1>4 DEF Receive
  <2>2. \/ /\ Received(q, m) /\ pc[q] \in Waiting /\ m.type \in {"commit", "reveal"}
        \/ log' = log
    BY <1>4, <2>1 DEF Receive, TakeCommit, CaptureEarlyAck, TakeMatchingAck, AcceptAck,
       AcceptCommit, TakeReveal, DropJitter, Waiting
  <2>3. Received(q, m)
    BY <2>2
  <2>4. p = q /\ r = Record("received", N(q), m)
    <3>1. log \in [Peer -> SUBSET Records]
      BY DEF TypeOK
    <3> QED
      BY <2>3, <3>1 DEF Received, N
  <2>5. r.msg = m
    BY <2>4 DEF Record
  <2> QED
    BY <2>1, <2>2, <2>3, <2>4, <2>5 DEF NewRecord
<1> QED
  BY <1>1, <1>2, <1>3, <1>4 DEF Step

(* The turn loop puts no declaration of the opponent on record.            *)
NothingDeclared ==
  \A p \in Peer : \A r \in log[p] : r.dir = "received" => r.msg.type # "game_over"

(* An honest opponent's ledger always matches the evidence kept of it.     *)
THEOREM SoundEvidence == Spec => []EvidenceMatchesLedger
<1>1. Init => NothingDeclared
  BY DEF Init, NothingDeclared
<1>2. NothingDeclared /\ IInv /\ [Next]_vars => NothingDeclared'
  BY NewRecords DEF NothingDeclared, NewRecord, Record, IInv
<1>3. NothingDeclared /\ IInv => EvidenceMatchesLedger
  BY DEF NothingDeclared, IInv, Evidence, EvidenceMatchesLedger, L
<1> QED
  BY <1>1, <1>2, <1>3, Invariance, PTL DEF Spec

(* An action its owner chose legally is never rejected by the opponent.    *)
THEOREM FairValidation == Spec => []NoFalseRejection
<1>1. IInv => NoFalseRejection
  BY DEF IInv
<1> QED
  BY <1>1, Invariance, PTL

-----------------------------------------------------------------------------
(* Refinement.                                                             *)

(* The sealed actions of the present turn, as the mapping sees them.       *)
LEMMA SealedFacts ==
  ASSUME IInv, NEW p \in Peer
  PROVE  /\ N("thief") \in Nat /\ L(p) \in Nat /\ N("thief") <= L(p)
         /\ L(p) > N("thief") =>
              SealedNow(p) = ledger[p][N("thief") + 1].act /\ SealedNow(p) \in Act
         /\ ~(L(p) > N("thief")) => SealedNow(p) = NoAct
<1>1. N("thief") \in Nat /\ L(p) \in Nat /\ N("thief") <= L(p)
  BY Lengths DEF IInv, Counting, Peer
<1>2. ASSUME L(p) > N("thief")
      PROVE  SealedNow(p) = ledger[p][N("thief") + 1].act /\ SealedNow(p) \in Act
  <2>1. N("thief") + 1 \in 1 .. L(p)
    BY <1>1, <1>2
  <2> QED
    BY <1>2, <2>1 DEF SealedNow, IInv, LedgerShape, L, N
<1>3. ~(L(p) > N("thief")) => SealedNow(p) = NoAct
  BY DEF SealedNow, L, N
<1> QED
  BY <1>1, <1>2, <1>3

(* A game that is still open on a board is open in the abstract game.      *)
LEMMA OpenFacts ==
  ASSUME IInv, BoardOutcome(hist["thief"]) = "none"
  PROVE  Joint!Open
<1>1. Len(hist["thief"]) \in Nat /\ SurvivalTurn \in Nat
  BY Lengths, TurnBound DEF IInv, N, Peer
<1>2. ~Capture(hist["thief"]) /\ ~(Len(hist["thief"]) >= SurvivalTurn)
  BY DEF BoardOutcome
<1> QED
  BY <1>1, <1>2 DEF Joint!Open

LEMMA InitRefines == Init => Joint!GameInit
<1> SUFFICES ASSUME Init PROVE Joint!GameInit
  OBVIOUS
<1>1. IInv
  BY InitInv
<1>2. hist["thief"] = <<>> /\ hist["police"] = <<>> /\ \A p \in Peer : ledger[p] = <<>>
  BY DEF Init, Peer
<1>3. \A p \in Peer : SealedNow(p) = NoAct
  BY <1>2 DEF SealedNow
<1> QED
  BY <1>2, <1>3 DEF Joint!GameInit, Joint!Sides, Peer

(* Steps that neither seal nor resolve are not seen.                       *)
LEMMA UnseenByJointGame ==
  ASSUME UNCHANGED <<ledger, hist>>
  PROVE  UNCHANGED Joint!gameVars
BY DEF Joint!gameVars, SealedNow

(* Sealing an action is the choice of the abstract game.                   *)
LEMMA SealRefines ==
  ASSUME IInv, IInv', NEW p \in Peer, NEW a, Sealing(p, a), N("police") = N("thief")
  PROVE  Joint!Choose(p)
<1>1. PICK k \in Nat : k = N("thief")
  BY Lengths DEF IInv, Peer
<1>2. /\ \A q \in Peer : q # p => ledger'[q] = ledger[q]
      /\ L(p) = k /\ L(p)' = k + 1 /\ N(p) = k
      /\ ledger'[p][k + 1] = Seal(p, k, a)
  BY <1>1, SealFacts DEF Peer
<1>3. hist' = hist /\ a \in Act /\ Legal(hist[p], p, a) /\ N("thief")' = k
  BY <1>1 DEF Sealing, CommitOwn, N
<1>4. hist[p] = hist["thief"]
  BY <1>1, <1>2, SameHistory DEF IInv, Peer
<1>5. Joint!Open
  <2>1. Active(p) /\ pc[p] \notin Behind
    BY DEF Sealing, Active, Ended, Behind
  <2>2. BoardOutcome(hist[p]) = "none"
    BY <2>1 DEF IInv, StillOpen
  <2> QED
    BY <1>4, <2>2, OpenFacts
<1>6. SealedNow(p) = NoAct /\ SealedNow(p)' = a
  <2>1. SealedNow(p) = NoAct
    BY <1>1, <1>2, SealedFacts
  <2>2. SealedNow(p)' = ledger'[p][k + 1].act
    <3>1. Len(ledger'[p]) = k + 1 /\ Len(hist'["thief"]) = k
      BY <1>2, <1>3 DEF L, N
    <3> QED
      BY <3>1 DEF SealedNow
  <2>3. Seal(p, k, a).act = a
    BY DEF Seal
  <2> QED
    BY <1>2, <2>1, <2>2, <2>3
<1>7. \A q \in Peer : q # p => SealedNow(q)' = SealedNow(q)
  <2>1. \A q \in Peer : q # p => ledger'[q] = ledger[q]
    BY <1>2
  <2>2. hist' = hist
    BY <1>3
  <2> QED
    BY <2>1, <2>2 DEF SealedNow
<1>8. [q \in Peer |-> SealedNow(q)]' = [[q \in Peer |-> SealedNow(q)] EXCEPT ![p] = a]
  BY <1>6, <1>7
<1>9. Len(hist["police"]) = Len(hist["thief"])
  BY DEF N
<1> QED
  BY <1>3, <1>4, <1>5, <1>6, <1>8, <1>9 DEF Joint!Choose

(* The thief's resolution plays the turn, the police's lets it learn it.   *)
LEMMA RevealRefines ==
  ASSUME IInv, IInv', NEW p \in Peer, inbox[p] # <<>>, NEW m, m = Head(inbox[p]),
         TakeReveal(p, m)
  PROVE  Joint!Play \/ Joint!Learn
<1>1. PICK k \in Nat : k = N(p)
  BY Lengths DEF IInv
<1>2. ledger' = ledger
  BY DEF TakeReveal
<1>3. CASE p = "thief"
  <2>1. /\ N("police") = k /\ N("thief") = k /\ N(p)' = k + 1 /\ L("thief") = k + 1
        /\ hist'["thief"][k + 1] = <<ledger["police"][k + 1].act, ledger["thief"][k + 1].act>>
        /\ \A i \in 1 .. k : hist'["thief"][i] = hist["thief"][i]
        /\ hist'["police"] = hist["police"] /\ L("police") = k + 1
    BY <1>1, <1>3, RevealFacts DEF Other
  <2>2. /\ SealedNow("police") = ledger["police"][k + 1].act /\ SealedNow("police") \in Act
        /\ SealedNow("thief") = ledger["thief"][k + 1].act /\ SealedNow("thief") \in Act
    BY <2>1, SealedFacts DEF Peer
  <2>3. hist["thief"] \in Seq(JointTurns) /\ hist'["thief"] \in Seq(JointTurns)
    BY DEF IInv, TypeOK, Peer
  <2>4. hist'["thief"] = Append(hist["thief"], <<SealedNow("police"), SealedNow("thief")>>)
    <3>1. PICK e \in JointTurns : e = <<SealedNow("police"), SealedNow("thief")>>
      <4>1. \A a, b \in Act : <<a, b>> \in JointTurns
        BY DEF JointTurns
      <4> QED
        BY <2>2, <4>1
    <3>2. PICK h : h = Append(hist["thief"], e)
      OBVIOUS
    <3>3. /\ h \in Seq(JointTurns) /\ Len(h) = k + 1 /\ h[k + 1] = e
          /\ \A i \in 1 .. k : h[i] = hist["thief"][i]
      <4>1. Len(hist["thief"]) = k
        BY <2>1 DEF N
      <4> QED
        BY <2>3, <3>1, <3>2, <4>1, AppendFacts
    <3>4. Len(hist'["thief"]) = Len(h)
      BY <1>3, <2>1, <3>3 DEF N
    <3>5. \A i \in 1 .. Len(h) : hist'["thief"][i] = h[i]
      <4>1. hist'["thief"][k + 1] = e
        BY <2>1, <2>2, <3>1
      <4>2. \A i \in 1 .. Len(h) : i \in 1 .. k \/ i = k + 1
        BY <3>3
      <4> QED
        BY <2>1, <3>3, <4>1, <4>2
    <3> QED
      BY <2>3, <3>1, <3>2, <3>3, <3>4, <3>5, SeqEqual
  <2>5. \A q \in Peer : SealedNow(q)' = NoAct
    BY <1>2, <1>3, <2>1 DEF SealedNow, L, N, Peer
  <2>6. Joint!Open
    <3>1. Active(p) /\ pc[p] \notin Behind
      BY DEF TakeReveal, Active, Ended, Behind
    <3> QED
      BY <1>3, <3>1, OpenFacts DEF IInv, StillOpen
  <2>7. SealedNow("police") # NoAct /\ SealedNow("thief") # NoAct
    BY <2>2, NoActNotAct
  <2>8. Len(hist["police"]) = Len(hist["thief"]) /\ Len(hist'["police"]) = Len(hist["police"])
    BY <2>1 DEF N
  <2> QED
    BY <2>4, <2>5, <2>6, <2>7, <2>8 DEF Joint!Play, Joint!Sides, Peer
<1>4. CASE p = "police"
  <2>1. /\ N("thief") = k + 1 /\ N("police") = k /\ N("police")' = k + 1
        /\ hist'["thief"] = hist["thief"]
    BY <1>1, <1>4, RevealFacts DEF Other
  <2>2. \A q \in Peer : SealedNow(q)' = SealedNow(q)
    BY <1>2, <2>1 DEF SealedNow
  <2> QED
    BY <2>1, <2>2 DEF Joint!Learn, N
<1> QED
  BY <1>3, <1>4 DEF Peer

(* Every step of the peers is a step of the game, or is not seen by it.    *)
LEMMA StepRefines == IInv /\ IInv' /\ [Next]_vars => [Joint!GameNext]_(Joint!gameVars)
<1> SUFFICES ASSUME IInv, IInv', [Next]_vars
             PROVE  Joint!GameNext \/ UNCHANGED Joint!gameVars
  OBVIOUS
<1>1. ASSUME NEW p \in Peer, NEW a, Sealing(p, a), N("police") = N("thief")
      PROVE  Joint!GameNext
  <2>1. Joint!Choose(p)
    BY <1>1, SealRefines
  <2> QED
    BY <2>1 DEF Joint!GameNext, Joint!Sides, Peer
<1>2. ASSUME NEW p \in Peer, Receive(p)
      PROVE  Joint!GameNext \/ UNCHANGED Joint!gameVars
  <2>1. PICK m : m = Head(inbox[p])
    OBVIOUS
  <2>2. CASE p = "thief" /\ TakeCommit(m)
    <3>1. N("police") = N("thief") /\ \E a \in Act : Sealing("thief", a)
      BY <1>2, <2>1, <2>2, TakeCommitSeals DEF Receive
    <3> QED
      BY <1>1, <2>2, <3>1
  <2>3. CASE TakeReveal(p, m)
    <3>1. Joint!Play \/ Joint!Learn
      BY <1>2, <2>1, <2>3, RevealRefines DEF Receive
    <3> QED
      BY <3>1 DEF Joint!GameNext
  <2>4. CASE \/ CaptureEarlyAck(m) \/ TakeMatchingAck(m)
             \/ AcceptAck(m) \/ AcceptCommit(m) \/ DropJitter(p, m)
    <3>1. UNCHANGED <<ledger, hist>>
      BY <2>4 DEF CaptureEarlyAck, TakeMatchingAck, AcceptAck, AcceptCommit, DropJitter
    <3> QED
      BY <3>1, UnseenByJointGame
  <2> QED
    BY <1>2, <2>1, <2>2, <2>3, <2>4 DEF Receive
<1>3. CASE \E p \in Peer : Step(p) \/ Fault(p)
  <2>1. PICK p \in Peer : Step(p) \/ Fault(p)
    BY <1>3
  <2>2. CASE p = "police" /\ Decide
    BY <1>1, <2>2, DecideSeals
  <2>3. CASE Receive(p)
    BY <1>2, <2>3
  <2>4. CASE \/ PushAnswered(p) \/ PushRefused(p) \/ WaitExpires(p) \/ Fault(p)
    <3>1. UNCHANGED <<ledger, hist>>
      BY <2>4 DEF PushAnswered, PushRefused, WaitExpires, Fault, PushUnanswered,
           PushLost, WaitExpiresEarly, Crash, Expire
    <3> QED
      BY <3>1, UnseenByJointGame
  <2> QED
    BY <2>1, <2>2, <2>3, <2>4 DEF Step
<1>4. CASE UNCHANGED vars
  BY <1>4, UnseenByJointGame DEF vars
<1> QED
  BY <1>3, <1>4 DEF Next, Terminated

(* The exchange of messages implements the game of simultaneous sealed     *)
(* choices: the promise of turn_commit.py to a peer that trusts nobody.    *)
THEOREM Implements == Spec => ImplementsJointGame
<1>1. Init => Joint!GameInit
  BY InitRefines
<1>2. IInv /\ IInv' /\ [Next]_vars => [Joint!GameNext]_(Joint!gameVars)
  BY StepRefines
<1> QED
  BY <1>1, <1>2, Invariance, PTL DEF Spec, ImplementsJointGame, Joint!Spec

-----------------------------------------------------------------------------
(* The steps of a turn loop, by what they do.                              *)

Quietly(p) ==
  /\ \E x \in PC : Quiet(p, x)
  /\ UNCHANGED inbox \/ (pc[p] \in Sending /\ Enqueue(p))

SealsOne(p) ==
  /\ N("police") = N("thief") /\ \E a \in Act : Sealing(p, a)
  /\ UNCHANGED inbox \/ (inbox[p] # <<>> /\ Take(p))
  /\ UNCHANGED outcome

ReadsOn(p) ==
  /\ \E x \in PC : Reads(p, x)
  /\ pc[p] = "wait_reveal" => Head(inbox[p]).type # "reveal"
  /\ UNCHANGED outcome

Resolves(p) == inbox[p] # <<>> /\ TakeReveal(p, Head(inbox[p]))

LoopStep(p) == Quietly(p) \/ SealsOne(p) \/ ReadsOn(p) \/ Resolves(p)

LEMMA ReceiveKinds ==
  ASSUME IInv, NEW p \in Peer, Receive(p)
  PROVE  SealsOne(p) \/ ReadsOn(p) \/ Resolves(p)
<1> PICK m : m = Head(inbox[p])
  OBVIOUS
<1>0. /\ inbox[p] # <<>> /\ pc \in [Peer -> PC] /\ pc[p] \in PC
      /\ ackd \in [Peer -> BOOLEAN] /\ oppCommit \in [Peer -> Seals]
      /\ "police" \in Peer /\ "thief" \in Peer
  BY DEF Receive, IInv, TypeOK, Peer
<1>1. CASE p = "thief" /\ TakeCommit(m)
  BY <1>0, <1>1, TakeCommitSeals DEF SealsOne, TakeCommit
<1>2. CASE p = "thief" /\ CaptureEarlyAck(m)
  <2>1. pc' = [pc EXCEPT ![p] = pc[p]] /\ pc[p] = "wait_reveal" /\ m.type = "ack"
    BY <1>0, <1>2 DEF CaptureEarlyAck
  <2>2. Reads(p, pc[p])
    BY <1>0, <1>2, <2>1 DEF CaptureEarlyAck, Reads, Waiting
  <2> QED
    BY <1>0, <1>2, <2>1, <2>2 DEF CaptureEarlyAck, ReadsOn
<1>3. CASE p = "thief" /\ TakeMatchingAck(m)
  <2>1. "send_reveal" \in PC /\ pc[p] = "wait_ack"
    BY <1>3 DEF TakeMatchingAck, PC, Sending
  <2>2. Reads(p, "send_reveal")
    BY <1>0, <1>3, <2>1 DEF TakeMatchingAck, Reads, Waiting
  <2> QED
    BY <1>3, <2>1, <2>2 DEF TakeMatchingAck, ReadsOn
<1>4. CASE p = "police" /\ AcceptAck(m)
  <2> DEFINE x == IF oppCommit[p] # NoSeal THEN "send_reveal" ELSE pc[p]
  <2>1. x \in PC /\ pc[p] = "wait_ack_commit" /\ pc' = [pc EXCEPT ![p] = x]
    BY <1>4 DEF AcceptAck, PC, Sending, Waiting
  <2>2. Reads(p, x)
    BY <1>0, <1>4, <2>1 DEF AcceptAck, Reads, Waiting
  <2> QED
    BY <1>4, <2>1, <2>2 DEF AcceptAck, ReadsOn
<1>5. CASE p = "police" /\ AcceptCommit(m)
  <2>1. "send_ack" \in PC /\ pc[p] = "wait_ack_commit"
    BY <1>5 DEF AcceptCommit, PC, Sending
  <2>2. \A q \in Peer : log[q] \subseteq log'[q]
    BY <1>5 DEF AcceptCommit, Received, IInv, TypeOK
  <2>3. Reads(p, "send_ack")
    BY <1>0, <1>5, <2>1, <2>2 DEF AcceptCommit, Reads, Waiting
  <2> QED
    BY <1>5, <2>1, <2>3 DEF AcceptCommit, ReadsOn
<1>6. CASE TakeReveal(p, m)
  BY <1>0, <1>6 DEF Resolves
<1>7. CASE DropJitter(p, m)
  <2>1. pc' = [pc EXCEPT ![p] = pc[p]]
    BY <1>0, <1>7 DEF DropJitter
  <2>2. p = "thief" /\ pc[p] # "wait_reveal" => ~ackd[p]
    BY <1>7 DEF DropJitter, IInv, Standing, Active, Ended, Waiting
  <2>3. Reads(p, pc[p])
    BY <1>0, <1>7, <2>1, <2>2 DEF DropJitter, Reads
  <2>4. pc[p] = "wait_reveal" => m.type # "reveal"
    BY <1>7 DEF DropJitter, Wanted
  <2> QED
    BY <1>0, <1>7, <2>3, <2>4 DEF DropJitter, ReadsOn
<1> QED
  BY <1>1, <1>2, <1>3, <1>4, <1>5, <1>6, <1>7 DEF Receive

LEMMA LoopSteps ==
  ASSUME IInv, NEW p \in Peer, Step(p) \/ Fault(p)
  PROVE  LoopStep(p)
<1>1. CASE \/ PushAnswered(p) \/ PushRefused(p)
           \/ PushUnanswered(p) \/ PushLost(p)
  BY <1>1, PushQuiet DEF LoopStep, Quietly
<1>2. CASE WaitExpires(p) \/ WaitExpiresEarly(p) \/ Crash(p)
  BY <1>2, SilenceQuiet DEF LoopStep, Quietly
<1>3. CASE p = "police" /\ Decide
  BY <1>3, DecideSeals DEF LoopStep, SealsOne, Decide
<1>4. CASE Receive(p)
  BY <1>4, ReceiveKinds DEF LoopStep
<1> QED
  BY <1>1, <1>2, <1>3, <1>4 DEF Step, Fault

(* Ledgers, logs and histories only grow, and nobody steps back.           *)
LEMMA StepGrows ==
  ASSUME IInv, TypeOK', NEW p \in Peer, LoopStep(p)
  PROVE  Grows /\ Advances
<1>1. CASE Quietly(p)
  BY <1>1, QuietGrows, QuietAdvances DEF Quietly
<1>2. CASE SealsOne(p)
  BY <1>2, SealFacts DEF SealsOne
<1>3. CASE ReadsOn(p)
  <2>1. PICK x \in PC : Reads(p, x)
    BY <1>3 DEF ReadsOn
  <2>2. \A q \in Peer : N(q) \in Nat /\ L(q) \in Nat
    BY Lengths DEF IInv
  <2>3. Grows
    BY <2>1, <2>2 DEF Reads, Grows, L
  <2>4. \A q \in Peer : N(q)' = N(q)
    BY <2>1 DEF Reads, N
  <2>5. pc["police"] \in Revealed => pc'["police"] = pc["police"]
    BY <2>1 DEF Reads, Revealed, Ended, Waiting, IInv, TypeOK
  <2> QED
    BY <2>2, <2>3, <2>4, <2>5 DEF Advances
<1>4. CASE Resolves(p)
  <2> DEFINE m == Head(inbox[p])  q == Other(p)
  <2>1. inbox[p] # <<>> /\ TakeReveal(p, m) /\ m.type = "reveal"
    BY <1>4 DEF Resolves, TakeReveal
  <2>2. q \in Peer /\ q # p /\ N(q) \in Nat /\ L(q) \in Nat /\ L(p) \in Nat
    BY OtherFacts, Lengths DEF IInv
  <2>3. /\ N(p) \in Nat /\ N(p)' = N(p) + 1 /\ N(q)' = N(q) /\ pc'[q] = pc[q]
    BY <2>1, RevealFacts DEF N
  <2>4. Received(p, m) /\ ledger' = ledger
    BY <2>1, RevealAccepted DEF TakeReveal
  <2>5. Grows
    BY <2>2, <2>4 DEF Grows, L, Received, IInv, TypeOK
  <2>6. \A o \in Peer : o = p \/ o = q
    BY <2>2 DEF Peer
  <2>7. Advances
    BY <2>2, <2>3, <2>6 DEF Advances, Peer
  <2> QED
    BY <2>5, <2>7
<1> QED
  BY <1>1, <1>2, <1>3, <1>4 DEF LoopStep

(* An inbox holds what it held, or what the opponent sends.                *)
LEMMA StepInbox ==
  ASSUME IInv, NEW p \in Peer, LoopStep(p), NEW q \in Peer, NEW i \in 1 .. Len(inbox'[q])
  PROVE  \/ \E j \in 1 .. Len(inbox[q]) : inbox'[q][i] = inbox[q][j]
         \/ q = Other(p) /\ pc[p] \in Sending /\ inbox'[q][i] = Outgoing(p)
<1>0. inbox \in [Peer -> Seq(Messages)] /\ inbox[q] \in Seq(Messages) /\ Len(inbox[q]) \in Nat
  BY Lengths DEF IInv, TypeOK
<1>1. CASE UNCHANGED inbox
  BY <1>1
<1>2. CASE pc[p] \in Sending /\ Enqueue(p)
  <2>1. CASE q = Other(p)
    <3>1. inbox'[q] = Append(inbox[q], Outgoing(p))
      BY <1>0, <1>2, <2>1 DEF Enqueue
    <3>2. Outgoing(p) \in Messages
      BY OutgoingType DEF IInv
    <3> QED
      BY <1>0, <1>2, <2>1, <3>1, <3>2, AppendFacts
  <2>2. CASE q # Other(p)
    BY <1>0, <1>2, <2>2 DEF Enqueue
  <2> QED
    BY <2>1, <2>2
<1>3. CASE inbox[p] # <<>> /\ Take(p)
  BY <1>3, TakeEntries
<1>4. CASE Resolves(p)
  <2>1. inbox[p] # <<>> /\ inbox' = [inbox EXCEPT ![p] = Drained(Tail(inbox[p]))]
    BY <1>4 DEF Resolves, TakeReveal
  <2> QED
    BY <1>0, <2>1, DrainedEntries
<1> QED
  BY <1>1, <1>2, <1>3, <1>4 DEF LoopStep, Quietly, SealsOne, ReadsOn, Reads

-----------------------------------------------------------------------------
(* How an outcome comes about.                                             *)

(* The loop of p goes on, or dies, or has ended before...                  *)
NoOutcome(p) ==
  /\ UNCHANGED outcome
  /\ Active(p) => pc'[p] \notin Ended \/ pc'[p] = "gone"
  /\ ~Active(p) => /\ pc'[p] \in Ended /\ (pc'[p] = "declare" => pc[p] = "declare")
                   /\ pc[p] = "gone" => pc'[p] = "gone"

(* ... or ends now.                                                        *)
NewOutcome(p) ==
  /\ Active(p) /\ pc'[p] \in {"declare", "publish"} /\ outcome'[p] # "none"
  /\ \A q \in Peer : q # p => outcome'[q] = outcome[q]
  /\ outcome'[p] \in BoardOutcomes =>
       /\ outcome'[p] = BoardOutcome(hist'[p])
       /\ p = "police" \/ pc[p] \in {"send_reveal", "send_hint"}
  /\ pc'[p] = "declare" => outcome'[p] = "capture"

LEMMA FinishTells ==
  ASSUME IInv, NEW p \in Peer, NEW o, NEW s, Finish(p, o, s), Active(p), o # "none",
         o \in BoardOutcomes =>
           o = BoardOutcome(hist'[p]) /\ (p = "police" \/ pc[p] \in {"send_reveal", "send_hint"})
  PROVE  NewOutcome(p)
BY DEF Finish, NewOutcome, IInv, TypeOK

LEMMA LossTells ==
  ASSUME IInv, NEW p \in Peer, NEW c, TechnicalLoss(p, c), Active(p)
  PROVE  NewOutcome(p) /\ outcome'[p] = "technical_loss"
<1>1. Finish(p, "technical_loss", Attempt(machine[p], "game_over"))
  BY DEF TechnicalLoss
<1>2. outcome'[p] = "technical_loss"
  BY <1>1 DEF Finish, IInv, TypeOK
<1> QED
  BY <1>1, <1>2, FinishTells DEF BoardOutcomes

LEMMA ProceedTells ==
  ASSUME IInv, NEW p \in Peer, pc[p] \in Sending, Proceed(p), UNCHANGED hist
  PROVE  NoOutcome(p) \/ NewOutcome(p)
<1>0. pc \in [Peer -> PC]
  BY DEF IInv, TypeOK
<1>1. ASSUME NEW x, Goto(p, x), Active(p) => x \notin Ended,
             ~Active(p) => x \in Ended \ {"declare"}, pc[p] # "gone"
      PROVE  NoOutcome(p)
  BY <1>0, <1>1 DEF Goto, NoOutcome
<1>2. CASE pc[p] \in {"send_commit", "send_ack", "declare", "publish"}
  BY <1>1, <1>2 DEF Proceed, Active, Ended
<1>3. CASE pc[p] = "send_reveal" /\ SendsHint(p)
  BY <1>1, <1>3 DEF Proceed, Active, Ended
<1>4. CASE pc[p] \in {"send_reveal", "send_hint"} /\ EndOfMyTurn(p)
  <2>1. Active(p) /\ pc[p] # "gone"
    BY <1>4 DEF Active, Ended
  <2>2. CASE p = "police"
    BY <1>0, <1>4, <2>1, <2>2 DEF EndOfMyTurn, NoOutcome, Ended
  <2>3. CASE p = "thief" /\ BoardOutcome(hist[p]) # "none"
    BY <1>4, <2>1, <2>3, FinishTells DEF EndOfMyTurn
  <2>4. CASE p = "thief" /\ BoardOutcome(hist[p]) = "none"
    BY <1>0, <1>4, <2>1, <2>4 DEF EndOfMyTurn, NoOutcome, Ended
  <2> QED
    BY <2>2, <2>3, <2>4 DEF Peer
<1> QED
  BY <1>2, <1>3, <1>4 DEF Proceed, Sending

LEMMA PushTells ==
  ASSUME IInv, NEW p \in Peer,
         PushAnswered(p) \/ PushUnanswered(p) \/ PushLost(p) \/ PushRefused(p)
  PROVE  /\ NoOutcome(p) \/ NewOutcome(p)
         /\ \/ PushAnswered(p) \/ pc[p] \in BestEffort \/ pc'[p] = pc[p]
            \/ pc'[p] \in Ended /\ outcome'[p] = "technical_loss"
<1>0. /\ pc[p] \in Sending /\ UNCHANGED hist
      /\ (Proceed(p) /\ PushAnswered(p)) \/ AttemptFailed(p)
  BY DEF PushAnswered, PushUnanswered, PushLost, PushRefused
<1>1. CASE Proceed(p) /\ (PushAnswered(p) \/ pc[p] \in BestEffort)
  BY <1>0, <1>1, ProceedTells
<1>2. CASE UNCHANGED <<pc, outcome>>
  BY <1>2 DEF NoOutcome, Active, IInv, TypeOK
<1>3. CASE TechnicalLoss(p, "opponent_unresponsive") /\ pc[p] \notin BestEffort
  <2>1. Active(p)
    BY <1>0, <1>3 DEF Active, Ended, Sending, BestEffort
  <2> QED
    BY <1>3, <2>1, LossTells DEF NewOutcome, Ended
<1> QED
  BY <1>0, <1>1, <1>2, <1>3 DEF AttemptFailed

(* A protocol message is left behind only when it was answered.            *)
LEMMA Answered ==
  ASSUME IInv, Reports, NEW p \in Peer, Step(p) \/ Fault(p),
         pc[p] \in {"send_commit", "send_ack", "send_reveal"}
  PROVE  \/ PushAnswered(p)
         \/ pc'[p] = pc[p] /\ UNCHANGED outcome
         \/ pc'[p] \in Ended /\ outcome'[p] \notin BoardOutcomes
<1>1. CASE PushRefused(p) \/ PushUnanswered(p) \/ PushLost(p)
  <2>1. pc[p] \notin BestEffort /\ Active(p)
    BY DEF BestEffort, Active, Ended
  <2>2. \/ UNCHANGED <<pc, outcome>>
        \/ TechnicalLoss(p, "opponent_unresponsive")
    BY <1>1, <2>1 DEF PushRefused, PushUnanswered, PushLost, AttemptFailed
  <2> QED
    BY <2>1, <2>2, LossTells DEF NewOutcome, Ended, BoardOutcomes
<1>2. CASE Crash(p)
  <2>1. outcome' = outcome /\ outcome[p] = "none"
    BY <1>2 DEF Crash, Reports, Active, Ended
  <2>2. pc'[p] \in Ended
    BY <1>2 DEF Crash, Ended, IInv, TypeOK
  <2> QED
    BY <2>1, <2>2 DEF BoardOutcomes
<1> QED
  BY <1>1, <1>2 DEF Step, Fault, Decide, Receive, TakeCommit, CaptureEarlyAck,
     TakeMatchingAck, AcceptAck, AcceptCommit, TakeReveal, DropJitter,
     WaitExpires, WaitExpiresEarly, Expire, Waiting

(* The outcome of p comes from a step of p, at the end of its loop.        *)
LEMMA StepTells ==
  ASSUME IInv, TypeOK', NEW p \in Peer, Step(p) \/ Fault(p)
  PROVE  NoOutcome(p) \/ NewOutcome(p)
<1>0. pc \in [Peer -> PC]
  BY DEF IInv, TypeOK
<1>1. CASE \/ PushAnswered(p) \/ PushRefused(p)
           \/ PushUnanswered(p) \/ PushLost(p)
  BY <1>1, PushTells
<1>2. CASE Expire(p)
  <2>1. Active(p)
    BY <1>2 DEF Expire, Active, Waiting, Ended
  <2> QED
    BY <1>2, <2>1, LossTells DEF Expire
<1>3. CASE Crash(p)
  BY <1>0, <1>3 DEF Crash, NoOutcome, Ended
<1>4. CASE SealsOne(p)
  BY <1>0, <1>4 DEF SealsOne, Sealing, CommitOwn, NoOutcome, Active, Ended
<1>5. CASE ReadsOn(p)
  BY <1>0, <1>5 DEF ReadsOn, Reads, NoOutcome, Active, Waiting, Ended
<1>6. CASE Resolves(p)
  <2> DEFINE m == Head(inbox[p])  h == Append(hist[p], JointTurn(p, pending[p].act, m.act))
  <2>1. inbox[p] # <<>> /\ TakeReveal(p, m)
    BY <1>6 DEF Resolves
  <2>2. hist'[p] = h /\ AfterReveal(p, BoardOutcome(h)) /\ Active(p)
    <3>1. hist' = [hist EXCEPT ![p] = h] /\ AfterReveal(p, BoardOutcome(h))
      BY <2>1, RevealAccepted
    <3>2. Active(p)
      BY <2>1 DEF TakeReveal, Active, Ended
    <3> QED
      BY <3>1, <3>2 DEF IInv, TypeOK
  <2>3. CASE p = "police" /\ BoardOutcome(h) # "none"
    BY <2>2, <2>3, FinishTells DEF AfterReveal
  <2>4. CASE p = "police" /\ BoardOutcome(h) = "none"
    BY <1>0, <2>2, <2>4 DEF AfterReveal, NoOutcome, Ended
  <2>5. CASE p = "thief"
    BY <1>0, <2>2, <2>5 DEF AfterReveal, NoOutcome, Ended
  <2> QED
    BY <2>3, <2>4, <2>5 DEF Peer
<1>7. CASE Decide /\ p = "police"
  <2>1. SealsOne(p)
    BY <1>7, DecideSeals DEF SealsOne, Decide
  <2> QED
    BY <1>4, <2>1
<1>8. CASE Receive(p)
  BY <1>4, <1>5, <1>6, <1>8, ReceiveKinds
<1> QED
  BY <1>1, <1>2, <1>3, <1>7, <1>8 DEF Step, Fault, WaitExpires, WaitExpiresEarly

(* A step of p leaves the rest of the opponent's loop alone.               *)
LEMMA OthersStand ==
  ASSUME IInv, NEW p \in Peer, LoopStep(p), NEW q \in Peer, q # p
  PROVE  pc'[q] = pc[q] /\ hist'[q] = hist[q] /\ ledger'[q] = ledger[q]
<1>0. /\ pc \in [Peer -> PC] /\ hist \in [Peer -> Seq(JointTurns)]
      /\ ledger \in [Peer -> Seq(Seals)]
  BY DEF IInv, TypeOK
<1>1. CASE Quietly(p) \/ ReadsOn(p)
  BY <1>0, <1>1 DEF Quietly, Quiet, ReadsOn, Reads
<1>2. CASE SealsOne(p)
  BY <1>0, <1>2 DEF SealsOne, Sealing, CommitOwn
<1>3. CASE Resolves(p)
  <2>1. q = Other(p)
    BY DEF Other, Peer
  <2> QED
    BY <1>3, <2>1, RevealFacts DEF Resolves, TakeReveal
<1> QED
  BY <1>1, <1>2, <1>3 DEF LoopStep

(* A history that grows is that of a peer still in its loop.               *)
LEMMA HistoryMoves ==
  ASSUME IInv, NEW p \in Peer, LoopStep(p), ~Active(p)
  PROVE  hist'[p] = hist[p] /\ ledger'[p] = ledger[p]
<1>1. ~SealsOne(p) /\ ~Resolves(p)
  BY DEF SealsOne, Sealing, Resolves, TakeReveal, Active, Ended
<1> QED
  BY <1>1 DEF LoopStep, Quietly, Quiet, ReadsOn, Reads

LEMMA ReportsKept ==
  ASSUME CInv, TypeOK', NEW p \in Peer, Step(p) \/ Fault(p)
  PROVE  Reports'
<1>0. IInv /\ Reports /\ LoopStep(p)
  BY LoopSteps DEF CInv
<1> SUFFICES ASSUME NEW q \in Peer
             PROVE  /\ Active(q)' => outcome'[q] = "none"
                    /\ pc'[q] \in Ended \ {"gone"} => outcome'[q] # "none"
                    /\ outcome'[q] \in BoardOutcomes => outcome'[q] = BoardOutcome(hist'[q])
                    /\ pc'[q] = "declare" => outcome'[q] = "capture"
  BY DEF Reports, BoardOutcome
<1>1. CASE q # p
  <2>1. pc'[q] = pc[q] /\ hist'[q] = hist[q] /\ outcome'[q] = outcome[q]
    BY <1>0, <1>1, OthersStand, StepTells DEF NoOutcome, NewOutcome
  <2> QED
    BY <1>0, <2>1 DEF Reports, Active
<1>2. CASE q = p /\ NewOutcome(p)
  BY <1>2 DEF NewOutcome, Active, Ended
<1>3. CASE q = p /\ NoOutcome(p)
  <2>1. outcome'[q] = outcome[q]
    BY <1>3 DEF NoOutcome
  <2>2. CASE Active(p)
    BY <1>0, <1>3, <2>1, <2>2 DEF NoOutcome, Reports, Active, Ended, BoardOutcomes
  <2>3. CASE ~Active(p)
    <3>1. hist'[q] = hist[q]
      BY <1>0, <1>3, <2>3, HistoryMoves
    <3> QED
      BY <1>0, <1>3, <2>1, <2>3, <3>1 DEF NoOutcome, Reports, Active
  <2> QED
    BY <2>2, <2>3
<1> QED
  BY <1>0, <1>1, <1>2, <1>3, StepTells

LEMMA ClosedKept ==
  ASSUME CInv, TypeOK', NEW p \in Peer, LoopStep(p)
  PROVE  Closed'
<1> SUFFICES ASSUME NEW q \in Peer, BoardOutcome(hist'[q]) # "none"
             PROVE  L(q)' = N(q)'
  BY DEF Closed, BoardOutcome
<1>0. IInv /\ Closed
  BY DEF CInv
<1>1. CASE hist'[q] = hist[q] /\ ledger'[q] = ledger[q]
  BY <1>0, <1>1 DEF Closed, L, N
<1>2. CASE q = p /\ SealsOne(p)
  BY <1>0, <1>2 DEF SealsOne, Sealing, IInv, StillOpen, Active, Ended, Behind
<1>3. CASE q = p /\ Resolves(p)
  BY <1>0, <1>3, RevealFacts DEF Resolves, TakeReveal, L, N
<1> QED
  BY <1>0, <1>1, <1>2, <1>3, OthersStand DEF LoopStep, Quietly, Quiet, ReadsOn, Reads

-----------------------------------------------------------------------------
(* The thief's last REVEAL.                                                *)

(* An envelope stays in the police's queue until the police reads it.      *)
LEMMA QueuedGrows ==
  ASSUME IInv, NEW p \in Peer, Quietly(p), NEW type, NEW n, Queued(type, n)
  PROVE  Queued(type, n)'
<1>1. PICK i \in 1 .. Len(inbox["police"]) :
        inbox["police"][i].type = type /\ inbox["police"][i].turn = n
  BY DEF Queued
<1>2. CASE UNCHANGED inbox
  BY <1>1, <1>2 DEF Queued
<1>3. CASE pc[p] \in Sending /\ Enqueue(p)
  <2>1. "police" \in Peer /\ inbox \in [Peer -> Seq(Messages)] /\ Outgoing(p) \in Messages
    BY OutgoingType DEF IInv, TypeOK, Peer
  <2>2. inbox'["police"] \in {inbox["police"], Append(inbox["police"], Outgoing(p))}
    BY <1>3, <2>1 DEF Enqueue
  <2>3. i \in 1 .. Len(inbox'["police"]) /\ inbox'["police"][i] = inbox["police"][i]
    BY <1>1, <2>1, <2>2, AppendFacts
  <2> QED
    BY <1>1, <2>3 DEF Queued
<1> QED
  BY <1>2, <1>3 DEF Quietly

(* The call of the thief's REVEAL puts it there.                           *)
LEMMA RevealQueued ==
  ASSUME IInv, PushAnswered("thief"), pc["thief"] = "send_reveal",
         N("police") < N("thief")
  PROVE  Queued("reveal", N("police"))'
<1> DEFINE p == "thief"  q == "police"  m == Outgoing(p)
<1>1. p \in Peer /\ q \in Peer /\ Other(p) = q
  BY DEF Peer, Other
<1>2. inbox \in [Peer -> Seq(Messages)] /\ m \in Messages /\ Enqueue(p) /\ hist' = hist
  BY <1>1, OutgoingType DEF IInv, TypeOK, PushAnswered
<1>3. N(p) \in Nat /\ N(q) \in Nat /\ N(p) = N(q) + 1
  BY <1>1, Lengths DEF IInv, Counting
<1>4. m.type = "reveal"
  BY DEF Outgoing, Msg
<1>5. m.turn = N(q)
  <2>1. TurnOf(p) = N(q)
    BY <1>3 DEF TurnOf, Behind
  <2>2. Active(p) /\ pc[p] \in Sending
    BY DEF Active, Ended, Sending
  <2> QED
    BY <1>1, <2>1, <2>2, OutgoingCases
<1>6. inbox'[q] = Append(inbox[q], m)
  BY <1>1, <1>2 DEF Enqueue
<1>7. /\ Len(inbox'[q]) = Len(inbox[q]) + 1 /\ Len(inbox[q]) \in Nat
      /\ inbox'[q][Len(inbox[q]) + 1] = m
  BY <1>1, <1>2, <1>6, AppendFacts, Lengths DEF IInv
<1>8. N(q)' = N(q) /\ Len(inbox[q]) + 1 \in 1 .. Len(inbox'[q])
  BY <1>2, <1>7 DEF N
<1> QED
  BY <1>4, <1>5, <1>7, <1>8 DEF Queued

(* While the police is behind it stands before its wait for that REVEAL.   *)
LEMMA BehindStands ==
  ASSUME IInv, N("police") < N("thief"), pc["police"] \in Waiting
  PROVE  pc["police"] = "wait_reveal"
<1>1. N("police") \in Nat /\ N("thief") \in Nat
  BY Lengths DEF IInv, Peer
<1>2. ~Together
  BY <1>1 DEF IInv, Counting
<1> QED
  BY <1>2 DEF IInv, Standing, Together, Waiting

LEMMA DeliveredKept ==
  ASSUME CInv, TypeOK', NEW p \in Peer, Step(p) \/ Fault(p)
  PROVE  Delivered'
<1>0. IInv /\ Reports /\ Delivered /\ LoopStep(p) /\ "police" \in Peer /\ "thief" \in Peer
  BY LoopSteps DEF CInv, Peer
<1> DEFINE Ready == \/ pc["thief"] \in {"send_hint", "wait_commit"}
                    \/ outcome["thief"] \in BoardOutcomes
<1> SUFFICES ASSUME N("police")' < N("thief")', Ready', Active("police")'
             PROVE  Queued("reveal", N("police"))'
  BY DEF Delivered
<1>1. Active("police")
  BY <1>0, OthersStand, StepTells DEF NoOutcome, NewOutcome, Active, Ended
<1>2. CASE Quietly(p)
  <2>1. N("police")' = N("police") /\ N("thief")' = N("thief")
    BY <1>2 DEF Quietly, Quiet, N
  <2>2. CASE Ready
    BY <1>0, <1>1, <1>2, <2>1, <2>2, QueuedGrows DEF Delivered
  <2>3. CASE ~Ready
    <3>1. p = "thief"
      BY <1>0, <2>3, OthersStand, StepTells DEF NoOutcome, NewOutcome, Peer
    <3>2. CASE PushAnswered(p) /\ pc[p] = "send_reveal"
      BY <1>0, <2>1, <3>1, <3>2, RevealQueued
    <3>3. CASE ~PushAnswered(p) /\ pc[p] = "send_reveal"
      BY <1>0, <2>3, <3>1, <3>3, Answered DEF Ended
    <3>4. CASE NoOutcome(p) /\ pc[p] # "send_reveal"
      <4>1. pc'[p] \in {"send_hint", "wait_commit"} /\ pc[p] \notin {"send_hint", "wait_commit"}
        BY <2>3, <3>1, <3>4 DEF NoOutcome
      <4>2. PICK x \in PC : Quiet(p, x)
        BY <1>2 DEF Quietly
      <4>3. pc'[p] = x
        BY <4>2 DEF Quiet, IInv, TypeOK
      <4> QED
        BY <3>1, <3>4, <4>1, <4>2, <4>3 DEF Quiet, Follows, Ended
    <3>5. CASE NewOutcome(p) /\ pc[p] # "send_reveal"
      BY <2>3, <3>1, <3>5 DEF NewOutcome
    <3> QED
      BY <1>0, <3>2, <3>3, <3>4, <3>5, StepTells
  <2> QED
    BY <2>2, <2>3
<1>3. CASE SealsOne(p)
  <2>1. N("police")' = N("police") /\ N("thief")' = N("thief") /\ N("police") = N("thief")
    BY <1>3 DEF SealsOne, Sealing, N
  <2>2. N("police") \in Nat
    BY <1>0, Lengths DEF IInv
  <2> QED
    BY <2>1, <2>2
<1>4. CASE ReadsOn(p)
  <2>1. PICK x \in PC : Reads(p, x)
    BY <1>4 DEF ReadsOn
  <2>2. /\ N("police")' = N("police") /\ N("thief")' = N("thief") /\ outcome' = outcome
        /\ pc' = [pc EXCEPT ![p] = x] /\ pc \in [Peer -> PC]
    BY <1>4, <2>1 DEF ReadsOn, Reads, N, IInv, TypeOK, CInv
  <2>3. Ready
    BY <1>0, <2>1, <2>2 DEF Reads
  <2>4. PICK i \in 1 .. Len(inbox["police"]) :
          inbox["police"][i].type = "reveal" /\ inbox["police"][i].turn = N("police")
    BY <1>0, <1>1, <2>2, <2>3 DEF Delivered, Queued
  <2>5. CASE p = "thief"
    BY <1>0, <2>1, <2>2, <2>4, <2>5, TakeEntries DEF Reads, Other, Queued
  <2>6. CASE p = "police"
    <3>1. Head(inbox[p]).type # "reveal"
      BY <1>0, <1>4, <2>1, <2>2, <2>6, BehindStands DEF ReadsOn, Reads
    <3>2. /\ Head(inbox[p]) = inbox[p][1] /\ Len(inbox[p]) \in Nat
          /\ Len(inbox'[p]) = Len(inbox[p]) - 1
          /\ \A j \in 1 .. Len(inbox'[p]) : inbox'[p][j] = inbox[p][j + 1]
      BY <1>0, <2>1, TakeEntries DEF Reads
    <3>3. i # 1
      BY <2>4, <2>6, <3>1, <3>2
    <3>4. i - 1 \in 1 .. Len(inbox'[p]) /\ inbox'[p][i - 1] = inbox[p][i]
      BY <2>4, <2>6, <3>2, <3>3
    <3> QED
      BY <2>2, <2>4, <2>6, <3>4 DEF Queued
  <2> QED
    BY <2>5, <2>6 DEF Peer
<1>5. CASE Resolves(p)
  <2> DEFINE m == Head(inbox[p])
  <2>1. TakeReveal(p, m) /\ inbox[p] # <<>>
    BY <1>5 DEF Resolves
  <2>2. \A q \in Peer : N(q) \in Nat
    BY <1>0, Lengths DEF IInv
  <2>3. CASE p = "police"
    BY <1>0, <2>1, <2>2, <2>3, RevealFacts DEF Other, N
  <2>4. CASE p = "thief"
    <3>1. pc'[p] \in {"send_reveal", "wait_ack"} /\ NoOutcome(p) /\ outcome[p] = "none"
      BY <1>0, <2>1, <2>4, RevealFacts, StepTells
         DEF NewOutcome, Reports, TakeReveal, Active, Ended
    <3> QED
      BY <2>4, <3>1 DEF NoOutcome, BoardOutcomes
  <2> QED
    BY <2>3, <2>4 DEF Peer
<1> QED
  BY <1>0, <1>2, <1>3, <1>4, <1>5 DEF LoopStep

-----------------------------------------------------------------------------
(* What the logs say, and that they say everything.                        *)

(* What is on record as sent stays true of its sender.                     *)
LEMMA SentLasts ==
  ASSUME TypeOK, TypeOK', Grows, Advances, Sincere,
         NEW p \in Peer, NEW r \in log[p], r.dir = "sent"
  PROVE  r.turn = r.msg.turn /\ Lasting(p, r.msg)'
<1>1. r \in Records
  BY DEF TypeOK
<1>2. r.msg.turn \in Nat
  BY <1>1 DEF Records, Messages
<1> QED
  BY <1>2, LastingForEver DEF Sincere

LEMMA SincereKept ==
  ASSUME CInv, TypeOK', [Next]_vars, Grows, Advances
  PROVE  Sincere'
<1> SUFFICES ASSUME NEW p \in Peer, NEW r \in log'[p], r.dir = "sent"
             PROVE  r.turn = r.msg.turn /\ Lasting(p, r.msg)'
  BY DEF Sincere
<1>0. IInv /\ TypeOK /\ Sincere
  BY DEF CInv, IInv
<1>1. CASE r \in log[p]
  BY <1>0, <1>1, SentLasts
<1>2. CASE r \notin log[p]
  <2>1. pc[p] \in Sending /\ r = Record("sent", Outgoing(p).turn, Outgoing(p))
    BY <1>0, <1>2, NewRecords DEF NewRecord, Record
  <2>2. PICK m : m = Outgoing(p)
    OBVIOUS
  <2>3. r.turn = m.turn /\ r.msg = m
    BY <2>1, <2>2 DEF Record
  <2>4. m.turn \in Nat /\ Lasting(p, m)
    BY <1>0, <2>1, <2>2, OutgoingFits
  <2> QED
    BY <1>0, <2>3, <2>4, LastingForEver
<1> QED
  BY <1>1, <1>2

(* Only a police that has captured sends a declaration.                    *)
LEMMA DeclarationSent ==
  ASSUME IInv, Reports, NEW p \in Peer, pc[p] \in Sending, Outgoing(p).type = "game_over"
  PROVE  p = "police" /\ outcome[p] = "capture"
<1>1. pc[p] = "declare"
  BY DEF Outgoing, Msg, Sending
<1> QED
  BY <1>1 DEF Reports, IInv, Standing, Peer

LEMMA BackedKept ==
  ASSUME CInv, TypeOK', NEW o \in Peer, Step(o) \/ Fault(o), [Next]_vars
  PROVE  Backed'
<1>0. IInv /\ Reports /\ Backed /\ TypeOK /\ LoopStep(o)
  BY LoopSteps DEF CInv, IInv
<1> SUFFICES ASSUME NEW p \in Peer, Claimed(p)'
             PROVE  p = "police" /\ outcome'[p] = "capture"
  BY DEF Backed
<1>1. PICK q \in Peer : q = Other(p) /\ Other(q) = p
  BY OtherFacts
<1>2. p = "police" /\ outcome[p] = "capture"
  <2>1. CASE \E i \in 1 .. Len(inbox'[q]) : inbox'[q][i].type = "game_over"
    <3>1. PICK i \in 1 .. Len(inbox'[q]) : inbox'[q][i].type = "game_over"
      BY <2>1
    <3>2. CASE \E j \in 1 .. Len(inbox[q]) : inbox'[q][i] = inbox[q][j]
      BY <1>0, <1>1, <3>1, <3>2 DEF Backed, Claimed
    <3>3. CASE q = Other(o) /\ pc[o] \in Sending /\ inbox'[q][i] = Outgoing(o)
      <4>1. o = p
        BY <1>1, <3>3, OtherFacts
      <4> QED
        BY <1>0, <3>1, <3>3, <4>1, DeclarationSent
    <3> QED
      BY <1>0, <3>2, <3>3, StepInbox
  <2>2. CASE \E r \in log'[p] : r.dir = "sent" /\ r.msg.type = "game_over"
    <3>1. PICK r \in log'[p] : r.dir = "sent" /\ r.msg.type = "game_over"
      BY <2>2
    <3>2. CASE r \in log[p]
      BY <1>0, <3>1, <3>2 DEF Backed, Claimed
    <3>3. CASE NewRecord(p, r)
      BY <1>0, <3>1, <3>3, DeclarationSent DEF NewRecord, Record
    <3> QED
      BY <1>0, <3>2, <3>3, NewRecords
  <2>3. CASE \E r \in log'[q] : r.dir = "received" /\ r.msg.type = "game_over"
    <3>1. PICK r \in log'[q] : r.dir = "received" /\ r.msg.type = "game_over"
      BY <2>3
    <3>2. r \in log[q]
      BY <1>0, <3>1, NewRecords DEF NewRecord, Record
    <3> QED
      BY <1>0, <1>1, <3>1, <3>2 DEF Backed, Claimed
  <2> QED
    BY <1>1, <2>1, <2>2, <2>3 DEF Claimed
<1>3. ~Active(p)
  BY <1>0, <1>2 DEF Reports
<1>4. outcome'[p] = outcome[p]
  BY <1>0, <1>3, StepTells DEF NoOutcome, NewOutcome
<1> QED
  BY <1>2, <1>4

(* A peer beyond its COMMIT was there before, in the same turn, or stood   *)
(* at the call of that COMMIT.                                             *)
LEMMA Onward ==
  ASSUME IInv, NEW p \in Peer, LoopStep(p), NEW q \in Peer, AfterCommit(q)'
  PROVE  /\ TurnOf(q)' = TurnOf(q)
         /\ AfterCommit(q) \/ (q = p /\ pc[q] = "send_commit")
<1>0. pc \in [Peer -> PC] /\ \A o \in Peer : N(o) \in Nat
  BY Lengths DEF IInv, TypeOK
<1>1. CASE q # p
  BY <1>1, OthersStand DEF AfterCommit, Playing, Active, TurnOf, N
<1>2. CASE q = p /\ Quietly(p)
  <2>1. PICK x \in PC : Quiet(p, x)
    BY <1>2 DEF Quietly
  <2>2. pc'[p] = x /\ hist' = hist /\ x \notin Ended \cup {"decide", "wait_commit", "send_commit"}
    BY <1>0, <1>2, <2>1 DEF Quiet, AfterCommit, Playing, Active
  <2>3. Follows(p, x) /\ pc[p] \notin Ended
    BY <2>1, <2>2 DEF Quiet
  <2> QED
    BY <1>2, <2>2, <2>3 DEF Follows, AfterCommit, Playing, Active, TurnOf, N, Behind, Peer
<1>3. CASE q = p /\ SealsOne(p)
  BY <1>0, <1>3 DEF SealsOne, Sealing, CommitOwn, AfterCommit
<1>4. CASE q = p /\ ReadsOn(p)
  <2>1. PICK x \in PC : Reads(p, x)
    BY <1>4 DEF ReadsOn
  <2>2. pc'[p] = x /\ hist' = hist /\ x # "wait_commit"
    BY <1>0, <1>4, <2>1 DEF Reads, AfterCommit, Playing
  <2> QED
    BY <1>4, <2>1, <2>2 DEF Reads, AfterCommit, Playing, Active, Ended, Waiting, TurnOf, N, Behind, Peer
<1>5. CASE q = p /\ Resolves(p)
  <2> DEFINE m == Head(inbox[p])
  <2>1. TakeReveal(p, m) /\ inbox[p] # <<>> /\ pc[p] = "wait_reveal"
    BY <1>5 DEF Resolves, TakeReveal
  <2>2. p # "police"
    BY <1>5, <2>1, RevealFacts DEF AfterCommit, Playing, Active, Ended
  <2>3. p = "thief" /\ N(p)' = N(p) + 1 /\ pc'[p] \in Behind
    BY <2>1, <2>2, RevealFacts DEF Behind, Peer
  <2> QED
    BY <1>0, <1>5, <2>1, <2>3 DEF AfterCommit, Playing, Active, Ended, TurnOf, Behind
<1> QED
  BY <1>1, <1>2, <1>3, <1>4, <1>5 DEF LoopStep

LEMMA LoggedForEver ==
  ASSUME Grows, NEW p \in Peer, NEW dir, NEW type, NEW n, Logged(p, dir, type, n)
  PROVE  Logged(p, dir, type, n)'
BY DEF Grows, Logged

(* An answered COMMIT is on record under its turn.                         *)
LEMMA CommitLogged ==
  ASSUME IInv, NEW p \in Peer, PushAnswered(p), pc[p] = "send_commit"
  PROVE  Logged(p, "sent", "commit", TurnOf(p))'
<1> DEFINE m == Outgoing(p)
<1>1. pc[p] \in Sending /\ Active(p)
  BY DEF PushAnswered, Active, Ended
<1>2. m.turn = TurnOf(p) /\ m.type = "commit"
  BY <1>1, OutgoingCases DEF Outgoing, Msg
<1>3. Record("sent", m.turn, m) \in log'[p]
  BY DEF PushAnswered, IInv, TypeOK
<1>4. TurnOf(p)' = TurnOf(p)
  <2>1. PICK x \in PC : Moves(p, x)
    BY <1>1, ProceedMoves DEF PushAnswered
  <2>2. hist' = hist /\ pc'[p] = x
    BY <2>1 DEF PushAnswered, Moves, IInv, TypeOK
  <2>3. x \notin Behind
    BY <2>1 DEF Moves, Follows, Behind, Ended
  <2> QED
    BY <2>2, <2>3 DEF TurnOf, Behind, N
<1> QED
  BY <1>2, <1>3, <1>4 DEF Logged, Record

(* What the resolution of a turn puts on record, and found on record.      *)
LEMMA TurnRecorded ==
  ASSUME CInv, TypeOK', Grows, NEW p \in Peer, Resolves(p), NEW n, n = N(p)
  PROVE  /\ Held(p, n)' /\ Logged(p, "sent", "commit", n)'
         /\ Logged(p, "received", "reveal", n)'
<1> DEFINE m == Head(inbox[p])
<1>0. IInv /\ Recorded /\ TypeOK
  BY DEF CInv, IInv
<1>1. TakeReveal(p, m) /\ inbox[p] # <<>> /\ pc[p] = "wait_reveal" /\ m.type = "reveal"
  BY DEF Resolves, TakeReveal
<1>2. N(p) \in Nat /\ TurnOf(p) = N(p)
  BY <1>0, <1>1, Lengths DEF TurnOf, Behind
<1>3. HoldsOther(p) /\ AfterCommit(p)
  BY <1>1 DEF HoldsOther, AfterCommit, Playing, Active, Ended, Peer
<1>4. Held(p, N(p)) /\ Logged(p, "sent", "commit", N(p))
  BY <1>0, <1>2, <1>3 DEF IInv, Holding, Recorded
<1>5. Record("received", N(p), m) \in log'[p]
  BY <1>0, <1>1, RevealAccepted DEF Received, N, TypeOK
<1> QED
  BY <1>0, <1>1, <1>2, <1>4, <1>5, HeldForEver, LoggedForEver DEF Logged, Record

LEMMA RecordedKept ==
  ASSUME CInv, TypeOK', Grows, NEW o \in Peer, Step(o) \/ Fault(o)
  PROVE  Recorded'
<1>0. IInv /\ Recorded /\ Reports /\ TypeOK /\ LoopStep(o)
  BY LoopSteps DEF CInv, IInv
<1>1. ASSUME NEW p \in Peer, NEW n \in 0 .. N(p)' - 1
      PROVE  /\ Held(p, n)' /\ Logged(p, "sent", "commit", n)'
             /\ Logged(p, "received", "reveal", n)'
  <2>0. N(p) \in Nat /\ n \in Nat
    BY <1>0, Lengths
  <2>1. CASE n \in 0 .. N(p) - 1
    BY <1>0, <2>0, <2>1, HeldForEver, LoggedForEver DEF Recorded
  <2>2. CASE n \notin 0 .. N(p) - 1
    <3>1. hist'[p] # hist[p]
      BY <1>1, <2>2 DEF N
    <3>2. p = o /\ Resolves(o)
      BY <1>0, <3>1, OthersStand
         DEF LoopStep, Quietly, Quiet, ReadsOn, Reads, SealsOne, Sealing
    <3>3. N(p)' = N(p) + 1
      BY <3>2, <1>0, RevealFacts DEF Resolves
    <3>4. n = N(p)
      BY <1>1, <2>0, <2>2, <3>3
    <3> QED
      BY <1>0, <3>2, <3>4, TurnRecorded
  <2> QED
    BY <2>1, <2>2
<1>2. ASSUME NEW p \in Peer, AfterCommit(p)'
      PROVE  Logged(p, "sent", "commit", TurnOf(p))'
  <2>1. /\ TurnOf(p)' = TurnOf(p)
        /\ AfterCommit(p) \/ (p = o /\ pc[p] = "send_commit")
    BY <1>0, <1>2, Onward
  <2>2. CASE AfterCommit(p)
    <3>1. PICK n : n = TurnOf(p) /\ Logged(p, "sent", "commit", n)
      BY <1>0, <2>2 DEF Recorded
    <3>2. Logged(p, "sent", "commit", n)'
      BY <3>1, LoggedForEver
    <3> QED
      BY <2>1, <3>1, <3>2 DEF Logged
  <2>3. CASE p = o /\ pc[p] = "send_commit"
    <3>1. pc'[p] \notin Ended \cup {"send_commit"}
      BY <1>2 DEF AfterCommit, Playing, Active
    <3>2. PushAnswered(p)
      BY <1>0, <2>3, <3>1, Answered
    <3> QED
      BY <1>0, <2>3, <3>2, CommitLogged
  <2> QED
    BY <2>1, <2>2, <2>3
<1> QED
  BY <1>1, <1>2 DEF Recorded

-----------------------------------------------------------------------------
(* CInv is inductive.                                                      *)

LEMMA InitClosing == Init => CInv
<1> SUFFICES ASSUME Init PROVE CInv
  OBVIOUS
<1>1. IInv
  BY InitInv
<1>2. \A p \in Peer : /\ hist[p] = <<>> /\ ledger[p] = <<>> /\ log[p] = {} /\ N(p) = 0 /\ L(p) = 0
                      /\ inbox[Other(p)] = <<>> /\ outcome[p] = "none"
                      /\ pc[p] \in {"decide", "wait_commit"}
  BY OtherFacts DEF Init, N, L
<1>3. Reports /\ Closed
  BY <1>2 DEF Reports, Closed, Active, Ended, BoardOutcomes
<1>4. Delivered
  BY <1>2 DEF Delivered, Peer
<1>5. Sincere /\ Recorded
  BY <1>2 DEF Sincere, Recorded, AfterCommit, Playing
<1>6. Backed
  BY <1>2, OtherFacts DEF Backed, Claimed
<1> QED
  BY <1>1, <1>3, <1>4, <1>5, <1>6 DEF CInv

LEMMA StutterClosing ==
  ASSUME CInv, IInv', UNCHANGED vars
  PROVE  CInv'
<1>1. \A p \in Peer : \A n : Held(p, n)' = Held(p, n)
  BY DEF vars, Held
<1>2. \A p \in Peer : \A m : Lasting(p, m)' = Lasting(p, m)
  BY DEF vars, Lasting, Held, N, L
<1>3. Reports' /\ Closed' /\ Delivered' /\ Backed'
  BY DEF vars, CInv, Reports, Closed, Delivered, Queued, Backed, Claimed, Active, N, L
<1>4. Sincere'
  BY <1>2 DEF vars, CInv, Sincere
<1>5. Recorded'
  BY <1>1 DEF vars, CInv, Recorded, Logged, AfterCommit, Playing, Active, TurnOf, N
<1> QED
  BY <1>3, <1>4, <1>5 DEF CInv

LEMMA StepClosing == CInv /\ [Next]_vars => CInv'
<1> SUFFICES ASSUME CInv, [Next]_vars PROVE CInv'
  OBVIOUS
<1>1. IInv' /\ TypeOK'
  BY StepInv DEF CInv, IInv
<1>2. CASE UNCHANGED vars
  BY <1>1, <1>2, StutterClosing
<1>3. ASSUME NEW p \in Peer, Step(p) \/ Fault(p) PROVE CInv'
  <2>1. IInv /\ LoopStep(p)
    BY <1>3, LoopSteps DEF CInv
  <2>2. Grows /\ Advances
    BY <1>1, <2>1, StepGrows
  <2> QED
    BY <1>1, <1>3, <2>1, <2>2, ReportsKept, ClosedKept, DeliveredKept,
       SincereKept, BackedKept, RecordedKept DEF CInv
<1> QED
  BY <1>2, <1>3 DEF Next, Terminated

(* What a peer's own log, ledger and outcome say of the game, in every     *)
(* state the two turn loops can reach.                                     *)
THEOREM ClosingInvariance == Spec => []CInv
BY InitClosing, StepClosing, PTL DEF Spec

(* On a board on which the game is over nobody has sealed another turn,    *)
(* and a police that is there has a thief that was there first.            *)
LEMMA FinalTurn ==
  ASSUME CInv, NEW p \in Peer, BoardOutcome(hist[p]) # "none"
  PROVE  /\ L(p) = N(p) /\ L(Other(p)) <= N(p)
         /\ p = "police" => hist["thief"] = hist["police"]
<1>0. IInv /\ Closed /\ TypeOK /\ Binding /\ Counting /\ "police" \in Peer /\ "thief" \in Peer
  BY DEF CInv, IInv, Peer
<1>1. \A q \in Peer : N(q) \in Nat /\ L(q) \in Nat
  BY <1>0, Lengths
<1>2. L(p) = N(p)
  BY <1>0 DEF Closed
<1>3. N("police") = N("thief") =>
        /\ hist["police"] = hist["thief"]
        /\ L("police") = N("police") /\ L("thief") = N("thief")
  <2> SUFFICES ASSUME N("police") = N("thief")
               PROVE  /\ hist["police"] = hist["thief"]
                      /\ L("police") = N("police") /\ L("thief") = N("thief")
    OBVIOUS
  <2>1. hist["police"] = hist["thief"]
    BY <1>0, SameHistory
  <2>2. hist[p] = hist["police"] /\ hist[p] = hist["thief"]
    BY <2>1 DEF Peer
  <2> QED
    BY <1>0, <2>1, <2>2 DEF Closed
<1>4. CASE p = "police"
  <2>1. N("police") = N("thief")
    BY <1>0, <1>1, <1>2, <1>4 DEF Counting
  <2> QED
    BY <1>1, <1>2, <1>3, <1>4, <2>1 DEF Other
<1>5. CASE p = "thief"
  <2>1. N("police") = N("thief") \/ N("thief") = N("police") + 1
    BY <1>0, <1>1 DEF Counting
  <2>2. L("police") <= N("thief")
    BY <1>0, <1>1, <1>3, <2>1 DEF Counting
  <2> QED
    BY <1>2, <1>5, <2>2 DEF Other
<1> QED
  BY <1>4, <1>5 DEF Peer

(* orchestrator.run_turn_loop returns an outcome of the board only when    *)
(* the opponent's board has it, or the message it takes to get there is    *)
(* already in the opponent's queue: no loss, repetition or time-out leaves *)
(* one peer alone with a result.                                           *)
THEOREM SharedOutcome == Spec => []OutcomeIsShared
<1>1. CInv => OutcomeIsShared
  <2> SUFFICES ASSUME CInv PROVE OutcomeIsShared
    OBVIOUS
  <2>0. /\ IInv /\ TypeOK /\ Binding /\ Counting /\ Reports /\ Delivered
        /\ "police" \in Peer /\ "thief" \in Peer
    BY DEF CInv, IInv, Peer
  <2>1. \A p \in Peer : outcome[p] \in BoardOutcomes => outcome[p] = BoardOutcome(hist[p])
    BY <2>0 DEF Reports
  <2>2. outcome["police"] \in BoardOutcomes => hist["police"] = hist["thief"]
    BY <2>0, <2>1, FinalTurn DEF BoardOutcomes
  <2>3. ASSUME outcome["thief"] \in BoardOutcomes
        PROVE  \/ hist["police"] = hist["thief"]
               \/ \E m \in Inbound("police") :
                    m.type = "reveal" /\ m.turn = Len(hist["police"])
               \/ outcome["police"] = "technical_loss" \/ pc["police"] = "gone"
    <3>1. CASE N("police") = N("thief")
      BY <2>0, <3>1, SameHistory
    <3>2. CASE N("police") # N("thief") /\ Active("police")
      <4>1. N("police") < N("thief")
        BY <2>0, <3>2, Lengths DEF Counting
      <4>2. Queued("reveal", N("police"))
        BY <2>0, <2>3, <3>2, <4>1 DEF Delivered
      <4>3. Len(inbox["police"]) \in Nat /\ DOMAIN inbox["police"] = 1 .. Len(inbox["police"])
        BY <2>0, Lengths
      <4> QED
        BY <4>2, <4>3 DEF Queued, Inbound, N
    <3>3. CASE ~Active("police")
      <4>1. pc["police"] = "gone" \/ outcome["police"] # "none"
        BY <2>0, <3>3 DEF Reports, Active
      <4>2. outcome["police"] \in Outcomes
        BY <2>0 DEF TypeOK
      <4> QED
        BY <2>2, <4>1, <4>2 DEF Outcomes, BoardOutcomes
    <3> QED
      BY <3>1, <3>2, <3>3
  <2> QED
    BY <2>1, <2>2, <2>3 DEF OutcomeIsShared
<1> QED
  BY <1>1, ClosingInvariance, PTL

-----------------------------------------------------------------------------
(* Behind the loop: the audit and the teardown.                            *)

(* A step of p there touches the state of the turn loop in two places: it  *)
(* may read p's inbox, and put a declaration it read on record.            *)
Behave(p, x) ==
  /\ pc[p] = "over" /\ x \in {"over", "gone"} /\ pc' = [pc EXCEPT ![p] = x]
  /\ UNCHANGED <<machine, tries, ledger, hist, pending, ackd, oppCommit, outcome, claim>>
  /\ \/ UNCHANGED <<inbox, log>>
     \/ /\ inbox[p] # <<>> /\ Take(p)
        /\ \/ UNCHANGED log
           \/ /\ Head(inbox[p]).type = "game_over"
              /\ log' = [log EXCEPT ![p] =
                   @ \cup {Record("received", Head(inbox[p]).turn, Head(inbox[p]))}]

EndOf(p) == \E x \in {"over", "gone"} : Behave(p, x)

LEMMA EndSteps ==
  ASSUME TypeOK, NEW p \in Peer, EndStep(p) \/ EndFault(p)
  PROVE  EndOf(p)
<1>0. pc \in [Peer -> PC]
  BY DEF TypeOK
<1>1. CASE Exit(p) \/ CrashInAudit(p)
  BY <1>1 DEF Exit, CrashInAudit, Collecting, EndOf, Behave
<1>2. ASSUME pc[p] = "over", UNCHANGED pc, Behave(p, "over") PROVE EndOf(p)
  BY <1>2 DEF EndOf
<1>3. pc[p] = "over" /\ UNCHANGED pc => pc' = [pc EXCEPT ![p] = "over"]
  BY <1>0
<1>4. CASE CollectEarly(p)
  BY <1>2, <1>3, <1>4 DEF CollectEarly, Collecting, Behave
<1>5. CASE Collect(p)
  BY <1>2, <1>3, <1>5 DEF Collect, Collecting, Behave
<1>6. CASE CollectExpires(p) \/ CollectExpiresEarly(p)
  BY <1>2, <1>3, <1>6 DEF CollectExpires, CollectExpiresEarly, GiveUp, Collecting, Behave
<1>7. CASE Linger(p)
  BY <1>2, <1>3, <1>7 DEF Linger, Behave
<1> QED
  BY <1>1, <1>4, <1>5, <1>6, <1>7 DEF EndStep, EndFault

LEMMA EndTypes ==
  ASSUME EndTypeOK, [EndNext]_endVars
  PROVE  EndTypeOK'
<1>0. TypeOK
  BY DEF EndTypeOK
<1>1. ASSUME NEW p \in Peer, PlayStep(p) \/ PlayFault(p) PROVE EndTypeOK'
  <2>1. [Next]_vars /\ UNCHANGED <<stage, verdict, result>>
    BY <1>1 DEF PlayStep, PlayFault, Next
  <2>2. TypeOK'
    BY <1>0, <2>1, NextTypes
  <2> QED
    BY <2>1, <2>2 DEF EndTypeOK
<1>2. ASSUME NEW p \in Peer, EndStep(p) \/ EndFault(p) PROVE EndTypeOK'
  <2>1. PICK x \in {"over", "gone"} : Behave(p, x)
    BY <1>0, <1>2, EndSteps DEF EndOf
  <2>2. inbox' \in [Peer -> Seq(Messages)]
    BY <1>0, <2>1, TakeType DEF Behave, TypeOK
  <2>3. log' \in [Peer -> SUBSET Records]
    <3>1. ASSUME inbox[p] # <<>>, NEW m, m = Head(inbox[p])
          PROVE  Record("received", m.turn, m) \in Records
      <4>1. m \in Messages
        BY <1>0, <3>1, TailFacts DEF TypeOK
      <4> QED
        BY <4>1 DEF Record, Records, Messages
    <3>2. \/ log' = log
          \/ \E r \in Records : log' = [log EXCEPT ![p] = @ \cup {r}]
      BY <2>1, <3>1 DEF Behave
    <3>3. log \in [Peer -> SUBSET Records]
      BY <1>0 DEF TypeOK
    <3>4. ASSUME NEW r \in Records, log' = [log EXCEPT ![p] = @ \cup {r}]
          PROVE  log' \in [Peer -> SUBSET Records]
      <4>1. log[p] \cup {r} \in SUBSET Records
        BY <3>3
      <4> QED
        BY <3>3, <3>4, <4>1
    <3> QED
      BY <3>2, <3>3, <3>4
  <2>4. pc' \in [Peer -> PC] /\ UNCHANGED <<machine, tries, ledger, hist, pending, ackd, oppCommit, outcome, claim>>
    BY <1>0, <2>1 DEF Behave, TypeOK, PC
  <2>5. faults' \in 0 .. MaxFaults /\ early' \in [Peer -> BOOLEAN]
    <3>1. \/ UNCHANGED faults
          \/ faults < MaxFaults /\ faults' = faults + 1
      BY <1>2 DEF EndStep, EndFault, CollectEarly, Collect, CollectExpires,
         CollectExpiresEarly, GiveUp, Linger, Exit, CrashInAudit
    <3>2. UNCHANGED early \/ early' = [early EXCEPT ![p] = FALSE]
      BY <1>2 DEF EndStep, EndFault, CollectEarly, Collect, CollectExpires,
         CollectExpiresEarly, GiveUp, Linger, Exit, CrashInAudit
    <3>3. faults' \in 0 .. MaxFaults
      BY <1>0, <3>1, MaxFaultsNat DEF TypeOK
    <3> QED
      BY <1>0, <3>2, <3>3 DEF TypeOK
  <2>6. TypeOK'
    BY <1>0, <2>2, <2>3, <2>4, <2>5 DEF TypeOK
  <2>7. ASSUME NEW v \in Verdicts, Conclude(p, v) PROVE EndTypeOK'
    BY <2>6, <2>7 DEF Conclude, EndTypeOK, Outcomes, TypeOK
  <2>8. CASE UNCHANGED <<stage, verdict, result>>
    BY <2>6, <2>8 DEF EndTypeOK
  <2>9. Audit(p) => EndTypeOK'
    BY <2>7 DEF Audit, Verdicts
  <2>10. GiveUp(p) => EndTypeOK'
    BY <2>7 DEF GiveUp, Verdicts
  <2> QED
    BY <1>2, <2>8, <2>9, <2>10 DEF EndStep, EndFault, CollectEarly, Collect, CollectExpires,
       CollectExpiresEarly, Linger, Exit, CrashInAudit
<1>3. CASE UNCHANGED endVars
  <2>1. [Next]_vars /\ UNCHANGED <<stage, verdict, result>>
    BY <1>3 DEF endVars
  <2> QED
    BY <1>0, <2>1, NextTypes DEF EndTypeOK
<1> QED
  BY <1>1, <1>2, <1>3 DEF EndNext, Stopped

LEMMA BehaveQuiet ==
  ASSUME TypeOK, NEW p \in Peer, NEW x \in {"over", "gone"}, Behave(p, x)
  PROVE  /\ x \in PC /\ Quiet(p, x)
         /\ \A q \in Peer : \A r \in log'[q] :
              \/ r \in log[q]
              \/ /\ q = p /\ r.dir = "received" /\ r.msg.type = "game_over"
                 /\ inbox[p] # <<>> /\ r.msg = Head(inbox[p])
<1>1. \A q \in Peer : \A r \in log'[q] :
         \/ r \in log[q]
         \/ /\ q = p /\ r.dir = "received" /\ r.msg.type = "game_over"
            /\ inbox[p] # <<>> /\ r.msg = Head(inbox[p])
  <2> SUFFICES ASSUME NEW q \in Peer, NEW r \in log'[q], r \notin log[q]
               PROVE  /\ q = p /\ r.dir = "received" /\ r.msg.type = "game_over"
                      /\ inbox[p] # <<>> /\ r.msg = Head(inbox[p])
    OBVIOUS
  <2>1. PICK m : m = Head(inbox[p])
    OBVIOUS
  <2>2. /\ inbox[p] # <<>> /\ m.type = "game_over"
        /\ log' = [log EXCEPT ![p] = @ \cup {Record("received", m.turn, m)}]
    BY <2>1 DEF Behave
  <2>3. q = p /\ r = Record("received", m.turn, m)
    BY <2>2 DEF TypeOK
  <2>4. r.dir = "received" /\ r.msg = m
    BY <2>3 DEF Record
  <2> QED
    BY <2>1, <2>2, <2>3, <2>4
<1>2. \A q \in Peer : log[q] \subseteq log'[q]
  BY DEF Behave, TypeOK
<1>3. x \in PC /\ Follows(p, x) /\ x \in Ended
  BY DEF PC, Follows, Ended
<1> QED
  BY <1>1, <1>2, <1>3 DEF Quiet, Behave

(* A quiet step that reads, of a peer whose loop has ended.                *)
LEMMA BehaveInv ==
  ASSUME IInv, TypeOK', NEW p \in Peer, NEW x \in {"over", "gone"}, Behave(p, x)
  PROVE  IInv' /\ Grows /\ Advances
<1>1. x \in PC /\ Quiet(p, x) /\ Grows /\ Advances
  BY BehaveQuiet, QuietGrows, QuietAdvances DEF IInv
<1>2. CASE UNCHANGED inbox
  BY <1>1, <1>2, QuietSilent
<1>3. CASE inbox[p] # <<>> /\ Take(p)
  <2>1. \A q \in Peer : \A i \in 1 .. Len(inbox'[q]) :
          \E j \in 1 .. Len(inbox[q]) : inbox'[q][i] = inbox[q][j]
    BY <1>3, TakeEntries
  <2>2. Flight'
    BY <1>1, <2>1, FlightKept
  <2>3. ~Active(p)' /\ inbox'[Other(p)] = inbox[Other(p)]
    BY <1>3, TakeEntries DEF Behave, Active, Ended, IInv, TypeOK
  <2>4. Ordered'
    <3> SUFFICES ASSUME NEW q \in Peer, NEW o, o = Other(q), NEW s, s = inbox'[o]
                 PROVE  /\ Active(o)' => \A i \in 1 .. Len(s) :
                             Protocol(s[i]) => Rank(s[i]) >= Floor(o)'
                        /\ Active(q)' => \A i \in 1 .. Len(s) :
                             Protocol(s[i]) => Rank(s[i]) <= Ceiling(q)'
                        /\ Active(o)' => \A i, j \in 1 .. Len(s) :
                             i < j /\ Protocol(s[i]) /\ Protocol(s[j])
                               => Rank(s[i]) <= Rank(s[j])
      BY DEF Ordered
    <3>1. CASE o # p
      <4>1. s = inbox[Other(q)]
        BY <2>3, <3>1, OtherFacts DEF Peer
      <4> QED
        BY <1>1, <4>1, QuietSorted
    <3>2. CASE o = p
      <4>1. Active(q)' => \A j \in 1 .. Len(inbox[o]) :
              Protocol(inbox[o][j]) => Rank(inbox[o][j]) <= Ceiling(q)'
        BY <1>1, QuietSorted
      <4> QED
        BY <2>1, <2>3, <3>2, <4>1
    <3> QED
      BY <3>1, <3>2
  <2>5. /\ LedgerShape' /\ Counting' /\ Standing' /\ Binding'
        /\ Evidence' /\ StillLegal' /\ StillOpen' /\ NoFalseRejection' /\ Holding'
    BY <1>1, QuietState, QuietHolding
  <2> QED
    BY <1>1, <2>2, <2>4, <2>5 DEF IInv
<1> QED
  BY <1>1, <1>2, <1>3 DEF Behave

LEMMA BehaveBacked ==
  ASSUME CInv, NEW o \in Peer, NEW x \in {"over", "gone"}, Behave(o, x)
  PROVE  Backed'
<1>0. IInv /\ Backed /\ TypeOK
  BY DEF CInv, IInv
<1> SUFFICES ASSUME NEW p \in Peer, Claimed(p)' PROVE Claimed(p)
  BY <1>0 DEF Backed, Behave
<1>1. PICK q \in Peer : q = Other(p) /\ Other(q) = p
  BY OtherFacts
<1>2. CASE \E i \in 1 .. Len(inbox'[q]) : inbox'[q][i].type = "game_over"
  <2>1. \A i \in 1 .. Len(inbox'[q]) :
          \E j \in 1 .. Len(inbox[q]) : inbox'[q][i] = inbox[q][j]
    BY <1>0, TakeEntries DEF Behave
  <2> QED
    BY <1>1, <1>2, <2>1 DEF Claimed
<1>3. CASE \E r \in log'[p] : r.dir = "sent" /\ r.msg.type = "game_over"
  BY <1>0, <1>3, BehaveQuiet DEF Claimed
<1>4. CASE \E r \in log'[q] : r.dir = "received" /\ r.msg.type = "game_over"
  <2>1. PICK r \in log'[q] : r.dir = "received" /\ r.msg.type = "game_over"
    BY <1>4
  <2>2. CASE r \in log[q]
    BY <1>1, <2>1, <2>2 DEF Claimed
  <2>3. CASE inbox[q] # <<>> /\ r.msg = Head(inbox[q])
    <3>1. 1 \in 1 .. Len(inbox[q]) /\ Head(inbox[q]) = inbox[q][1]
      BY <1>0, <2>3, Lengths, TailFacts
    <3> QED
      BY <1>1, <2>1, <2>3, <3>1 DEF Claimed
  <2> QED
    BY <1>0, <2>1, <2>2, <2>3, BehaveQuiet
<1> QED
  BY <1>1, <1>2, <1>3, <1>4 DEF Claimed

LEMMA BehaveClosing ==
  ASSUME CInv, TypeOK', NEW o \in Peer, NEW x \in {"over", "gone"}, Behave(o, x)
  PROVE  CInv'
<1>0. IInv /\ TypeOK /\ Sincere /\ Recorded /\ pc \in [Peer -> PC]
  BY DEF CInv, IInv, TypeOK
<1>1. IInv' /\ Grows /\ Advances
  BY <1>0, BehaveInv
<1>2. /\ UNCHANGED <<hist, ledger, outcome>>
      /\ \A q \in Peer : pc'[q] = IF q = o THEN x ELSE pc[q]
      /\ pc[o] = "over"
  BY <1>0 DEF Behave
<1>3. Reports' /\ Closed'
  BY <1>2 DEF CInv, Reports, Closed, Active, Ended, N, L
<1>4. Delivered'
  <2>1. Active("police")' => Active("police") /\ o # "police"
    BY <1>2 DEF Active, Ended, Peer
  <2>2. o # "police" => inbox'["police"] = inbox["police"]
    BY <1>0 DEF Behave, Take, TypeOK, Peer
  <2>3. pc'["thief"] \in {"send_hint", "wait_commit"} => pc["thief"] = pc'["thief"]
    BY <1>2 DEF Peer
  <2> QED
    BY <1>2, <2>1, <2>2, <2>3 DEF CInv, Delivered, Queued, N
<1>5. Sincere'
  <2> SUFFICES ASSUME NEW p \in Peer, NEW r \in log'[p], r.dir = "sent"
               PROVE  r.turn = r.msg.turn /\ Lasting(p, r.msg)'
    BY DEF Sincere
  <2>1. r \in log[p]
    BY <1>0, BehaveQuiet
  <2> QED
    BY <1>0, <1>1, <2>1, SentLasts
<1>6. Recorded'
  <2> SUFFICES ASSUME NEW p \in Peer
               PROVE  /\ \A n \in 0 .. N(p) - 1 :
                           /\ Held(p, n)'
                           /\ Logged(p, "sent", "commit", n)'
                           /\ Logged(p, "received", "reveal", n)'
                      /\ AfterCommit(p)' => Logged(p, "sent", "commit", TurnOf(p))'
    BY <1>2 DEF Recorded, N
  <2>1. ASSUME NEW n \in 0 .. N(p) - 1
        PROVE  /\ Held(p, n)' /\ Logged(p, "sent", "commit", n)'
               /\ Logged(p, "received", "reveal", n)'
    <3>1. n \in Nat
      BY <1>0, Lengths
    <3> QED
      BY <1>0, <1>1, <3>1, HeldForEver, LoggedForEver DEF Recorded
  <2>2. ASSUME AfterCommit(p)' PROVE Logged(p, "sent", "commit", TurnOf(p))'
    <3>1. p # o /\ AfterCommit(p) /\ TurnOf(p)' = TurnOf(p)
      BY <1>2, <2>2 DEF AfterCommit, Playing, Active, Ended, TurnOf, N
    <3>2. PICK n : n = TurnOf(p) /\ Logged(p, "sent", "commit", n)
      BY <1>0, <3>1 DEF Recorded
    <3>3. Logged(p, "sent", "commit", n)'
      BY <1>1, <3>2, LoggedForEver
    <3> QED
      BY <3>1, <3>2, <3>3 DEF Logged
  <2> QED
    BY <2>1, <2>2
<1> QED
  BY <1>1, <1>3, <1>4, <1>5, <1>6, BehaveBacked DEF CInv

-----------------------------------------------------------------------------
(* The final audit.                                                        *)

Unseen(p) ==
  \/ \E i \in DOMAIN ledger[p] :
       Observed(p, "sent", "commit", ledger[p][i].turn) = {}
  \/ \E i \in DOMAIN ledger[Other(p)] :
       Observed(p, "received", "commit", ledger[Other(p)][i].turn) = {}

LEMMA ObservedRecords ==
  ASSUME NEW p \in Peer, NEW dir, NEW type, NEW n, NEW m \in Observed(p, dir, type, n)
  PROVE  \E r \in log[p] : r.dir = dir /\ r.turn = n /\ r.msg.type = type /\ r.msg = m
BY DEF Observed

(* The ledger of q, entry by entry.                                        *)
LEMMA LedgerEntry ==
  ASSUME IInv, NEW q \in Peer, NEW i \in DOMAIN ledger[q]
  PROVE  /\ i \in 1 .. L(q) /\ ledger[q][i].turn = i - 1 /\ ledger[q][i].by = q
         /\ i - 1 \in Nat /\ i - 1 < L(q)
<1>1. i \in 1 .. L(q) /\ L(q) \in Nat
  BY Lengths DEF IInv, L
<1>2. ledger[q][i] = Seal(q, i - 1, ledger[q][i].act)
  BY <1>1 DEF IInv, LedgerShape
<1>3. ledger[q][i].turn = i - 1 /\ ledger[q][i].by = q
  BY <1>2 DEF Seal
<1> QED
  BY <1>1, <1>3

(* What an envelope on record says of the ledger it is audited against.    *)
LEMMA ObservedMatches ==
  ASSUME CInv, NEW p \in Peer, NEW n,
         NEW dir \in {"sent", "received"}, NEW q, q = IF dir = "sent" THEN p ELSE Other(p)
  PROVE  /\ \A m \in Observed(p, dir, "commit", n) :
              n \in 0 .. L(q) - 1 /\ m.seal = ledger[q][n + 1]
         /\ \A m \in Observed(p, dir, "reveal", n) :
              n \in 0 .. L(q) - 1 /\ m.act = ledger[q][n + 1].act
<1>0. IInv /\ Sincere /\ Evidence /\ TypeOK
  BY DEF CInv, IInv
<1>1. ASSUME NEW type \in {"commit", "reveal"}, NEW m \in Observed(p, dir, type, n)
      PROVE  /\ n \in 0 .. L(q) - 1
             /\ type = "commit" => m.seal = ledger[q][n + 1]
             /\ type = "reveal" => m.act = ledger[q][n + 1].act
  <2>1. PICK r \in log[p] : r.dir = dir /\ r.turn = n /\ r.msg.type = type /\ r.msg = m
    BY <1>1, ObservedRecords
  <2>2. n \in Nat
    <3>1. r \in Records
      BY <1>0 DEF TypeOK
    <3> QED
      BY <2>1, <3>1 DEF Records
  <2>3. q \in Peer /\ L(q) \in Nat
    BY <1>0, OtherFacts, Lengths
  <2>4. CASE dir = "sent"
    <3>1. m.turn = n /\ Lasting(p, m)
      BY <1>0, <2>1, <2>4 DEF Sincere
    <3>2. n < L(p) /\ (type = "reveal" => m.act = ledger[p][n + 1].act)
      BY <1>1, <2>1, <3>1 DEF Lasting
    <3>3. type = "commit" => m.seal = ledger[p][n + 1]
      <4>1. type = "commit" => m = Msg("commit", n, ledger[p][n + 1], NoAct)
        BY <2>1, <3>1 DEF Lasting
      <4> QED
        BY <4>1 DEF Msg
    <3> QED
      BY <2>2, <2>3, <2>4, <3>2, <3>3
  <2>5. CASE dir = "received"
    <3>1. /\ n < L(Other(p))
          /\ type = "commit" => m.seal = ledger[Other(p)][n + 1]
          /\ type = "reveal" => m.act = ledger[Other(p)][n + 1].act
      BY <1>0, <1>1, <2>1, <2>5 DEF Evidence
    <3> QED
      BY <2>2, <2>3, <2>5, <3>1
  <2> QED
    BY <2>4, <2>5
<1> QED
  BY <1>1

(* Only a seal whose COMMIT was never observed can fail an honest audit.   *)
LEMMA AuditFails ==
  ASSUME CInv, NEW p \in Peer, ~Unseen(p)
  PROVE  SymmetricAudit(p)
<1> SUFFICES ASSUME NEW dir \in {"sent", "received"},
                    NEW q, q = IF dir = "sent" THEN p ELSE Other(p)
             PROVE  AuditMatches(p, dir, ledger[q])
  BY DEF SymmetricAudit, ReadAll
<1>0. IInv /\ q \in Peer
  BY OtherFacts DEF CInv
<1>1. ASSUME NEW i \in DOMAIN ledger[q]
      PROVE  EntryMatches(p, dir, ledger[q][i])
  <2> DEFINE s == ledger[q][i]
  <2>1. /\ i \in 1 .. L(q) /\ s.turn = i - 1 /\ s.by = q /\ s.turn + 1 = i
    BY <1>0, LedgerEntry
  <2>2. \E m \in Observed(p, dir, "commit", s.turn) : TRUE
    BY DEF Unseen
  <2>3. Rehashed(p, dir, s)
    BY <2>1, <2>2, ObservedMatches DEF Rehashed
  <2>4. StateBound(p, dir, s)
    BY <2>1, OtherFacts DEF StateBound, ForbiddenRole
  <2>5. \A m \in Observed(p, dir, "reveal", s.turn) : m.act = s.act
    BY <2>1, ObservedMatches
  <2> QED
    BY <2>3, <2>4, <2>5 DEF EntryMatches
<1>2. ASSUME NEW n \in Exchanged(p, dir) PROVE n \in Reported(ledger[q])
  <2>1. n \in 0 .. L(q) - 1 /\ L(q) \in Nat /\ DOMAIN ledger[q] = 1 .. L(q)
    BY <1>0, <1>2, ObservedMatches, Lengths DEF Exchanged, IInv, L
  <2>2. n + 1 \in DOMAIN ledger[q]
    BY <2>1
  <2>3. ledger[q][n + 1].turn = n
    BY <1>0, <2>1, <2>2, LedgerEntry
  <2> QED
    BY <2>2, <2>3 DEF Reported
<1> QED
  BY <1>1, <1>2 DEF AuditMatches, Covered

(* A peer whose game ended on its board has seen every COMMIT there is.    *)
LEMMA AllSeen ==
  ASSUME CInv, NEW p \in Peer, outcome[p] \in BoardOutcomes
  PROVE  ~Unseen(p)
<1>0. IInv /\ Recorded /\ N(p) \in Nat
  BY OtherFacts, Lengths DEF CInv, IInv
<1>1. BoardOutcome(hist[p]) # "none"
  BY DEF CInv, Reports, BoardOutcomes
<1>2. L(p) = N(p) /\ L(Other(p)) <= N(p)
  BY <1>1, FinalTurn
<1>3. ASSUME NEW i \in DOMAIN ledger[p]
      PROVE  Observed(p, "sent", "commit", ledger[p][i].turn) # {}
  <2>1. ledger[p][i].turn \in 0 .. N(p) - 1
    BY <1>0, <1>2, LedgerEntry
  <2> QED
    BY <1>0, <2>1 DEF Recorded, Logged, Observed
<1>4. ASSUME NEW i \in DOMAIN ledger[Other(p)]
      PROVE  Observed(p, "received", "commit", ledger[Other(p)][i].turn) # {}
  <2>1. PICK q \in Peer : q = Other(p)
    BY OtherFacts
  <2>2. PICK n : n = ledger[q][i].turn
    OBVIOUS
  <2>3. n \in 0 .. N(p) - 1
    <3>1. i - 1 = n /\ i \in 1 .. L(q) /\ L(q) \in Nat
      BY <1>0, <1>4, <2>1, <2>2, LedgerEntry, Lengths DEF IInv
    <3> QED
      BY <1>0, <1>2, <2>1, <3>1
  <2>4. \E e : Record("received", n, Msg("commit", n, e, NoAct)) \in log[p]
    BY <1>0, <2>3 DEF Recorded, Held
  <2>5. \A e : LET r == Record("received", n, Msg("commit", n, e, NoAct)) IN
               r.dir = "received" /\ r.turn = n /\ r.msg.type = "commit"
    BY DEF Record, Msg
  <2>6. \E m : m \in Observed(p, "received", "commit", n)
    BY <2>4, <2>5 DEF Observed
  <2> QED
    BY <2>1, <2>2, <2>6
<1> QED
  BY <1>3, <1>4 DEF Unseen

-----------------------------------------------------------------------------
(* The invariant of the end of a game.                                     *)

EndInv ==
  /\ CInv
  /\ EndTypeOK
  /\ Concluded
  /\ AtHand
  /\ MismatchOnlyForUnseenCommit

(* No log loses a record, and no ledger an entry.                          *)
LEMMA EndClosing ==
  ASSUME EndInv, [EndNext]_endVars
  PROVE  CInv' /\ Grows /\ EndTypeOK'
<1>0. CInv /\ IInv /\ TypeOK /\ EndTypeOK
  BY DEF EndInv, CInv, IInv
<1>1. EndTypeOK' /\ TypeOK'
  BY <1>0, EndTypes DEF EndTypeOK
<1>2. ASSUME NEW p \in Peer, EndStep(p) \/ EndFault(p) PROVE CInv' /\ Grows
  <2>1. PICK x \in {"over", "gone"} : Behave(p, x)
    BY <1>0, <1>2, EndSteps DEF EndOf
  <2> QED
    BY <1>0, <1>1, <2>1, BehaveClosing, BehaveInv
<1>3. ASSUME NEW p \in Peer, PlayStep(p) \/ PlayFault(p) PROVE CInv' /\ Grows
  <2>1. Step(p) \/ Fault(p)
    BY <1>3 DEF PlayStep, PlayFault
  <2>2. [Next]_vars
    BY <2>1 DEF Next
  <2> QED
    BY <1>0, <1>1, <2>1, <2>2, StepClosing, LoopSteps, StepGrows
<1>4. CASE UNCHANGED endVars
  <2>1. UNCHANGED vars
    BY <1>4 DEF endVars
  <2>2. CInv'
    BY <1>0, <2>1, StepClosing
  <2>3. \A q \in Peer : L(q)' = L(q) /\ L(q) \in Nat
    BY <1>0, <2>1, Lengths DEF vars, L
  <2>4. ledger' = ledger /\ log' = log
    BY <2>1 DEF vars
  <2>5. Grows
    BY <2>3, <2>4 DEF Grows
  <2> QED
    BY <1>1, <2>2, <2>5
<1> QED
  BY <1>1, <1>2, <1>3, <1>4 DEF EndNext, Stopped

(* A peer that has concluded is behind its loop and moves no further.      *)
LEMMA LoopIsBefore ==
  ASSUME NEW p \in Peer, Step(p) \/ Fault(p)
  PROVE  pc[p] \notin {"over", "gone"}
BY DEF Step, Fault, Decide, PushAnswered, PushRefused, PushUnanswered, PushLost,
   WaitExpires, WaitExpiresEarly, Expire, Crash, Receive, TakeCommit, CaptureEarlyAck,
   TakeMatchingAck, AcceptAck, AcceptCommit, TakeReveal, DropJitter, Sending, Waiting

(* The steps behind the loop, by what they do to a conclusion.             *)
Goes(p) == UNCHANGED <<stage, verdict, result>>

LEMMA EndMoves ==
  ASSUME NEW p \in Peer, EndStep(p) \/ EndFault(p)
  PROVE  \/ Goes(p)
         \/ Collecting(p) /\ Audit(p) /\ UNCHANGED pc
         \/ /\ Collecting(p) /\ GiveUp(p) /\ UNCHANGED pc
BY DEF EndStep, EndFault, CollectEarly, Collect, CollectExpires, CollectExpiresEarly,
   GiveUp, Linger, Exit, CrashInAudit, Goes

LEMMA PublishedForEver ==
  ASSUME Grows, NEW p \in Peer, Published(p)
  PROVE  Published(p)'
BY DEF Grows, Published

(* A conclusion of p, and everyone else's kept.                            *)
LEMMA ConcludeTells ==
  ASSUME EndTypeOK, NEW p \in Peer, NEW v, Conclude(p, v), UNCHANGED outcome
  PROVE  /\ stage'[p] = "linger" /\ verdict'[p] = v
         /\ result'[p] = IF v \in {"mismatch", "unresponsive"}
                         THEN "technical_loss" ELSE outcome'[p]
         /\ \A q \in Peer : q # p => /\ stage'[q] = stage[q] /\ verdict'[q] = verdict[q]
                                     /\ result'[q] = result[q]
BY DEF Conclude, EndTypeOK

LEMMA ConcludedKept ==
  ASSUME EndInv, EndTypeOK', Grows, [EndNext]_endVars
  PROVE  Concluded'
<1>0. EndTypeOK /\ TypeOK /\ Concluded /\ CInv /\ IInv
  BY DEF EndInv, EndTypeOK, CInv
<1> DEFINE Mine(q) ==
      /\ stage[q] = "audit" => verdict[q] = "none"
      /\ stage[q] = "linger" =>
           /\ pc[q] \in {"over", "gone"} /\ verdict[q] # "none"
           /\ result[q] = IF verdict[q] \in {"mismatch", "unresponsive"}
                          THEN "technical_loss" ELSE outcome[q]
      /\ verdict[q] = "unresponsive" /\ outcome[q] # "none" => Published(q)
<1>1. \A q \in Peer : Mine(q)
  BY <1>0 DEF Concluded
<1>2. ASSUME NEW q \in Peer, stage'[q] = stage[q], verdict'[q] = verdict[q], result'[q] = result[q],
             \/ stage[q] = "audit"
             \/ outcome'[q] = outcome[q] /\ (pc[q] \in {"over", "gone"} => pc'[q] \in {"over", "gone"})
      PROVE  Mine(q)'
  <2>1. stage[q] \in {"audit", "linger"}
    BY <1>0 DEF EndTypeOK
  <2>2. Published(q) => Published(q)'
    BY PublishedForEver
  <2> QED
    BY <1>1, <1>2, <2>1, <2>2
<1>3. ASSUME NEW p \in Peer, PlayStep(p) \/ PlayFault(p), NEW q \in Peer PROVE Mine(q)'
  <2>1. (Step(p) \/ Fault(p)) /\ UNCHANGED <<stage, verdict, result>>
    BY <1>3 DEF PlayStep, PlayFault
  <2>2. CASE q = p
    <3>1. stage[q] = "audit"
      BY <1>0, <1>1, <2>1, <2>2, LoopIsBefore DEF EndTypeOK
    <3> QED
      BY <1>2, <2>1, <3>1
  <2>3. CASE q # p
    <3>1. TypeOK' /\ LoopStep(p)
      BY <1>0, <2>1, LoopSteps DEF EndTypeOK
    <3>2. pc'[q] = pc[q] /\ outcome'[q] = outcome[q]
      BY <1>0, <2>1, <2>3, <3>1, OthersStand, StepTells DEF NoOutcome, NewOutcome
    <3> QED
      BY <1>2, <2>1, <3>2
  <2> QED
    BY <2>2, <2>3
<1>4. ASSUME NEW p \in Peer, EndStep(p) \/ EndFault(p), NEW q \in Peer PROVE Mine(q)'
  <2>1. PICK x \in {"over", "gone"} : Behave(p, x)
    BY <1>0, <1>4, EndSteps DEF EndOf
  <2>2. /\ outcome' = outcome
        /\ pc[q] \in {"over", "gone"} => pc'[q] \in {"over", "gone"}
    BY <1>0, <2>1 DEF Behave, TypeOK
  <2>3. CASE Goes(p)
    BY <1>2, <2>2, <2>3 DEF Goes
  <2>4. ASSUME NEW v, Conclude(p, v), Collecting(p), v # "none",
               v = "unresponsive" /\ outcome[p] # "none" => Published(p)
        PROVE  Mine(q)'
    <3>1. CASE q # p
      BY <1>0, <1>2, <2>2, <2>4, <3>1, ConcludeTells
    <3>2. CASE q = p
      <4>1. /\ stage'[q] = "linger" /\ verdict'[q] = v
            /\ result'[q] = IF v \in {"mismatch", "unresponsive"}
                            THEN "technical_loss" ELSE outcome'[q]
        BY <1>0, <2>2, <2>4, <3>2, ConcludeTells
      <4>2. pc'[q] \in {"over", "gone"}
        BY <2>2, <2>4, <3>2 DEF Collecting
      <4>3. v = "unresponsive" /\ outcome'[q] # "none" => Published(q)'
        BY <2>2, <2>4, <3>2, PublishedForEver
      <4> QED
        BY <2>4, <4>1, <4>2, <4>3
    <3> QED
      BY <3>1, <3>2
  <2>5. CASE Collecting(p) /\ Audit(p)
    BY <2>4, <2>5 DEF Audit
  <2>6. CASE Collecting(p) /\ GiveUp(p)
    BY <2>4, <2>6 DEF GiveUp
  <2> QED
    BY <1>4, <2>3, <2>5, <2>6, EndMoves
<1>5. CASE UNCHANGED endVars
  BY <1>2, <1>5 DEF endVars, vars, Concluded
<1> QED
  BY <1>3, <1>4, <1>5 DEF EndNext, Stopped, Concluded

-----------------------------------------------------------------------------
(* A ledger that reached its reader.                                       *)

HasFinal(s) == \E i \in 1 .. Len(s) : s[i].type = "final_reveal"

(* Reading another envelope leaves it in the queue...                      *)
LEMMA TailHasFinal ==
  ASSUME NEW s \in Seq(Messages), s # <<>>, HasFinal(s), Head(s).type # "final_reveal"
  PROVE  HasFinal(Tail(s))
<1>1. PICK i \in 1 .. Len(s) : s[i].type = "final_reveal"
  BY DEF HasFinal
<1>2. /\ Head(s) = s[1] /\ Len(s) \in Nat \ {0} /\ Len(Tail(s)) = Len(s) - 1
      /\ \A j \in 1 .. Len(Tail(s)) : Tail(s)[j] = s[j + 1]
  BY TailFacts
<1>3. i # 1
  BY <1>1, <1>2
<1>4. i - 1 \in 1 .. Len(Tail(s)) /\ (i - 1) + 1 = i
  BY <1>1, <1>2, <1>3
<1> QED
  BY <1>1, <1>2, <1>4 DEF HasFinal

LEMMA AppendHasFinal ==
  ASSUME NEW s \in Seq(Messages), NEW m \in Messages
  PROVE  /\ HasFinal(s) => HasFinal(Append(s, m))
         /\ m.type = "final_reveal" => HasFinal(Append(s, m))
<1>1. /\ Len(s) \in Nat /\ Len(Append(s, m)) = Len(s) + 1
      /\ \A i \in 1 .. Len(s) : Append(s, m)[i] = s[i]
      /\ Append(s, m)[Len(s) + 1] = m
  BY AppendFacts
<1>2. \A i \in 1 .. Len(s) : i \in 1 .. Len(Append(s, m))
  BY <1>1
<1>3. Len(s) + 1 \in 1 .. Len(Append(s, m))
  BY <1>1
<1> QED
  BY <1>1, <1>2, <1>3 DEF HasFinal

(* ... and so does the drain that may put one back at the other end.       *)
LEMMA DrainHasFinal ==
  ASSUME NEW s \in Seq(Messages), HasFinal(s)
  PROVE  HasFinal(Drained(s))
<1>1. s # <<>>
  BY DEF HasFinal
<1>2. Tail(s) \in Seq(Messages) /\ Head(s) \in Messages
  BY <1>1
<1>3. CASE Head(s).type = "hint"
  BY <1>1, <1>3, TailHasFinal DEF Drained
<1>4. CASE Head(s).type # "hint"
  <2>1. Drained(s) = Append(Tail(s), Head(s))
    BY <1>1, <1>4 DEF Drained
  <2>2. CASE Head(s).type = "final_reveal"
    BY <1>2, <2>1, <2>2, AppendHasFinal
  <2>3. CASE Head(s).type # "final_reveal"
    BY <1>1, <1>2, <2>1, <2>3, TailHasFinal, AppendHasFinal
  <2> QED
    BY <2>2, <2>3
<1> QED
  BY <1>3, <1>4

(* What a step of a turn loop does to the inboxes and to `early`.          *)
LEMMA StepReads ==
  ASSUME IInv, NEW p \in Peer, Step(p) \/ Fault(p)
  PROVE  \/ UNCHANGED <<inbox, early>>
         \/ pc[p] \in Sending /\ Enqueue(p) /\ UNCHANGED early
         \/ inbox[p] # <<>> /\ Take(p) /\ Head(inbox[p]).type # "final_reveal" /\ UNCHANGED early
         \/ inbox[p] # <<>> /\ Take(p) /\ early' = [early EXCEPT ![p] = @ \/ Head(inbox[p]).type = "final_reveal"]
         \/ /\ inbox[p] # <<>> /\ Head(inbox[p]).type = "reveal" /\ UNCHANGED early
            /\ inbox' = [inbox EXCEPT ![p] = Drained(Tail(@))]
<1>1. CASE PushAnswered(p) \/ PushRefused(p) \/ PushUnanswered(p) \/ PushLost(p)
  BY <1>1 DEF PushAnswered, PushRefused, PushUnanswered, PushLost
<1>2. CASE Decide \/ WaitExpires(p) \/ WaitExpiresEarly(p) \/ Crash(p)
  BY <1>2 DEF Decide, WaitExpires, WaitExpiresEarly, Expire, Crash
<1>3. CASE Receive(p)
  <2>1. PICK m : m = Head(inbox[p]) /\ inbox[p] # <<>>
    BY <1>3 DEF Receive
  <2>2. CASE p = "thief" /\ (TakeCommit(m) \/ CaptureEarlyAck(m) \/ TakeMatchingAck(m))
    BY <2>1, <2>2 DEF TakeCommit, CaptureEarlyAck, TakeMatchingAck
  <2>3. CASE p = "police" /\ (AcceptAck(m) \/ AcceptCommit(m))
    BY <2>1, <2>3 DEF AcceptAck, AcceptCommit
  <2>4. CASE TakeReveal(p, m)
    BY <2>1, <2>4 DEF TakeReveal
  <2>5. CASE DropJitter(p, m)
    BY <2>1, <2>5 DEF DropJitter
  <2> QED
    BY <1>3, <2>1, <2>2, <2>3, <2>4, <2>5 DEF Receive
<1> QED
  BY <1>1, <1>2, <1>3 DEF Step, Fault

LEMMA AwaitedKept ==
  ASSUME IInv, NEW p \in Peer, Step(p) \/ Fault(p), NEW q \in Peer, Awaited(q)
  PROVE  Awaited(q)'
<1>0. /\ inbox \in [Peer -> Seq(Messages)] /\ early \in [Peer -> BOOLEAN]
      /\ inbox[q] \in Seq(Messages)
  BY DEF IInv, TypeOK
<1>1. early[q] \/ HasFinal(inbox[q])
  BY DEF Awaited, HasFinal
<1> SUFFICES early'[q] \/ HasFinal(inbox'[q])
  BY DEF Awaited, HasFinal
<1>2. CASE UNCHANGED <<inbox, early>>
  BY <1>1, <1>2
<1>3. CASE pc[p] \in Sending /\ Enqueue(p) /\ UNCHANGED early
  <2>1. Outgoing(p) \in Messages
    BY OutgoingType DEF IInv
  <2>2. inbox'[q] \in {inbox[q], Append(inbox[q], Outgoing(p))}
    BY <1>0, <1>3 DEF Enqueue
  <2> QED
    BY <1>0, <1>1, <1>3, <2>1, <2>2, AppendHasFinal
<1>4. CASE /\ inbox[p] # <<>> /\ Take(p) /\ Head(inbox[p]).type # "final_reveal"
           /\ UNCHANGED early
  <2>1. inbox'[q] = IF q = p THEN Tail(inbox[q]) ELSE inbox[q]
    BY <1>0, <1>4 DEF Take
  <2> QED
    BY <1>0, <1>1, <1>4, <2>1, TailHasFinal
<1>5. CASE /\ inbox[p] # <<>> /\ Take(p)
           /\ early' = [early EXCEPT ![p] = @ \/ Head(inbox[p]).type = "final_reveal"]
  <2>1. /\ inbox'[q] = IF q = p THEN Tail(inbox[q]) ELSE inbox[q]
        /\ early'[q] = IF q = p THEN early[q] \/ Head(inbox[p]).type = "final_reveal" ELSE early[q]
    BY <1>0, <1>5 DEF Take
  <2>2. CASE q # p
    BY <1>1, <2>1, <2>2
  <2>3. CASE q = p /\ Head(inbox[p]).type = "final_reveal"
    BY <2>1, <2>3
  <2>4. CASE q = p /\ Head(inbox[p]).type # "final_reveal"
    <3>1. early[q] => early'[q]
      BY <2>1, <2>4
    <3>2. HasFinal(inbox[q]) => HasFinal(inbox'[q])
      BY <1>0, <1>5, <2>1, <2>4, TailHasFinal
    <3> QED
      BY <1>1, <3>1, <3>2
  <2> QED
    BY <2>2, <2>3, <2>4
<1>6. CASE /\ inbox[p] # <<>> /\ Head(inbox[p]).type = "reveal" /\ UNCHANGED early
           /\ inbox' = [inbox EXCEPT ![p] = Drained(Tail(@))]
  <2>1. inbox'[q] = IF q = p THEN Drained(Tail(inbox[q])) ELSE inbox[q]
    BY <1>0, <1>6
  <2>2. CASE q = p /\ HasFinal(inbox[q])
    <3>1. HasFinal(Tail(inbox[q])) /\ Tail(inbox[q]) \in Seq(Messages)
      BY <1>0, <1>6, <2>2, TailHasFinal
    <3> QED
      BY <2>1, <2>2, <3>1, DrainHasFinal
  <2> QED
    BY <1>1, <1>6, <2>1, <2>2
<1> QED
  BY <1>2, <1>3, <1>4, <1>5, <1>6, StepReads

(* A publication is answered by a reader that has the ledger in its queue. *)
LEMMA Publishes ==
  ASSUME IInv, [Next]_vars, NEW p \in Peer, ~Published(p), Published(p)'
  PROVE  HasFinal(inbox'[Other(p)])
<1>1. PICK r \in log'[p] : r.dir = "sent" /\ r.msg.type = "final_reveal"
  BY DEF Published
<1>2. r \notin log[p]
  BY <1>1 DEF Published
<1>3. pc[p] \in Sending /\ r = Record("sent", Outgoing(p).turn, Outgoing(p)) /\ Enqueue(p)
  BY <1>1, <1>2, NewRecords DEF NewRecord, Record, IInv
<1>4. Outgoing(p).type = "final_reveal"
  BY <1>1, <1>3 DEF Record
<1>5. Outgoing(p) \in Messages /\ inbox \in [Peer -> Seq(Messages)] /\ Other(p) \in Peer
  BY <1>3, OutgoingType, OtherFacts DEF IInv, TypeOK
<1>6. inbox'[Other(p)] = Append(inbox[Other(p)], Outgoing(p))
  BY <1>3, <1>5 DEF Enqueue
<1> QED
  BY <1>4, <1>5, <1>6, AppendHasFinal

LEMMA AtHandKept ==
  ASSUME EndInv, EndTypeOK', [EndNext]_endVars
  PROVE  AtHand'
<1> SUFFICES ASSUME NEW q \in Peer, Published(Other(q))', pc'[q] # "gone", stage'[q] = "audit"
             PROVE  Awaited(q)'
  BY DEF AtHand
<1>0. EndTypeOK /\ TypeOK /\ IInv /\ AtHand /\ Concluded /\ TypeOK'
  BY DEF EndInv, EndTypeOK, CInv, IInv
<1>1. PICK o \in Peer : o = Other(q) /\ Other(o) = q
  BY OtherFacts
<1>2. ASSUME NEW p \in Peer, PlayStep(p) \/ PlayFault(p) PROVE Awaited(q)'
  <2>1. Step(p) \/ Fault(p)
    BY <1>2 DEF PlayStep, PlayFault
  <2>2. [Next]_vars /\ stage[q] = "audit"
    BY <1>2, <2>1 DEF PlayStep, PlayFault, Next
  <2>3. pc[q] # "gone"
    <3>1. CASE q = p
      BY <2>1, <3>1, LoopIsBefore
    <3>2. CASE q # p
      BY <1>0, <2>1, <3>2, LoopSteps, OthersStand
    <3> QED
      BY <3>1, <3>2
  <2>4. CASE Published(o)
    BY <1>0, <1>1, <2>1, <2>2, <2>3, <2>4, AwaitedKept DEF AtHand
  <2>5. CASE ~Published(o)
    BY <1>0, <1>1, <2>2, <2>5, Publishes DEF Awaited, HasFinal
  <2> QED
    BY <2>4, <2>5
<1>3. ASSUME NEW p \in Peer, EndStep(p) \/ EndFault(p) PROVE Awaited(q)'
  <2>1. PICK x \in {"over", "gone"} : Behave(p, x)
    BY <1>0, <1>3, EndSteps DEF EndOf
  <2>2. Published(o)
    BY <1>0, <1>1, <2>1, BehaveQuiet DEF Published
  <2>3. pc[q] # "gone" /\ inbox[q] \in Seq(Messages) /\ inbox \in [Peer -> Seq(Messages)]
    BY <1>0, <2>1 DEF Behave, TypeOK
  <2>4. ~(q = p /\ (Audit(p) \/ GiveUp(p)))
    BY <1>0 DEF Audit, GiveUp, Conclude, EndTypeOK
  <2>5. stage[q] = "audit"
    BY <1>0, <1>3, <2>4, EndMoves DEF Goes, Audit, GiveUp, Conclude, EndTypeOK
  <2>6. early[q] \/ HasFinal(inbox[q])
    BY <1>0, <1>1, <2>2, <2>3, <2>5 DEF AtHand, Awaited, HasFinal
  <2>7. CASE q # p
    <3>1. early'[q] = early[q]
      BY <1>0, <1>3, <2>7 DEF EndStep, EndFault, CollectEarly, Collect, CollectExpires,
         CollectExpiresEarly, GiveUp, Linger, Exit, CrashInAudit, TypeOK
    <3>2. inbox'[q] = inbox[q]
      BY <2>1, <2>3, <2>7 DEF Behave, Take
    <3> QED
      BY <2>6, <3>1, <3>2 DEF Awaited, HasFinal
  <2>8. CASE q = p
    <3>1. ~CollectEarly(p) /\ ~CollectExpires(p) /\ ~CollectExpiresEarly(p)
          /\ ~Linger(p) /\ ~Exit(p) /\ ~CrashInAudit(p)
      BY <1>0, <2>4, <2>5, <2>8
         DEF CollectEarly, CollectExpires, CollectExpiresEarly, Linger, Exit, CrashInAudit, TypeOK
    <3>2. /\ inbox[p] # <<>> /\ Take(p) /\ UNCHANGED early
          /\ Head(inbox[p]).type = "final_reveal" => Audit(p)
      BY <1>3, <3>1 DEF EndStep, EndFault, Collect
    <3>3. HasFinal(inbox[q]) => HasFinal(inbox'[q])
      BY <2>3, <2>4, <2>8, <3>2, TailHasFinal DEF Take
    <3> QED
      BY <2>6, <3>2, <3>3 DEF Awaited, HasFinal
  <2> QED
    BY <2>7, <2>8
<1>4. CASE UNCHANGED endVars
  BY <1>0, <1>4 DEF endVars, vars, AtHand, Awaited, Published
<1> QED
  BY <1>2, <1>3, <1>4 DEF EndNext, Stopped

(* A peer behind its loop sees no COMMIT any more.                         *)
LEMMA LogRests ==
  ASSUME EndInv, [EndNext]_endVars, NEW p \in Peer, pc[p] \in {"over", "gone"}, NEW dir, NEW n
  PROVE  Observed(p, dir, "commit", n)' = Observed(p, dir, "commit", n)
<1>0. TypeOK /\ IInv
  BY DEF EndInv, CInv, IInv
<1>1. \A r \in log'[p] : r \in log[p] \/ r.msg.type = "game_over"
  <2>1. ASSUME NEW o \in Peer, EndStep(o) \/ EndFault(o), NEW r \in log'[p]
        PROVE  r \in log[p] \/ r.msg.type = "game_over"
    BY <1>0, <2>1, EndSteps, BehaveQuiet DEF EndOf
  <2>2. ASSUME [Next]_vars, NEW r \in log'[p]
        PROVE  r \in log[p]
    BY <1>0, <2>2, NewRecords DEF NewRecord, Sending, Waiting
  <2> QED
    BY <2>1, <2>2 DEF EndNext, PlayStep, PlayFault, Next, Stopped, endVars
<1>2. log[p] \subseteq log'[p]
  BY EndClosing DEF Grows
<1> QED
  BY <1>1, <1>2 DEF Observed

LEMMA UnseenForEver ==
  ASSUME EndInv, [EndNext]_endVars, NEW p \in Peer, pc[p] \in {"over", "gone"}, Unseen(p)
  PROVE  Unseen(p)'
<1>0. Grows /\ EndTypeOK' /\ TypeOK
  BY EndClosing DEF EndInv, EndTypeOK
<1>1. ASSUME NEW o \in Peer, NEW i \in DOMAIN ledger[o]
      PROVE  i \in DOMAIN ledger'[o] /\ ledger'[o][i] = ledger[o][i]
  <2>1. ledger[o] \in Seq(Seals) /\ ledger'[o] \in Seq(Seals)
    BY <1>0 DEF EndTypeOK, TypeOK
  <2>2. L(o) \in Nat /\ L(o)' \in Nat /\ i \in 1 .. L(o) /\ L(o) <= L(o)'
    BY <1>0, <1>1, <2>1, LenProperties DEF Grows, L
  <2>3. ledger'[o][i] = ledger[o][i]
    BY <1>0, <2>2 DEF Grows
  <2>4. i \in 1 .. Len(ledger'[o])
    BY <2>2 DEF L
  <2> QED
    BY <2>1, <2>3, <2>4
<1>2. PICK q \in Peer : q = Other(p)
  BY OtherFacts
<1>3. CASE \E i \in DOMAIN ledger[p] : Observed(p, "sent", "commit", ledger[p][i].turn) = {}
  <2>1. PICK i \in DOMAIN ledger[p] : Observed(p, "sent", "commit", ledger[p][i].turn) = {}
    BY <1>3
  <2>2. PICK n : n = ledger[p][i].turn
    OBVIOUS
  <2>3. Observed(p, "sent", "commit", n)' = {} /\ ledger'[p][i].turn = n
    BY <1>1, <2>1, <2>2, LogRests
  <2>4. Observed(p, "sent", "commit", ledger[p][i].turn)' = {}
    BY <2>3 DEF Observed
  <2> QED
    BY <1>1, <2>4 DEF Unseen
<1>4. CASE \E i \in DOMAIN ledger[q] : Observed(p, "received", "commit", ledger[q][i].turn) = {}
  <2>1. PICK i \in DOMAIN ledger[q] : Observed(p, "received", "commit", ledger[q][i].turn) = {}
    BY <1>4
  <2>2. PICK n : n = ledger[q][i].turn
    OBVIOUS
  <2>3. Observed(p, "received", "commit", n)' = {} /\ ledger'[q][i].turn = n
    BY <1>1, <2>1, <2>2, LogRests
  <2>4. Observed(p, "received", "commit", ledger[q][i].turn)' = {}
    BY <2>3 DEF Observed
  <2> QED
    BY <1>1, <1>2, <2>4 DEF Unseen
<1> QED
  BY <1>2, <1>3, <1>4 DEF Unseen

LEMMA MismatchKept ==
  ASSUME EndInv, EndTypeOK', [EndNext]_endVars
  PROVE  MismatchOnlyForUnseenCommit'
<1> SUFFICES ASSUME NEW q \in Peer, verdict'[q] = "mismatch" PROVE Unseen(q)'
  BY DEF MismatchOnlyForUnseenCommit, Unseen
<1>0. EndTypeOK /\ Concluded /\ CInv
  BY DEF EndInv
<1>1. CASE verdict[q] = "mismatch"
  <2>1. Unseen(q)
    BY <1>1 DEF EndInv, MismatchOnlyForUnseenCommit, Unseen
  <2>2. pc[q] \in {"over", "gone"}
    BY <1>0, <1>1 DEF Concluded, EndTypeOK
  <2> QED
    BY <2>1, <2>2, UnseenForEver
<1>2. CASE verdict[q] # "mismatch"
  <2>1. PICK p \in Peer : EndStep(p) \/ EndFault(p)
    BY <1>2 DEF EndNext, PlayStep, PlayFault, Stopped, endVars
  <2>2. CASE Goes(p)
    BY <1>2, <2>2 DEF Goes
  <2>3. CASE Collecting(p) /\ Audit(p)
    <3>1. q = p /\ ~SymmetricAudit(p)
      BY <1>0, <1>2, <2>3 DEF Audit, Conclude, EndTypeOK
    <3>2. Unseen(q) /\ pc[q] \in {"over", "gone"}
      BY <1>0, <2>3, <3>1, AuditFails DEF Collecting
    <3> QED
      BY <3>2, UnseenForEver
  <2>4. CASE GiveUp(p)
    BY <1>0, <1>2, <2>4 DEF GiveUp, Conclude, EndTypeOK
  <2> QED
    BY <2>1, <2>2, <2>3, <2>4, EndMoves
<1> QED
  BY <1>1, <1>2

LEMMA EndInitInv == EndInit => EndInv
<1> SUFFICES ASSUME EndInit PROVE EndInv
  OBVIOUS
<1>1. CInv /\ TypeOK
  BY InitClosing DEF EndInit, CInv, IInv
<1>2. /\ stage = [p \in Peer |-> "audit"] /\ verdict = [p \in Peer |-> "none"]
      /\ result = [p \in Peer |-> "none"]
  BY DEF EndInit
<1>3. EndTypeOK /\ Concluded /\ MismatchOnlyForUnseenCommit
  BY <1>1, <1>2 DEF EndTypeOK, Concluded, MismatchOnlyForUnseenCommit, Verdicts, Outcomes
<1>4. AtHand
  BY OtherFacts DEF EndInit, Init, AtHand, Published
<1> QED
  BY <1>1, <1>3, <1>4 DEF EndInv

LEMMA EndStepInv == EndInv /\ [EndNext]_endVars => EndInv'
  BY EndClosing, ConcludedKept, AtHandKept, MismatchKept DEF EndInv

(* The turn loops with the audit and the teardown behind them: CInv still  *)
(* holds, and so does what a conclusion stands on.                         *)
THEOREM EndInvariance == EndSpec => []EndInv
BY EndInitInv, EndStepInv, PTL DEF EndSpec

(* Publication, audit, linger and exit seal and play nothing: over whole   *)
(* processes, from the first turn to the exit, the two peers still play    *)
(* the one abstract game, and no step behind a loop takes back a turn.     *)
THEOREM EndImplements == EndSpec => ImplementsJointGame
<1>1. EndInit => Joint!GameInit
  BY InitRefines DEF EndInit
<1>2. EndInv /\ EndInv' /\ [EndNext]_endVars => [Joint!GameNext]_(Joint!gameVars)
  <2> SUFFICES ASSUME EndInv, EndInv', [EndNext]_endVars
               PROVE  [Joint!GameNext]_(Joint!gameVars)
    OBVIOUS
  <2>1. TypeOK /\ IInv /\ IInv'
    BY DEF EndInv, CInv, IInv
  <2>2. CASE [Next]_vars
    BY <2>1, <2>2, StepRefines
  <2>3. ASSUME NEW p \in Peer, EndStep(p) \/ EndFault(p)
        PROVE  UNCHANGED <<ledger, hist>>
    BY <2>1, <2>3, EndSteps DEF EndOf, Behave
  <2>4. CASE UNCHANGED <<ledger, hist>>
    BY <2>4, UnseenByJointGame
  <2> QED
    BY <2>2, <2>3, <2>4 DEF EndNext, PlayStep, PlayFault, Next, Stopped, endVars
<1> QED
  BY <1>1, <1>2, EndInvariance, PTL DEF EndSpec, ImplementsJointGame, Joint!Spec

-----------------------------------------------------------------------------
(* What the invariant gives of the audit.                                  *)

(* audit.py never accuses an honest peer by its hashes, its actions or its *)
(* coverage: whatever was lost, repeated or late, the only ledger entry    *)
(* that can fail is one whose COMMIT call never completed.                 *)
THEOREM HonestAudits == EndSpec => []MismatchOnlyForUnseenCommit
<1>1. EndInv => MismatchOnlyForUnseenCommit
  BY DEF EndInv
<1> QED
  BY <1>1, EndInvariance, PTL

(* A capture or a survival is never taken back by a hash mismatch, only    *)
(* from a peer that stays silent although it has this peer's ledger.       *)
THEOREM OutcomeStands == EndSpec => []BoardOutcomeStands
<1>1. EndInv => BoardOutcomeStands
  <2> SUFFICES ASSUME EndInv, NEW p \in Peer, outcome[p] \in BoardOutcomes, verdict[p] # "none"
               PROVE  \/ result[p] = outcome[p]
                      \/ verdict[p] = "unresponsive" /\ Published(p)
    BY DEF BoardOutcomeStands
  <2>1. Concluded /\ EndTypeOK /\ CInv /\ MismatchOnlyForUnseenCommit
    BY DEF EndInv
  <2>2. stage[p] = "linger"
    BY <2>1 DEF Concluded, EndTypeOK
  <2>3. verdict[p] # "mismatch"
    BY <2>1, AllSeen DEF MismatchOnlyForUnseenCommit, Unseen
  <2>4. verdict[p] = "unresponsive" => Published(p)
    BY <2>1 DEF Concluded, BoardOutcomes
  <2> QED
    BY <2>1, <2>2, <2>3, <2>4 DEF Concluded
<1> QED
  BY <1>1, EndInvariance, PTL

(* A ledger whose publication was answered is audited: final_reveal.py     *)
(* does not give up on a peer whose ledger the machine has already taken   *)
(* in, whichever wait took it.                                             *)
THEOREM LedgersAreHeard == EndSpec => PublishedIsHeard
<1>1. EndInv /\ [EndNext]_endVars =>
        [\A p \in Peer :
           Published(Other(p)) => (verdict'[p] = verdict[p]
                                   \/ verdict'[p] \in {"matched", "mismatch"})]_endVars
  <2> SUFFICES ASSUME EndInv, [EndNext]_endVars, NEW p \in Peer, Published(Other(p)),
                      verdict'[p] # verdict[p]
               PROVE  verdict'[p] \in {"matched", "mismatch"}
    OBVIOUS
  <2>1. EndTypeOK /\ AtHand /\ TypeOK
    BY DEF EndInv, EndTypeOK
  <2>2. PICK o \in Peer : EndStep(o) \/ EndFault(o)
    BY DEF EndNext, PlayStep, PlayFault, Stopped, endVars
  <2>3. ~Goes(o)
    BY DEF Goes
  <2>4. CASE Collecting(o) /\ Audit(o)
    BY <2>1, <2>4 DEF Audit, Conclude, EndTypeOK
  <2>5. CASE Collecting(o) /\ GiveUp(o)
    <3>1. o = p
      BY <2>1, <2>5 DEF GiveUp, Conclude, EndTypeOK
    <3>2. ~Awaited(p)
      <4>1. inbox[p] = <<>> /\ ~early[p]
        BY <2>5, <3>1 DEF GiveUp
      <4> QED
        BY <4>1 DEF Awaited
    <3>3. pc[p] # "gone" /\ stage[p] = "audit"
      BY <2>5, <3>1 DEF Collecting
    <3> QED
      BY <2>1, <3>2, <3>3 DEF AtHand
  <2> QED
    BY <2>2, <2>3, <2>4, <2>5, EndMoves
<1> QED
  BY <1>1, EndInvariance, PTL DEF EndSpec, PublishedIsHeard

-----------------------------------------------------------------------------
(* What the invariant gives of the journals.                               *)

LEMMA WireIsObserved ==
  \A p \in Peer : \A dir, type, n : Wire(p, dir, type, n) = Observed(p, dir, type, n)
BY DEF Wire, Filed, JoinKey, Observed

(* A journal holds the one seal of each turn of its owner.                 *)
LEMMA OpenedOnce ==
  ASSUME IInv, NEW p \in Peer, NEW n \in Nat, n < L(p)
  PROVE  LedgerEntries(p, n) = {ledger[p][n + 1]}
<1>1. L(p) \in Nat /\ DOMAIN ledger[p] = 1 .. L(p)
  BY Lengths DEF IInv, L
<1>2. n + 1 \in DOMAIN ledger[p]
  BY <1>1
<1>3. \A i \in DOMAIN ledger[p] : ledger[p][i].turn = i - 1
  BY LedgerEntry
<1>4. \A i \in DOMAIN ledger[p] : ledger[p][i].turn = n <=> i = n + 1
  BY <1>1, <1>3
<1> QED
  BY <1>2, <1>4 DEF LedgerEntries

(* The opponent's move of a turn its owner resolved, as the journal has it.*)
LEMMA ToldOnce ==
  ASSUME CInv, NEW p \in Peer, NEW n \in 0 .. N(p) - 1
  PROVE  Told(p, n) = {ledger[Other(p)][n + 1].act}
<1> DEFINE S == Observed(p, "received", "reveal", n)
<1>1. TurnRecord(p, n).received["reveal"] = S
  BY WireIsObserved DEF TurnRecord
<1>2. Logged(p, "received", "reveal", n)
  BY DEF CInv, Recorded
<1>3. S # {}
  BY <1>2 DEF Logged, Observed
<1>4. \A m \in S : m.act = ledger[Other(p)][n + 1].act
  BY ObservedMatches
<1> HIDE DEF S
<1> QED
  BY <1>1, <1>3, <1>4 DEF Told

(* What p has on record as sent in turn n is its own entry for turn n.     *)
LEMMA JournalOpens ==
  ASSUME CInv, NEW p \in Peer
  PROVE  OpensWhatItSent(p)
<1> SUFFICES ASSUME NEW n, NEW m \in Observed(p, "sent", "commit", n)
             PROVE  m.seal \in LedgerEntries(p, n)
  BY WireIsObserved DEF OpensWhatItSent, TurnRecord
<1>1. n \in 0 .. L(p) - 1 /\ m.seal = ledger[p][n + 1] /\ L(p) \in Nat
  BY ObservedMatches, Lengths DEF CInv, IInv
<1>2. LedgerEntries(p, n) = {ledger[p][n + 1]}
  BY <1>1, OpenedOnce DEF CInv
<1> QED
  BY <1>1, <1>2

LEMMA JournalTells ==
  ASSUME CInv, NEW p \in Peer
  PROVE  TellsTheGame(p)
<1> SUFFICES ASSUME NEW n \in 0 .. N(p) - 1
             PROVE  \E s \in LedgerEntries(p, n), a \in Told(p, n) :
                      /\ LedgerEntries(p, n) = {s} /\ Told(p, n) = {a}
                      /\ JointTurn(p, s.act, a) = hist[p][n + 1]
  BY DEF TellsTheGame, N
<1> DEFINE q == Other(p)  s == ledger[p][n + 1]  a == ledger[q][n + 1].act
<1>0. IInv /\ q \in Peer
  BY OtherFacts DEF CInv
<1>1. n \in Nat /\ \A o \in Peer : N(o) \in Nat /\ L(o) \in Nat
  BY <1>0, Lengths DEF IInv
<1>2. n < L(p)
  <2>1. "thief" \in Peer /\ N(p) <= N("thief")
    BY <1>0, <1>1 DEF IInv, Counting, Peer
  <2>2. N("thief") <= L(p)
    BY <1>0 DEF IInv, Counting
  <2> QED
    BY <1>1, <2>1, <2>2
<1>3. LedgerEntries(p, n) = {s} /\ Told(p, n) = {a}
  BY <1>0, <1>1, <1>2, OpenedOnce, ToldOnce
<1>4. hist[p][n + 1] = <<ledger["police"][n + 1].act, ledger["thief"][n + 1].act>>
  BY <1>0, <1>1 DEF IInv, Binding
<1>5. JointTurn(p, s.act, a) = hist[p][n + 1]
  BY <1>4 DEF JointTurn, Other, Peer
<1> QED
  BY <1>3, <1>5

LEMMA JournalCorroborates ==
  ASSUME CInv, NEW p \in Peer
  PROVE  Corroborates(p)
<1>0. IInv /\ Sincere /\ Recorded /\ TypeOK
  BY DEF CInv, IInv
<1>1. PICK q \in Peer : q = Other(p)
  BY OtherFacts
<1> SUFFICES ASSUME NEW n \in 0 .. N(p) - 1, n < N(q)
             PROVE  /\ {m.seal : m \in Observed(p, "received", "commit", n)} = LedgerEntries(q, n)
                    /\ {m.seal : m \in Observed(p, "sent", "ack", n)} \subseteq LedgerEntries(q, n)
                    /\ Told(p, n) = {s.act : s \in LedgerEntries(q, n)}
  BY <1>1, WireIsObserved DEF Corroborates, TurnRecord, N
<1>2. Held(p, n) /\ n \in Nat /\ n < L(q)
  BY <1>0, <1>1, Lengths DEF Recorded, Held, L
<1>3. LedgerEntries(q, n) = {ledger[q][n + 1]}
  BY <1>0, <1>2, OpenedOnce
<1>4. {m.seal : m \in Observed(p, "received", "commit", n)} = {ledger[q][n + 1]}
  <2>1. \A m \in Observed(p, "received", "commit", n) : m.seal = ledger[q][n + 1]
    BY <1>1, ObservedMatches
  <2>2. Observed(p, "received", "commit", n) # {}
    <3>1. PICK r \in log[p] : r = Record("received", n, Msg("commit", n, ledger[q][n + 1], NoAct))
      BY <1>1, <1>2 DEF Held
    <3>2. r.dir = "received" /\ r.turn = n /\ r.msg.type = "commit"
      BY <3>1 DEF Record, Msg
    <3> QED
      BY <3>2 DEF Observed
  <2> QED
    BY <2>1, <2>2
<1>5. ASSUME NEW m \in Observed(p, "sent", "ack", n) PROVE m.seal = ledger[q][n + 1]
  <2>1. PICK r \in log[p] : r.dir = "sent" /\ r.turn = n /\ r.msg.type = "ack" /\ r.msg = m
    BY <1>5, ObservedRecords
  <2>2. m.turn = n /\ Lasting(p, m)
    BY <1>0, <2>1 DEF Sincere
  <2> QED
    BY <1>1, <2>1, <2>2 DEF Lasting
<1>6. Told(p, n) = {ledger[q][n + 1].act}
  BY <1>1, ToldOnce
<1> QED
  BY <1>3, <1>4, <1>5, <1>6

(* A claim on a report is the police's, and the thief's board has it too.  *)
LEMMA ClaimIsBacked ==
  ASSUME CInv, NEW p \in Peer, PeerClaims(p) # {} \/ Declared(Other(p))
  PROVE  p = "thief" /\ outcome["police"] = "capture" /\ DeclaresCapture(Other(p))
<1>1. PICK q \in Peer : q = Other(p) /\ Other(q) = p
  BY OtherFacts
<1>2. Claimed(q)
  BY <1>1 DEF PeerClaims, Declared, Claimed
<1>3. q = "police" /\ outcome[q] = "capture"
  BY <1>2 DEF CInv, Backed
<1> QED
  BY <1>1, <1>3 DEF DeclaresCapture, Other, Peer

(* The journal log_<game_id>.json is enough to tell a game, it opens every *)
(* commitment it has as sent, and the two journals of a game corroborate   *)
(* each other: artifact_log.py builds it from two files of one peer, with  *)
(* no access to the board.                                                 *)
THEOREM Journals == EndSpec => []JournalsTellTheGame
<1>1. EndInv => JournalsTellTheGame
  <2> SUFFICES ASSUME EndInv, NEW p \in Peer, Written(p)
               PROVE  /\ OpensWhatItSent(p)
                      /\ TellsTheGame(p)
                      /\ Written(Other(p)) => Corroborates(p)
                      /\ PeerClaims(p) # {} \/ Declared(Other(p)) => DeclaresCapture(Other(p))
                      /\ Agreed(p) = "contradicted" => result[p] = "technical_loss"
    BY DEF JournalsTellTheGame
  <2>1. CInv /\ Concluded /\ EndTypeOK /\ TypeOK
    BY DEF EndInv, EndTypeOK
  <2>2. PeerClaims(p) # {} \/ Declared(Other(p)) => DeclaresCapture(Other(p))
    BY <2>1, ClaimIsBacked
  <2>3. ASSUME Agreed(p) = "contradicted" PROVE result[p] = "technical_loss"
    <3>1. PeerClaims(p) # {} /\ result[p] # "capture"
      BY <2>3 DEF Agreed
    <3>2. p = "thief" /\ outcome["police"] = "capture"
      BY <2>1, <3>1, ClaimIsBacked
    <3>3. BoardOutcome(hist["thief"]) = "capture"
      <4>1. "police" \in Peer /\ BoardOutcome(hist["police"]) = "capture"
        BY <2>1, <3>2 DEF CInv, Reports, BoardOutcomes, Peer
      <4>2. hist["thief"] = hist["police"]
        BY <2>1, <4>1, FinalTurn
      <4> QED
        BY <4>1, <4>2
    <3>4. outcome[p] \in {"capture", "technical_loss"}
      BY <2>1, <3>2, <3>3 DEF Written, TypeOK, Outcomes, CInv, Reports, BoardOutcomes
    <3>5. stage[p] = "linger"
      BY <2>1 DEF Written, Concluded, EndTypeOK
    <3> QED
      BY <2>1, <3>1, <3>4, <3>5 DEF Concluded
  <2> QED
    BY <2>1, <2>2, <2>3, JournalOpens, JournalTells, JournalCorroborates
<1> QED
  BY <1>1, EndInvariance, PTL
=============================================================================
