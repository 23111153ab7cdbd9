--------------------------- MODULE BoardGame_proofs ---------------------------
(***************************************************************************)
(* The theorems about the game on its two boards, for a board of any size, *)
(* any quota, any threshold and any start.                                 *)
(*                                                                         *)
(* What an action is encoded to and decoded from is the same action on a   *)
(* board where nobody shares a cell; so the two copies stay equal, and     *)
(* whatever follows is about one board.                                    *)
(***************************************************************************)
EXTENDS BeliefGame, Deception, TLAPS, SequenceTheorems, FiniteSetTheorems, WellFoundedInduction

-----------------------------------------------------------------------------
(* Cells and words.                                                        *)

LEMMA CellsAre ==
  /\ BoardSize \in Nat /\ BoardSize >= 1 /\ BarrierQuota \in Nat /\ SurvivalThreshold \in Nat
  /\ Cells \subseteq Int \X Int
  /\ \A c \in Cells : /\ c = <<c[1], c[2]>> /\ c[1] \in 0 .. BoardSize - 1
                      /\ c[2] \in 0 .. BoardSize - 1
  /\ \A i, j \in 0 .. BoardSize - 1 : <<i, j>> \in Cells
<1>1. BoardSize \in Nat
  BY BoardAssumption
<1>2. \A c \in Cells : /\ c = <<c[1], c[2]>> /\ c[1] \in 0 .. BoardSize - 1
                       /\ c[2] \in 0 .. BoardSize - 1
  BY DEF Cells
<1>3. BoardSize >= 1
  BY <1>1, <1>2, BoardAssumption
<1> QED
  BY <1>1, <1>2, <1>3, BoardAssumption DEF Cells

LEMMA CellsAreFinite ==
  IsFiniteSet(Cells) /\ Cardinality(Cells) = BoardSize * BoardSize
<1>1. IsFiniteSet(0 .. BoardSize - 1) /\ Cardinality(0 .. BoardSize - 1) = BoardSize
  BY CellsAre, FS_Interval
<1> QED
  BY <1>1, FS_Product DEF Cells

\* From the default origin no axis is mirrored.
LEMMA PlainShift ==
  ASSUME NEW c \in Int \X Int, NEW w \in Words
  PROVE  /\ BaseVector[w] \in Int \X Int
         /\ Shift(c, w, DefaultOrigin) = <<c[1] + BaseVector[w][1], c[2] + BaseVector[w][2]>>
<1>1. AxisSigns(DefaultOrigin) = <<1, 1>>
  BY DEF AxisSigns, DefaultOrigin
<1>2. BaseVector[w] \in Int \X Int
  BY DEF BaseVector, Words
<1>3. VectorFor(w, DefaultOrigin) = <<BaseVector[w][1], BaseVector[w][2]>>
  BY <1>1, <1>2 DEF VectorFor
<1> QED
  BY <1>2, <1>3 DEF Shift

\* A cell one step away is named by a heading that leads to it and nowhere else.
LEMMA WordFits ==
  ASSUME NEW pre \in Cells, NEW post \in Cells, post \in {pre} \cup Around(pre)
  PROVE  /\ WordFor(pre, post, DefaultOrigin) \in Words
         /\ Shift(pre, WordFor(pre, post, DefaultOrigin), DefaultOrigin) = post
         /\ ShiftClamped(pre, WordFor(pre, post, DefaultOrigin)) = post
<1>0. /\ pre = <<pre[1], pre[2]>> /\ pre[1] \in Int /\ pre[2] \in Int /\ pre \in Int \X Int
      /\ post = <<post[1], post[2]>> /\ post[1] \in 0 .. BoardSize - 1 /\ post[2] \in 0 .. BoardSize - 1
      /\ BoardSize \in Nat
  BY CellsAre
<1> DEFINE fitting == { w \in Words : Shift(pre, w, DefaultOrigin) = post }
<1>1. fitting # {}
  <2>1. \E w \in Words : post = <<pre[1] + BaseVector[w][1], pre[2] + BaseVector[w][2]>>
    <3>1. CASE post = pre
      <4>1. "stay" \in Words /\ BaseVector["stay"] = <<0, 0>>
        BY DEF Words, BaseVector
      <4> QED
        BY <1>0, <3>1, <4>1
    <3>2. CASE post = <<pre[1] - 1, pre[2]>>
      <4>1. "north" \in Words /\ BaseVector["north"] = <<-1, 0>>
        BY DEF Words, BaseVector
      <4> QED
        BY <1>0, <3>2, <4>1
    <3>3. CASE post = <<pre[1] + 1, pre[2]>>
      <4>1. "south" \in Words /\ BaseVector["south"] = <<1, 0>>
        BY DEF Words, BaseVector
      <4> QED
        BY <1>0, <3>3, <4>1
    <3>4. CASE post = <<pre[1], pre[2] - 1>>
      <4>1. "west" \in Words /\ BaseVector["west"] = <<0, -1>>
        BY DEF Words, BaseVector
      <4> QED
        BY <1>0, <3>4, <4>1
    <3>5. CASE post = <<pre[1], pre[2] + 1>>
      <4>1. "east" \in Words /\ BaseVector["east"] = <<0, 1>>
        BY DEF Words, BaseVector
      <4> QED
        BY <1>0, <3>5, <4>1
    <3> QED
      BY <3>1, <3>2, <3>3, <3>4, <3>5 DEF Around
  <2> QED
    BY <1>0, <2>1, PlainShift
<1>2. WordFor(pre, post, DefaultOrigin) = CHOOSE w \in fitting : TRUE
  BY <1>1 DEF WordFor
<1>3. WordFor(pre, post, DefaultOrigin) \in fitting
  BY <1>1, <1>2
<1> HIDE DEF fitting
<1>4. PICK w : w = WordFor(pre, post, DefaultOrigin)
  OBVIOUS
<1>5. w \in Words /\ Shift(pre, w, DefaultOrigin) = post
  BY <1>3, <1>4 DEF fitting
<1>6. post = <<pre[1] + BaseVector[w][1], pre[2] + BaseVector[w][2]>>
  BY <1>0, <1>5, PlainShift
<1>7. ShiftClamped(pre, w) = post
  <2>1. Clamp(post[1]) = post[1] /\ Clamp(post[2]) = post[2]
    BY <1>0 DEF Clamp
  <2> QED
    BY <1>0, <1>6, <2>1 DEF ShiftClamped
<1> QED
  BY <1>4, <1>5, <1>7

LEMMA RoundTrip ==
  ASSUME NEW pre \in Cells, NEW post \in Cells, post \in {pre} \cup Around(pre), NEW kind
  PROVE  Decode(Encode(pre, post, kind, DefaultOrigin), pre, DefaultOrigin)
           = [ok |-> TRUE, cell |-> post, kind |-> kind]
<1> DEFINE e == Encode(pre, post, kind, DefaultOrigin)
<1>1. /\ e.word = WordFor(pre, post, DefaultOrigin) /\ e.kind = kind /\ ~ Legacy(e)
  BY DEF Encode, Legacy
<1> HIDE DEF e
<1>2. /\ WordIn(e, pre, DefaultOrigin) = e.word /\ KindIn(e) = kind
  BY <1>1 DEF WordIn, KindIn
<1>3. e.word \in Words /\ Shift(pre, e.word, DefaultOrigin) = post /\ OnBoard(post)
  BY <1>1, WordFits DEF OnBoard
<1>4. Decode(e, pre, DefaultOrigin) = [ok |-> TRUE, cell |-> post, kind |-> kind]
  BY <1>2, <1>3 DEF Decode
<1> QED
  BY <1>4 DEF e

-----------------------------------------------------------------------------
(* One turn on one board.                                                  *)

LEMMA LegalMovesAre ==
  ASSUME NEW s \in GameState, NEW c \in Cells
  PROVE  /\ LegalMoves(s, c) \subseteq Cells /\ c \in LegalMoves(s, c)
         /\ LegalMoves(s, c) \subseteq {c} \cup Around(c)
         /\ \A d \in LegalMoves(s, c) : d = c \/ d \notin s.barriers
BY DEF LegalMoves, OnBoard

LEMMA StateFields ==
  ASSUME NEW s \in GameState
  PROVE  /\ s.cop \in Cells /\ s.thief \in Cells /\ s.barriers \subseteq Cells
         /\ s.placed \in 0 .. BarrierQuota /\ s.turn \in Nat
BY DEF GameState

LEMMA CopActionsAre ==
  ASSUME NEW s \in GameState, NEW a \in CopActions(s)
  PROVE  /\ \/ /\ a = MoveAction(a.cell) /\ a.kind = "move" /\ a.cell \in LegalMoves(s, s.cop)
            \/ /\ a = BarrierAction(a.cell) /\ a.kind = "barrier" /\ a.cell \in BarrierCells(s)
               /\ s.placed < BarrierQuota /\ a.cell \notin s.barriers
         /\ a.cell \in Cells /\ a.cell \in {s.cop} \cup Around(s.cop)
         /\ Destination(s, a) \in Cells
<1>1. s.cop \in Cells
  BY StateFields
<1>2. CASE \E c \in LegalMoves(s, s.cop) : a = MoveAction(c)
  <2>1. PICK c \in LegalMoves(s, s.cop) : a = MoveAction(c)
    BY <1>2
  <2>2. a.cell = c /\ a.kind = "move"
    BY <2>1 DEF MoveAction
  <2> QED
    BY <1>1, <2>1, <2>2, LegalMovesAre DEF Destination
<1>3. CASE \E c \in BarrierCells(s) : a = BarrierAction(c)
  <2>1. PICK c \in BarrierCells(s) : a = BarrierAction(c)
    BY <1>3
  <2>2. a.cell = c /\ a.kind = "barrier"
    BY <2>1 DEF BarrierAction
  <2> QED
    BY <1>1, <2>1, <2>2 DEF Destination, BarrierCells, OnBoard
<1> QED
  BY <1>2, <1>3 DEF CopActions

\* A revealed action whose halves are legal is taken as they stand.
LEMMA MoveTaken ==
  ASSUME NEW p, NEW pre, NEW s, NEW mv, p.barrier = None,
         mv = Decode(p.move, pre, DefaultOrigin), IsLegal(pre, mv, s)
  PROVE  DecodeRevealed(p, pre, s) = [ok |-> TRUE, move |-> mv.cell, barrier |-> None]
BY DEF DecodeRevealed

LEMMA SealTaken ==
  ASSUME NEW p, NEW pre, NEW s, p.barrier # None,
         IsLegal(pre, Decode(p.move, pre, DefaultOrigin), s),
         IsLegal(pre, Decode(p.barrier, pre, DefaultOrigin), s)
  PROVE  DecodeRevealed(p, pre, s) =
           [ok |-> TRUE, move |-> Decode(p.move, pre, DefaultOrigin).cell,
            barrier |-> Decode(p.barrier, pre, DefaultOrigin).cell]
BY DEF DecodeRevealed

\* What the thief decodes of the police's words is the police's action.
LEMMA CopIsHeard ==
  ASSUME NEW s \in GameState, NEW a \in CopActions(s)
  PROVE  LET h == DecodeRevealed(BuildActionPayload(s.cop, a), s.cop, s)
         IN  h.ok /\ RecordCop(h) = a
<1> DEFINE post == IF a.kind = "barrier" THEN s.cop ELSE a.cell
<1> DEFINE e == Encode(s.cop, post, "move", DefaultOrigin)
<1> DEFINE f == Encode(s.cop, a.cell, "barrier", DefaultOrigin)
<1> DEFINE p == BuildActionPayload(s.cop, a)
<1>0. s.cop \in Cells /\ a.cell \in Cells /\ a.cell \in {s.cop} \cup Around(s.cop)
  BY StateFields, CopActionsAre
<1>1. post \in LegalMoves(s, s.cop) /\ post \in Cells /\ post \in {s.cop} \cup Around(s.cop)
  BY <1>0, LegalMovesAre, CopActionsAre
<1> HIDE DEF post
<1>2. Decode(e, s.cop, DefaultOrigin) = [ok |-> TRUE, cell |-> post, kind |-> "move"]
  BY <1>0, <1>1, RoundTrip
<1>3. Decode(f, s.cop, DefaultOrigin) = [ok |-> TRUE, cell |-> a.cell, kind |-> "barrier"]
  BY <1>0, RoundTrip
<1>4. f # None
  <2>1. WordFor(s.cop, a.cell, DefaultOrigin) \in Words
    BY <1>0, WordFits
  <2>2. f \in [kind : {"move", "barrier"}, word : Words]
    BY <2>1 DEF Encode
  <2> QED
    BY <2>2, NoneIsApart
<1>5. p.move = e /\ p.barrier = IF a.kind = "barrier" THEN f ELSE None
  BY DEF BuildActionPayload, post
<1> HIDE DEF e, f, p
<1>6. PICK mv : mv = [ok |-> TRUE, cell |-> post, kind |-> "move"]
  OBVIOUS
<1>7. mv = Decode(p.move, s.cop, DefaultOrigin) /\ IsLegal(s.cop, mv, s) /\ mv.cell = post
  BY <1>1, <1>2, <1>5, <1>6 DEF IsLegal
<1>8. None \notin Cells
  BY NoneIsApart
<1>9. CASE a.kind = "barrier"
  <2>1. a = BarrierAction(a.cell) /\ a.cell \in BarrierCells(s)
    BY <1>9, CopActionsAre
  <2>2. PICK seal : seal = [ok |-> TRUE, cell |-> a.cell, kind |-> "barrier"]
    OBVIOUS
  <2>3. seal = Decode(p.barrier, s.cop, DefaultOrigin) /\ IsLegal(s.cop, seal, s) /\ seal.cell = a.cell
    BY <1>3, <1>5, <1>9, <2>1, <2>2 DEF IsLegal
  <2>4. p.barrier # None
    BY <1>4, <1>5, <1>9
  <2>5. DecodeRevealed(p, s.cop, s) = [ok |-> TRUE, move |-> mv.cell, barrier |-> seal.cell]
    BY <1>7, <2>3, <2>4, SealTaken
  <2>6. RecordCop([ok |-> TRUE, move |-> mv.cell, barrier |-> seal.cell]) = a
    BY <1>0, <1>8, <2>1, <2>3 DEF RecordCop
  <2> QED
    BY <2>5, <2>6 DEF p
<1>10. CASE a.kind # "barrier"
  <2>1. a = MoveAction(a.cell) /\ post = a.cell
    BY <1>10, CopActionsAre DEF post
  <2>2. DecodeRevealed(p, s.cop, s) = [ok |-> TRUE, move |-> mv.cell, barrier |-> None]
    BY <1>5, <1>10, <1>7, MoveTaken
  <2>3. RecordCop([ok |-> TRUE, move |-> mv.cell, barrier |-> None]) = a
    BY <1>7, <2>1 DEF RecordCop
  <2> QED
    BY <2>2, <2>3 DEF p
<1> QED
  BY <1>9, <1>10

\* And what the police decodes of the thief's words is the thief's move: on a
\* board where they stand apart, the cell moved from tells who moved.
LEMMA ThiefIsHeard ==
  ASSUME NEW s \in GameState, s.cop # s.thief, NEW m \in ThiefActions(s)
  PROVE  LET h == DecodeRevealed(BuildActionPayload(s.thief, MoveAction(m)), s.thief, s)
         IN  h.ok /\ h.move = m
<1> DEFINE e == Encode(s.thief, m, "move", DefaultOrigin)
<1> DEFINE p == BuildActionPayload(s.thief, MoveAction(m))
<1>1. s.thief \in Cells /\ m \in Cells /\ m \in {s.thief} \cup Around(s.thief)
  BY StateFields, LegalMovesAre DEF ThiefActions
<1>2. Decode(e, s.thief, DefaultOrigin) = [ok |-> TRUE, cell |-> m, kind |-> "move"]
  BY <1>1, RoundTrip
<1>3. p.move = e /\ p.barrier = None
  BY DEF BuildActionPayload, MoveAction
<1> HIDE DEF e, p
<1>4. IsLegal(s.thief, [ok |-> TRUE, cell |-> m, kind |-> "move"], s)
  BY DEF IsLegal
<1>5. PICK mv : mv = [ok |-> TRUE, cell |-> m, kind |-> "move"]
  OBVIOUS
<1>6. mv = Decode(p.move, s.thief, DefaultOrigin) /\ IsLegal(s.thief, mv, s) /\ mv.cell = m
  BY <1>2, <1>3, <1>4, <1>5
<1>7. DecodeRevealed(p, s.thief, s) = [ok |-> TRUE, move |-> mv.cell, barrier |-> None]
  BY <1>3, <1>6, MoveTaken
<1> QED
  BY <1>6, <1>7 DEF p

\* The turn keeps the board a board.
LEMMA ResolvedIsState ==
  ASSUME NEW s \in GameState, NEW a \in CopActions(s), NEW m \in ThiefActions(s)
  PROVE  /\ Resolved(s, a, m) \in GameState
         /\ Resolved(s, a, m).cop = Destination(s, a)
         /\ Resolved(s, a, m).thief = IF Raced(s, a, m) THEN s.thief ELSE m
         /\ Resolved(s, a, m).barriers = s.barriers \cup (IF a.kind = "barrier" THEN {a.cell} ELSE {})
         /\ Resolved(s, a, m).placed = s.placed + (IF a.kind = "barrier" THEN 1 ELSE 0)
         /\ Resolved(s, a, m).turn = s.turn + 1
<1>1. /\ s.thief \in Cells /\ m \in Cells /\ s.barriers \subseteq Cells /\ a.cell \in Cells
      /\ s.placed \in 0 .. BarrierQuota /\ s.turn \in Nat /\ Destination(s, a) \in Cells
      /\ BarrierQuota \in Nat
  BY StateFields, LegalMovesAre, CopActionsAre, CellsAre DEF ThiefActions
<1>2. s.placed + (IF a.kind = "barrier" THEN 1 ELSE 0) \in 0 .. BarrierQuota
  <2>1. a.kind = "barrier" => s.placed < BarrierQuota
    BY CopActionsAre
  <2> QED
    BY <1>1, <2>1
<1>3. (IF Raced(s, a, m) THEN s.thief ELSE m) \in Cells
  BY <1>1
<1>4. s.barriers \cup (IF a.kind = "barrier" THEN {a.cell} ELSE {}) \in SUBSET Cells
  BY <1>1
<1>5. s.turn + 1 \in Nat
  BY <1>1
<1> QED
  BY <1>1, <1>2, <1>3, <1>4, <1>5 DEF Resolved, GameState

\* ... and a playable one, unless it ends the game.
LEMMA ResolvedIsPlayable ==
  ASSUME NEW s, Playable(s), NEW a \in CopActions(s), NEW m \in ThiefActions(s),
         NEW r \in Rules, TerminalOutcome(s, a, m, r) = None
  PROVE  Playable(Resolved(s, a, m))
<1>0. /\ s \in GameState /\ s.thief \notin s.barriers /\ Cardinality(s.barriers) = s.placed
  BY DEF Playable
<1> DEFINE t == Resolved(s, a, m)
<1>1. /\ t \in GameState /\ t.thief = IF Raced(s, a, m) THEN s.thief ELSE m
      /\ t.barriers = s.barriers \cup (IF a.kind = "barrier" THEN {a.cell} ELSE {})
      /\ t.placed = s.placed + (IF a.kind = "barrier" THEN 1 ELSE 0) /\ t.turn = s.turn + 1
  BY <1>0, ResolvedIsState
<1>2. ~ Captured(s, a, m, t, r) /\ ~ (t.turn >= SurvivalThreshold)
  BY NoneIsApart DEF TerminalOutcome
<1> HIDE DEF t
<1>3. t.cop # t.thief /\ ~ Seals(a, s.thief)
  BY <1>2 DEF Captured
<1>4. t.turn < SurvivalThreshold
  BY <1>1, <1>2, CellsAre, StateFields
<1>5. t.thief \notin t.barriers
  <2>1. m = s.thief \/ m \notin s.barriers
    BY <1>0, StateFields, LegalMovesAre DEF ThiefActions
  <2> QED
    BY <1>0, <1>1, <1>3, <2>1 DEF Raced, Seals
<1>6. Cardinality(t.barriers) = t.placed
  <2>1. IsFiniteSet(s.barriers)
    BY <1>0, StateFields, CellsAreFinite, FS_Subset
  <2>2. CASE a.kind = "barrier"
    <3>1. a.cell \notin s.barriers
      BY <1>0, <2>2, CopActionsAre
    <3>2. Cardinality(s.barriers \cup {a.cell}) = Cardinality(s.barriers) + 1
      BY <2>1, <3>1, FS_AddElement
    <3> QED
      BY <1>0, <1>1, <2>2, <3>2
  <2>3. CASE a.kind # "barrier"
    BY <1>0, <1>1, <2>3, StateFields
  <2> QED
    BY <2>2, <2>3
<1> QED
  BY <1>1, <1>3, <1>4, <1>5, <1>6 DEF Playable, t

\* Two engines call one turn differently only over a rule nobody agreed.
LEMMA EnginesDiffer ==
  ASSUME NEW s, NEW a, NEW m, NEW r \in Rules, NEW q \in Rules,
         TerminalOutcome(s, a, m, r) # TerminalOutcome(s, a, m, q)
  PROVE  (Raced(s, a, m) /\ r.race # q.race) \/ r.swap # q.swap
<1> SUFFICES ASSUME ~ Raced(s, a, m) \/ r.race = q.race, r.swap = q.swap
             PROVE  FALSE
  OBVIOUS
<1>1. Captured(s, a, m, Resolved(s, a, m), r) <=> Captured(s, a, m, Resolved(s, a, m), q)
  BY DEF Captured
<1> QED
  BY <1>1 DEF TerminalOutcome

-----------------------------------------------------------------------------
(* One turn on the two boards.                                             *)

Outcomes == {None, "capture", "survival"}
Track == [own : Cells, opp : Cells, barriers : SUBSET Cells]

TypeOK ==
  /\ board \in [Peers -> GameState] /\ out \in [Peers -> Outcomes]
  /\ rules \in [Peers -> Rules] /\ rejected \in BOOLEAN /\ raced \in BOOLEAN
  /\ replay \in [Peers -> Track]
  /\ strat \in [Peers -> SUBSET Cells] /\ display \in [Peers -> SUBSET Cells]
  /\ contaminated \in [Peers -> BOOLEAN]

LEMMA PeersAre ==
  /\ Peers = {"police", "thief"} /\ Foe("police") = "thief" /\ Foe("thief") = "police"
  /\ EngineRole("police") = "cop" /\ EngineRole("thief") = "thief"
  /\ \A s : CellOf("police", s) = s.cop /\ CellOf("thief", s) = s.thief
BY DEF Peers, Foe, EngineRole, CellOf

\* Both sides resolve the action that was chosen and the move that was chosen.
Turned(s, a, m) ==
  /\ Playable(s) /\ a \in CopActions(s) /\ m \in ThiefActions(s)
  /\ \A p \in Peers : board[p] = s
  /\ board' = [p \in Peers |-> Resolved(s, a, m)]
  /\ out' = [p \in Peers |-> TerminalOutcome(s, a, m, rules[p])]
  /\ replay' = [p \in Peers |-> ReplayAdvance(replay[p], CellOf(p, s),
                                  Spoken(a, m)[p], Spoken(a, m)[Foe(p)])]
  /\ raced' = (raced \/ Raced(s, a, m)) /\ rejected' = FALSE /\ rules' = rules
  /\ Spoken(a, m) = [police |-> BuildActionPayload(s.cop, a),
                     thief  |-> BuildActionPayload(s.thief, MoveAction(m))]

LEMMA TurnIsJoint ==
  ASSUME TypeOK, EnginesAgree, Open,
         NEW a \in Available("police"), NEW m \in Available("thief"), Play(a, m)
  PROVE  \E s \in GameState : Turned(s, a, m)
<1>0. PICK s : s = board["police"]
  OBVIOUS
<1>1. Playable(s) /\ board["thief"] = s /\ board["police"] = s /\ rejected = FALSE
  BY <1>0 DEF EnginesAgree, TypeOK
<1>2. \A p \in Peers : board[p] = s
  BY <1>1, PeersAre
<1>3. a \in CopActions(s) /\ m \in ThiefActions(s) /\ s \in GameState /\ s.cop # s.thief
  BY <1>1 DEF Available, Playable
<1> DEFINE spoken == Spoken(a, m)
<1> DEFINE heard == [p \in Peers |-> Heard(p, spoken)]
<1> DEFINE joint == [p \in Peers |-> JointAt(p, a, m, heard)]
<1>4. spoken = [police |-> BuildActionPayload(s.cop, a),
                thief  |-> BuildActionPayload(s.thief, MoveAction(m))]
  BY <1>1 DEF Spoken
<1>5. /\ IF \A p \in Peers : heard[p].ok
         THEN /\ board' = [p \in Peers |-> Resolved(board[p], joint[p][1], joint[p][2])]
              /\ out' = [p \in Peers |->
                           TerminalOutcome(board[p], joint[p][1], joint[p][2], rules[p])]
              /\ replay' = [p \in Peers |->
                              ReplayAdvance(replay[p], CellOf(p, board[p]),
                                            spoken[p], spoken[Foe(p)])]
              /\ raced' = (raced \/ Raced(board["police"], a, m))
              /\ UNCHANGED rejected
         ELSE /\ rejected' = TRUE
              /\ UNCHANGED <<board, out, replay, raced>>
      /\ UNCHANGED rules
  BY DEF Play
<1>6. heard["thief"].ok /\ RecordCop(heard["thief"]) = a
  <2>1. heard["thief"] = DecodeRevealed(BuildActionPayload(s.cop, a), s.cop, s)
    BY <1>1, <1>4, PeersAre DEF Heard
  <2> QED
    BY <1>3, <2>1, CopIsHeard
<1>7. heard["police"].ok /\ heard["police"].move = m
  <2>1. heard["police"] = DecodeRevealed(BuildActionPayload(s.thief, MoveAction(m)), s.thief, s)
    BY <1>1, <1>4, PeersAre DEF Heard
  <2> QED
    BY <1>3, <2>1, ThiefIsHeard
<1>8. \A p \in Peers : heard[p].ok
  BY <1>6, <1>7, PeersAre
<1> HIDE DEF heard, spoken
<1>9. \A p \in Peers : joint[p] = <<a, m>>
  <2>1. JointAt("police", a, m, heard) = <<a, m>>
    BY <1>7 DEF JointAt
  <2>2. JointAt("thief", a, m, heard) = <<a, m>>
    BY <1>6 DEF JointAt
  <2> QED
    BY <2>1, <2>2, PeersAre
<1> HIDE DEF joint
<1>10. \A p \in Peers : joint[p][1] = a /\ joint[p][2] = m
  BY <1>9
<1>11. /\ board' = [p \in Peers |-> Resolved(s, a, m)]
       /\ out' = [p \in Peers |-> TerminalOutcome(s, a, m, rules[p])]
       /\ replay' = [p \in Peers |-> ReplayAdvance(replay[p], CellOf(p, s), spoken[p], spoken[Foe(p)])]
  BY <1>2, <1>5, <1>8, <1>10
<1> QED
  BY <1>1, <1>2, <1>3, <1>4, <1>5, <1>8, <1>11 DEF spoken, Turned

LEMMA OutcomesAre ==
  ASSUME NEW s, NEW a, NEW m, NEW r
  PROVE  TerminalOutcome(s, a, m, r) \in Outcomes
BY DEF TerminalOutcome, Outcomes

\* The two boards agree after the turn.
LEMMA TurnAgrees ==
  ASSUME TypeOK, EnginesAgree, Open,
         NEW a \in Available("police"), NEW m \in Available("thief"), Play(a, m)
  PROVE  EnginesAgree'
<1>1. PICK s \in GameState : Turned(s, a, m)
  BY TurnIsJoint
<1>2. /\ Playable(s) /\ a \in CopActions(s) /\ m \in ThiefActions(s)
      /\ board' = [p \in Peers |-> Resolved(s, a, m)]
      /\ out' = [p \in Peers |-> TerminalOutcome(s, a, m, rules[p])]
      /\ raced' = (raced \/ Raced(s, a, m)) /\ rejected' = FALSE /\ rules' = rules
  BY <1>1 DEF Turned
<1>3. rules["police"] \in Rules /\ rules["thief"] \in Rules
  BY PeersAre DEF TypeOK
<1>4. /\ board'["police"] = Resolved(s, a, m) /\ board'["thief"] = Resolved(s, a, m)
      /\ out'["police"] = TerminalOutcome(s, a, m, rules["police"])
      /\ out'["thief"] = TerminalOutcome(s, a, m, rules["thief"])
  BY <1>2, PeersAre
<1>5. Open' => Playable(board["police"])'
  <2> SUFFICES ASSUME Open' PROVE Playable(board'["police"])
    BY DEF Playable
  <2>1. TerminalOutcome(s, a, m, rules["police"]) = None
    BY <1>4, PeersAre DEF Open
  <2>2. Playable(Resolved(s, a, m))
    BY <1>2, <1>3, <2>1, ResolvedIsPlayable
  <2> QED
    BY <1>4, <2>2
<1>6. out'["police"] # out'["thief"] =>
        \/ raced' /\ rules'["police"].race # rules'["thief"].race
        \/ rules'["police"].swap # rules'["thief"].swap
  <2> SUFFICES ASSUME TerminalOutcome(s, a, m, rules["police"]) # TerminalOutcome(s, a, m, rules["thief"])
               PROVE  \/ Raced(s, a, m) /\ rules["police"].race # rules["thief"].race
                      \/ rules["police"].swap # rules["thief"].swap
    BY <1>2, <1>4
  <2> QED
    BY <1>3, EnginesDiffer
<1> QED
  BY <1>2, <1>4, <1>5, <1>6 DEF EnginesAgree

-----------------------------------------------------------------------------
(* The viewer's tracks.                                                    *)

LEMMA ClampedIsCell ==
  ASSUME NEW c \in Cells, NEW w \in Words
  PROVE  ShiftClamped(c, w) \in Cells
<1>1. /\ c[1] \in Int /\ c[2] \in Int /\ c \in Int \X Int /\ BoardSize \in Nat /\ BoardSize >= 1
  BY CellsAre
<1>2. BaseVector[w][1] \in Int /\ BaseVector[w][2] \in Int
  BY <1>1, PlainShift
<1>3. \A i \in Int : Clamp(i) \in 0 .. BoardSize - 1
  BY <1>1 DEF Clamp
<1>4. Clamp(c[1] + BaseVector[w][1]) \in 0 .. BoardSize - 1 /\ Clamp(c[2] + BaseVector[w][2]) \in 0 .. BoardSize - 1
  BY <1>1, <1>2, <1>3
<1> QED
  BY <1>4, CellsAre DEF ShiftClamped

\* What the words of the police say, seen from its own cell.
LEMMA PoliceWords ==
  ASSUME NEW s \in GameState, NEW a \in CopActions(s), NEW p, p = BuildActionPayload(s.cop, a)
  PROVE  /\ p.move.word \in Words /\ ShiftClamped(s.cop, p.move.word) = Destination(s, a)
         /\ p.barrier # None => p.barrier.word \in Words
         /\ SealOf(s.cop, p) = IF a.kind = "barrier" THEN {a.cell} ELSE {}
<1> DEFINE post == IF a.kind = "barrier" THEN s.cop ELSE a.cell
<1>0. /\ s.cop \in Cells /\ a.cell \in Cells /\ a.cell \in {s.cop} \cup Around(s.cop)
  BY StateFields, CopActionsAre
<1>1. post \in Cells /\ post \in {s.cop} \cup Around(s.cop) /\ post = Destination(s, a)
  BY <1>0 DEF Destination
<1> HIDE DEF post
<1>2. /\ p.move.word = WordFor(s.cop, post, DefaultOrigin)
      /\ p.barrier = IF a.kind = "barrier" THEN Encode(s.cop, a.cell, "barrier", DefaultOrigin) ELSE None
  BY DEF BuildActionPayload, Encode, post
<1>3. p.move.word \in Words /\ ShiftClamped(s.cop, p.move.word) = Destination(s, a)
  BY <1>0, <1>1, <1>2, WordFits
<1>4. CASE a.kind = "barrier"
  <2>1. p.barrier.word = WordFor(s.cop, a.cell, DefaultOrigin)
    BY <1>2, <1>4 DEF Encode
  <2>2. p.barrier.word \in Words /\ ShiftClamped(s.cop, p.barrier.word) = a.cell
    BY <1>0, <2>1, WordFits
  <2>3. p.barrier # None
    <3>1. p.barrier \in [kind : {"move", "barrier"}, word : Words]
      BY <1>2, <1>4, <2>1, <2>2 DEF Encode
    <3> QED
      BY <3>1, NoneIsApart
  <2> QED
    BY <1>3, <1>4, <2>2, <2>3 DEF SealOf
<1>5. CASE a.kind # "barrier"
  BY <1>2, <1>3, <1>5 DEF SealOf
<1> QED
  BY <1>4, <1>5

LEMMA ThiefWords ==
  ASSUME NEW s \in GameState, NEW m \in ThiefActions(s), NEW p,
         p = BuildActionPayload(s.thief, MoveAction(m))
  PROVE  /\ p.move.word \in Words /\ ShiftClamped(s.thief, p.move.word) = m
         /\ p.barrier = None /\ \A c : SealOf(c, p) = {}
<1>1. s.thief \in Cells /\ m \in Cells /\ m \in {s.thief} \cup Around(s.thief)
  BY StateFields, LegalMovesAre DEF ThiefActions
<1>2. p.move.word = WordFor(s.thief, m, DefaultOrigin) /\ p.barrier = None
  BY DEF BuildActionPayload, Encode, MoveAction
<1> QED
  BY <1>1, <1>2, WordFits DEF SealOf

LEMMA TurnIsShown ==
  ASSUME TypeOK, ReplayExactUntilRace, NEW s \in GameState,
         NEW a \in Available("police"), NEW m \in Available("thief"), Turned(s, a, m)
  PROVE  ReplayExactUntilRace'
<1> SUFFICES ASSUME ~ raced', NEW p \in Peers PROVE Exact(p)'
  BY DEF ReplayExactUntilRace, ReplayShowsTheGame
<1>1. /\ a \in CopActions(s) /\ m \in ThiefActions(s) /\ \A q \in Peers : board[q] = s
      /\ board' = [q \in Peers |-> Resolved(s, a, m)]
      /\ replay' = [q \in Peers |-> ReplayAdvance(replay[q], CellOf(q, s),
                                      Spoken(a, m)[q], Spoken(a, m)[Foe(q)])]
      /\ raced' = (raced \/ Raced(s, a, m))
  BY DEF Turned
<1>2. PICK t : t = Resolved(s, a, m)
  OBVIOUS
<1>3. ~ Raced(s, a, m) /\ ~ raced
  BY <1>1 DEF TypeOK
<1>4. /\ t.cop = Destination(s, a) /\ t.thief = m
      /\ t.barriers = s.barriers \cup (IF a.kind = "barrier" THEN {a.cell} ELSE {})
  BY <1>1, <1>2, <1>3, ResolvedIsState
<1>5. PICK c : c = Spoken(a, m)["police"]
  OBVIOUS
<1>6. PICK d : d = Spoken(a, m)["thief"]
  OBVIOUS
<1>7. c = BuildActionPayload(s.cop, a) /\ d = BuildActionPayload(s.thief, MoveAction(m))
  BY <1>5, <1>6 DEF Turned
<1>8. /\ ShiftClamped(s.cop, c.move.word) = t.cop /\ ShiftClamped(s.thief, d.move.word) = t.thief
      /\ s.barriers \cup SealOf(s.cop, c) = t.barriers /\ SealOf(s.thief, d) = {}
  <2>1. /\ ShiftClamped(s.cop, c.move.word) = Destination(s, a)
        /\ SealOf(s.cop, c) = IF a.kind = "barrier" THEN {a.cell} ELSE {}
    BY <1>1, <1>7, PoliceWords
  <2>2. ShiftClamped(s.thief, d.move.word) = m /\ SealOf(s.thief, d) = {}
    BY <1>1, <1>7, ThiefWords
  <2> QED
    BY <1>4, <2>1, <2>2
<1>9. board'[p] = t
  BY <1>1, <1>2
<1>10. replay[p] = [own |-> CellOf(p, s), opp |-> CellOf(Foe(p), s), barriers |-> s.barriers]
  BY <1>1, <1>3 DEF ReplayExactUntilRace, ReplayShowsTheGame, Exact
<1>11. CASE p = "police"
  <2>1. replay[p].opp = s.thief /\ replay[p].barriers = s.barriers
    BY <1>10, <1>11, PeersAre
  <2>2. replay'[p] = ReplayAdvance(replay[p], s.cop, c, d)
    BY <1>1, <1>5, <1>6, <1>11, PeersAre
  <2>3. replay'[p] = [own |-> t.cop, opp |-> t.thief, barriers |-> t.barriers]
    BY <1>8, <2>1, <2>2 DEF ReplayAdvance
  <2> QED
    BY <1>9, <1>11, <2>3, PeersAre DEF Exact
<1>12. CASE p = "thief"
  <2>1. replay[p].opp = s.cop /\ replay[p].barriers = s.barriers
    BY <1>10, <1>12, PeersAre
  <2>2. replay'[p] = ReplayAdvance(replay[p], s.thief, d, c)
    BY <1>1, <1>5, <1>6, <1>12, PeersAre
  <2>3. replay'[p] = [own |-> t.thief, opp |-> t.cop, barriers |-> t.barriers]
    BY <1>8, <2>1, <2>2 DEF ReplayAdvance
  <2> QED
    BY <1>9, <1>12, <2>3, PeersAre DEF Exact
<1> QED
  BY <1>11, <1>12, PeersAre

-----------------------------------------------------------------------------
(* The beliefs.                                                            *)

Roles == {"cop", "thief"}
CellOfRole(s, role) == IF role = "cop" THEN s.cop ELSE s.thief

LEMMA DestinationsAre ==
  ASSUME NEW s \in GameState, NEW role \in Roles
  PROVE  Destinations(s, role) \subseteq Cells /\ CellOfRole(s, role) \in Destinations(s, role)
<1>1. CASE role = "thief"
  BY <1>1, StateFields, LegalMovesAre DEF Destinations, ThiefActions, CellOfRole
<1>2. CASE role = "cop"
  <2>1. MoveAction(s.cop) \in CopActions(s)
    BY StateFields, LegalMovesAre DEF CopActions
  <2>2. Destination(s, MoveAction(s.cop)) = s.cop
    BY DEF Destination, MoveAction
  <2>3. Destinations(s, role) = { Destination(s, a) : a \in CopActions(s) } /\ CellOfRole(s, role) = s.cop
    BY <1>2 DEF Destinations, CellOfRole
  <2> QED
    BY <2>1, <2>2, <2>3, CopActionsAre
<1> QED
  BY <1>1, <1>2 DEF Roles

LEMMA HypothesisIsState ==
  ASSUME NEW s \in GameState, NEW role \in Roles, NEW h \in Cells
  PROVE  /\ Hypothesis(s, role, h) \in GameState /\ CellOfRole(Hypothesis(s, role, h), role) = h
         /\ h = CellOfRole(s, role) => Hypothesis(s, role, h) = s
BY DEF Hypothesis, GameState, CellOfRole, Roles

\* Predicting loses no free cell, and no cell the opponent can have moved to.
LEMMA PredictKeeps ==
  ASSUME NEW s \in GameState, NEW role \in Roles, NEW S \in SUBSET Cells
  PROVE  /\ Predict(S, role, s) \in SUBSET Cells
         /\ S \ s.barriers \subseteq Predict(S, role, s)
         /\ CellOfRole(s, role) \in S \ s.barriers =>
              Destinations(s, role) \subseteq Predict(S, role, s)
<1> DEFINE C == ClipBarriers(S, s.barriers)
<1>1. C \subseteq Cells /\ S \ s.barriers \subseteq C
  BY DEF ClipBarriers
<1> HIDE DEF C
<1>2. Predict(S, role, s) = UNION { Destinations(Hypothesis(s, role, h), role) : h \in C }
  BY DEF Predict, Spread, C
<1>3. \A h \in C : /\ Destinations(Hypothesis(s, role, h), role) \subseteq Cells
                   /\ h \in Destinations(Hypothesis(s, role, h), role)
  BY <1>1, HypothesisIsState, DestinationsAre
<1>4. Predict(S, role, s) \subseteq Cells /\ C \subseteq Predict(S, role, s)
  BY <1>2, <1>3
<1>5. CellOfRole(s, role) \in S \ s.barriers => Destinations(s, role) \subseteq Predict(S, role, s)
  <2> SUFFICES ASSUME CellOfRole(s, role) \in C
               PROVE  Destinations(s, role) \subseteq Predict(S, role, s)
    BY <1>1
  <2>1. PICK h \in C : h = CellOfRole(s, role)
    OBVIOUS
  <2>2. Hypothesis(s, role, h) = s
    BY <1>1, <2>1, HypothesisIsState
  <2> QED
    BY <1>2, <2>2
<1> QED
  BY <1>1, <1>4, <1>5

LEMMA NeutralReading ==
  ASSUME NEW S \in SUBSET Cells
  PROVE  Update(S, Cells) = S
<1>1. S \cap Cells = S
  OBVIOUS
<1> QED
  BY <1>1 DEF Update

\* Both maps keep every free cell, but for the strategy map of a peer that has
\* seen an exact one, which keeps the cell the opponent stands on.
Credited ==
  /\ ~ contaminated["thief"]
  /\ \A p \in Peers :
       /\ Free(p) \subseteq display[p]
       /\ ~ contaminated[p] => Free(p) \subseteq strat[p]
  /\ Standing("police") \notin board["police"].barriers => Standing("police") \in strat["police"]

LEMMA ObservedIs ==
  ASSUME TypeOK, NEW p \in Peers
  PROVE  /\ EngineRole(Foe(p)) \in Roles /\ Observed(p) \in SUBSET Cells
         /\ Believed(p) = Predict(Observed(p), EngineRole(Foe(p)), board[p])
         /\ Displayed(p) = Predict(display[p], EngineRole(Foe(p)), board[p])
         /\ Believed(p) \in SUBSET Cells /\ Displayed(p) \in SUBSET Cells
         /\ KnownCell(p) # None => p = "police" /\ KnownCell(p) = board[p].thief
         /\ KnownCell(p) = None => Observed(p) = strat[p]
<1>1. board[p] \in GameState /\ strat[p] \in SUBSET Cells /\ display[p] \in SUBSET Cells
  BY DEF TypeOK
<1>2. EngineRole(Foe(p)) \in Roles
  BY PeersAre DEF Roles
<1>3. KnownCell(p) # None => p = "police" /\ KnownCell(p) = board[p].thief
  BY DEF KnownCell
<1>4. Observed(p) \in SUBSET Cells
  BY <1>1, <1>3, StateFields DEF Observed
<1>5. /\ Predict(Observed(p), EngineRole(Foe(p)), board[p]) \in SUBSET Cells
      /\ Predict(display[p], EngineRole(Foe(p)), board[p]) \in SUBSET Cells
  BY <1>1, <1>2, <1>4, PredictKeeps
<1>6. /\ Believed(p) = Predict(Observed(p), EngineRole(Foe(p)), board[p])
      /\ Displayed(p) = Predict(display[p], EngineRole(Foe(p)), board[p])
  BY <1>5, NeutralReading DEF Believed, Displayed, ScentReading, HintReading
<1> QED
  BY <1>1, <1>2, <1>3, <1>4, <1>5, <1>6 DEF Observed

LEMMA CreditStays ==
  ASSUME TypeOK, Credited, NEW s \in GameState,
         NEW a \in Available("police"), NEW m \in Available("thief"), Turned(s, a, m), Observe
  PROVE  Credited'
<1>1. /\ a \in CopActions(s) /\ m \in ThiefActions(s) /\ \A q \in Peers : board[q] = s
      /\ board' = [q \in Peers |-> Resolved(s, a, m)] /\ s.thief \notin s.barriers
  BY DEF Turned, Playable
<1>2. PICK t : t = Resolved(s, a, m)
  OBVIOUS
<1>3. /\ t.thief \in {s.thief, m} /\ s.barriers \subseteq t.barriers
      /\ \A p \in Peers : board'[p] = t
  BY <1>1, <1>2, ResolvedIsState
<1>4. /\ \A p \in Peers : strat'[p] = Believed(p) /\ display'[p] = Displayed(p)
      /\ \A p \in Peers : contaminated'[p] = (contaminated[p] \/ KnownCell(p) # None)
  BY DEF Observe
<1>5. ~ contaminated'["thief"]
  <2>1. KnownCell("thief") = None
    BY DEF KnownCell
  <2> QED
    BY <1>4, <2>1, PeersAre DEF Credited
<1>6. ASSUME NEW p \in Peers
      PROVE  /\ Cells \ t.barriers \subseteq display'[p]
             /\ ~ contaminated'[p] => Cells \ t.barriers \subseteq strat'[p]
  <2>1. /\ display[p] \in SUBSET Cells /\ EngineRole(Foe(p)) \in Roles /\ Observed(p) \in SUBSET Cells
        /\ strat'[p] = Predict(Observed(p), EngineRole(Foe(p)), s)
        /\ display'[p] = Predict(display[p], EngineRole(Foe(p)), s)
    BY <1>1, <1>4, ObservedIs DEF TypeOK
  <2>2. Cells \ s.barriers \subseteq display[p]
    BY <1>1 DEF Credited, Free
  <2>3. display[p] \ s.barriers \subseteq display'[p] /\ Observed(p) \ s.barriers \subseteq strat'[p]
    BY <2>1, PredictKeeps
  <2>4. ~ contaminated'[p] => Cells \ s.barriers \subseteq Observed(p)
    BY <1>1, <1>4, ObservedIs DEF Credited, Free, TypeOK
  <2> QED
    BY <1>3, <2>2, <2>3, <2>4
<1>7. t.thief \in strat'["police"]
  <2>1. /\ Observed("police") \in SUBSET Cells
        /\ strat'["police"] = Predict(Observed("police"), "thief", s)
    BY <1>1, <1>4, ObservedIs, PeersAre
  <2>2. s.thief \in Observed("police")
    <3>1. KnownCell("police") # None => Observed("police") = {s.thief}
      BY <1>1, ObservedIs, PeersAre DEF Observed
    <3>2. KnownCell("police") = None => Observed("police") = strat["police"]
      BY ObservedIs, PeersAre
    <3>3. s.thief \in strat["police"]
      BY <1>1, PeersAre DEF Credited, Standing
    <3> QED
      BY <3>1, <3>2, <3>3
  <2>3. CellOfRole(s, "thief") = s.thief /\ "thief" \in Roles
    BY DEF CellOfRole, Roles
  <2>4. Destinations(s, "thief") \subseteq strat'["police"]
    BY <1>1, <2>1, <2>2, <2>3, PredictKeeps
  <2>5. Destinations(s, "thief") = ThiefActions(s) /\ s.thief \in ThiefActions(s)
    BY StateFields, LegalMovesAre DEF Destinations, ThiefActions
  <2> QED
    BY <1>1, <1>3, <2>4, <2>5
<1>8. \A p \in Peers : Free(p)' = Cells \ t.barriers
  BY <1>3 DEF Free
<1>9. Standing("police")' = t.thief
  BY <1>3, PeersAre DEF Standing
<1> QED
  BY <1>5, <1>6, <1>7, <1>8, <1>9 DEF Credited

-----------------------------------------------------------------------------
(* Types.                                                                  *)

LEMMA TypesStay ==
  ASSUME TypeOK, NEW s \in GameState,
         NEW a \in Available("police"), NEW m \in Available("thief"), Turned(s, a, m), Observe
  PROVE  TypeOK'
<1>1. /\ a \in CopActions(s) /\ m \in ThiefActions(s) /\ \A q \in Peers : board[q] = s
      /\ board' = [q \in Peers |-> Resolved(s, a, m)]
      /\ out' = [p \in Peers |-> TerminalOutcome(s, a, m, rules[p])]
      /\ replay' = [q \in Peers |-> ReplayAdvance(replay[q], CellOf(q, s),
                                      Spoken(a, m)[q], Spoken(a, m)[Foe(q)])]
      /\ raced' = (raced \/ Raced(s, a, m)) /\ rejected' = FALSE /\ rules' = rules
  BY DEF Turned
<1>2. board' \in [Peers -> GameState]
  BY <1>1, ResolvedIsState
<1>3. out' \in [Peers -> Outcomes]
  BY <1>1, OutcomesAre
<1>4. rules' \in [Peers -> Rules] /\ rejected' \in BOOLEAN
  BY <1>1 DEF TypeOK
<1>5. raced' \in BOOLEAN
  BY <1>1 DEF TypeOK, Raced, Seals
<1>6. replay' \in [Peers -> Track]
  <2>1. ASSUME NEW p \in Peers
        PROVE  ReplayAdvance(replay[p], CellOf(p, s), Spoken(a, m)[p], Spoken(a, m)[Foe(p)]) \in Track
    <3>1. PICK c : c = Spoken(a, m)[p]
      OBVIOUS
    <3>2. PICK d : d = Spoken(a, m)[Foe(p)]
      OBVIOUS
    <3>3. /\ c.move.word \in Words /\ (c.barrier # None => c.barrier.word \in Words)
          /\ d.move.word \in Words /\ (d.barrier # None => d.barrier.word \in Words)
      <4>1. ASSUME NEW e, e = Spoken(a, m)["police"]
            PROVE  e.move.word \in Words /\ (e.barrier # None => e.barrier.word \in Words)
        <5>1. e = BuildActionPayload(s.cop, a)
          BY <4>1 DEF Turned
        <5> QED
          BY <1>1, <5>1, PoliceWords
      <4>2. ASSUME NEW e, e = Spoken(a, m)["thief"]
            PROVE  e.move.word \in Words /\ (e.barrier # None => e.barrier.word \in Words)
        BY <1>1, <4>2, ThiefWords DEF Turned
      <4> QED
        BY <3>1, <3>2, <4>1, <4>2, PeersAre
    <3>4. PICK r \in Track : r = replay[p]
      BY DEF TypeOK
    <3>5. CellOf(p, s) \in Cells /\ r.opp \in Cells /\ r.barriers \subseteq Cells
      BY <3>4, StateFields, PeersAre DEF Track
    <3>6. /\ ShiftClamped(CellOf(p, s), c.move.word) \in Cells
          /\ ShiftClamped(r.opp, d.move.word) \in Cells
          /\ SealOf(CellOf(p, s), c) \subseteq Cells /\ SealOf(r.opp, d) \subseteq Cells
      BY <3>3, <3>5, ClampedIsCell DEF SealOf
    <3>7. ReplayAdvance(r, CellOf(p, s), c, d) \in Track
      BY <3>5, <3>6 DEF ReplayAdvance, Track
    <3> QED
      BY <3>1, <3>2, <3>4, <3>7
  <2> QED
    BY <1>1, <2>1
<1>7. strat' \in [Peers -> SUBSET Cells] /\ display' \in [Peers -> SUBSET Cells]
  BY ObservedIs DEF Observe
<1>8. contaminated' \in [Peers -> BOOLEAN]
  BY DEF Observe, TypeOK
<1> QED
  BY <1>2, <1>3, <1>4, <1>5, <1>6, <1>7, <1>8 DEF TypeOK

-----------------------------------------------------------------------------
(* The views.                                                              *)

\* A panel lights the support of its map, and nothing else.
LEMMA LitIsSupport ==
  ASSUME NEW S \in SUBSET Cells, NEW peak
  PROVE  /\ Dense(Sharp(S, peak)) \in Grid /\ Sharp(S, peak) \in [Cells -> Nat]
         /\ LitCells(ShadedGrid(Dense(Sharp(S, peak)))) = S
<1>1. PICK M : M = Sharp(S, peak)
  OBVIOUS
<1>2. /\ M \in [Cells -> {0, 1, 100}] /\ DOMAIN M = Cells
      /\ \A c \in Cells : M[c] = 0 <=> c \notin S
  BY <1>1 DEF Sharp, SharpMass
<1>3. PICK G : G = Dense(M)
  OBVIOUS
<1>4. G \in Grid
  <2>1. \A i, j \in 1 .. BoardSize :
          (IF <<i - 1, j - 1>> \in DOMAIN M THEN M[<<i - 1, j - 1>>] ELSE 0) \in Nat
    BY <1>2
  <2> QED
    BY <1>3, <2>1 DEF Dense, Grid
<1>5. \A c \in Cells : At(G, c) = M[c]
  <2> SUFFICES ASSUME NEW c \in Cells PROVE At(G, c) = M[c]
    OBVIOUS
  <2>1. /\ c = <<c[1], c[2]>> /\ c[1] \in Int /\ c[2] \in Int
        /\ c[1] + 1 \in 1 .. BoardSize /\ c[2] + 1 \in 1 .. BoardSize
    BY CellsAre
  <2>2. G[c[1] + 1][c[2] + 1] =
          IF <<c[1] + 1 - 1, c[2] + 1 - 1>> \in DOMAIN M THEN M[<<c[1] + 1 - 1, c[2] + 1 - 1>>] ELSE 0
    BY <1>3, <2>1 DEF Dense
  <2>3. <<c[1] + 1 - 1, c[2] + 1 - 1>> = c
    BY <2>1
  <2> QED
    BY <1>2, <2>2, <2>3 DEF At
<1> DEFINE masses == { At(G, c) : c \in Cells }
<1>6. masses \subseteq {0, 1, 100} /\ \A c \in Cells : M[c] \in masses
  BY <1>2, <1>5
<1>7. PICK top : top = GridPeak(G)
  OBVIOUS
<1>8. Cells # {}
  BY BoardAssumption
<1>9. masses # {}
  BY <1>6, <1>8
<1>10. top = CHOOSE m \in masses : \A k \in masses : k <= m
  BY <1>7 DEF GridPeak
<1> HIDE DEF masses
<1>11. \E m \in masses : \A k \in masses : k <= m
  <2>1. CASE 100 \in masses
    BY <1>6, <2>1
  <2>2. CASE 100 \notin masses /\ 1 \in masses
    BY <1>6, <2>2
  <2>3. CASE 100 \notin masses /\ 1 \notin masses
    <3>1. PICK m \in masses : TRUE
      BY <1>9
    <3>2. \A k \in masses : k = 0
      BY <1>6, <2>3
    <3> QED
      BY <3>1, <3>2
  <2> QED
    BY <2>1, <2>2, <2>3
<1>12. top \in masses /\ \A k \in masses : k <= top
  BY <1>10, <1>11
<1>13. ASSUME NEW c \in Cells
       PROVE  Shade(At(G, c), top) # Background <=> c \in S
  <2>1. At(G, c) = M[c] /\ M[c] \in {0, 1, 100} /\ top \in {0, 1, 100} /\ M[c] <= top
    BY <1>2, <1>5, <1>6, <1>12
  <2>2. CASE c \notin S
    <3>1. At(G, c) = 0
      BY <1>2, <2>1, <2>2
    <3> QED
      BY <2>2, <3>1 DEF Shade
  <2>3. CASE c \in S
    <3>1. At(G, c) \in {1, 100} /\ top \in {1, 100}
      BY <1>2, <2>1, <2>3
    <3>2. Ceiling(At(G, c) * HeatRamp, top) \in Int
      BY <3>1 DEF Ceiling, HeatRamp
    <3>3. Between(1, Ceiling(At(G, c) * HeatRamp, top), HeatRamp) # 0
      BY <3>2 DEF Between, HeatRamp
    <3>4. ~ (At(G, c) <= 0 \/ top <= 0)
      BY <3>1
    <3> QED
      BY <2>3, <3>3, <3>4 DEF Shade, Background
  <2> QED
    BY <2>2, <2>3
<1>14. ShadedGrid(G) = [c \in Cells |-> Shade(At(G, c), top)]
  BY <1>7 DEF ShadedGrid
<1>15. LitCells(ShadedGrid(G)) = S
  BY <1>13, <1>14 DEF LitCells
<1>16. M \in [Cells -> Nat]
  BY <1>2
<1> QED
  BY <1>1, <1>3, <1>4, <1>15, <1>16

LEMMA BlankIsDark == LitCells(BlankGrid) = {}
BY DEF LitCells, BlankGrid

\* A snapshot that was published whole is what the viewer's process shows.
LEMMA ShownAsPublished ==
  ASSUME NEW v \in View({})
  PROVE  Refresh(None, SnapshotPayload(v), Unreadable) = v
<1>1. DOMAIN v = Fields /\ v = [f \in Fields |-> v[f]]
  BY DEF View, Fields
<1>2. SnapshotPayload(v) = v
  BY <1>1 DEF SnapshotPayload
<1>3. v # None /\ v # Unreadable
  BY MarkersAreNoViews
<1>4. \A f \in Fields : v[f] # Unreadable
  <2>1. /\ v.role # Unreadable /\ v.size # Unreadable /\ v.turn # Unreadable /\ v.own # Unreadable
        /\ v.barriers # Unreadable /\ v.placed # Unreadable
    BY MarkersAreNoViews DEF View
  <2>2. v.belief # Unreadable /\ v.scent # Unreadable
    BY MarkersAreNoViews DEF View
  <2>3. v.hints # Unreadable /\ v.idle # Unreadable
    BY MarkersAreNoViews DEF View
  <2> QED
    BY <2>1, <2>2, <2>3 DEF Fields
<1>5. DecodeView(v) = v
  BY <1>1, <1>3, <1>4 DEF DecodeView
<1> QED
  BY <1>2, <1>3, <1>5 DEF Refresh, ReadSnapshot

LEMMA PanelsAre ==
  ASSUME NEW v
  PROVE  /\ PanelGrids(v)[1] = BoardColours(v) /\ PanelGrids(v)[2] = BeliefColours(v)
         /\ v.scent # None => PanelGrids(v)[4] = ShadedGrid(v.scent.opponent)
<1>1. PICK b : b = BoardColours(v)
  OBVIOUS
<1>2. PICK l : l = BeliefColours(v)
  OBVIOUS
<1>3. PICK x, y : ScentColours(v) = <<x, y>> /\ (v.scent # None => y = ShadedGrid(v.scent.opponent))
  BY DEF ScentColours
<1>4. PanelGrids(v) = <<b, l>> \o <<x, y>>
  BY <1>1, <1>2, <1>3 DEF PanelGrids
<1> DEFINE X == {b, l, x, y}
<1> DEFINE p == <<b, l>>
<1> DEFINE q == <<x, y>>
<1>5. p \in Seq(X) /\ q \in Seq(X) /\ Len(p) = 2 /\ Len(q) = 2
  OBVIOUS
<1>6. p[1] = b /\ p[2] = l /\ q[2] = y
  OBVIOUS
<1> HIDE DEF X, p, q
<1>7. \A i \in 1 .. Len(p) + Len(q) :
        (p \o q)[i] = IF i <= Len(p) THEN p[i] ELSE q[i - Len(p)]
  BY <1>5, ConcatProperties, Zenon
<1>8. (p \o q)[1] = b /\ (p \o q)[2] = l /\ (p \o q)[4] = y
  <2>1. Len(p) + Len(q) = 4 /\ 1 \in 1 .. 4 /\ 2 \in 1 .. 4 /\ 4 \in 1 .. 4
    BY <1>5
  <2>2. \A i \in 1 .. 4 : (p \o q)[i] = IF i <= 2 THEN p[i] ELSE q[i - 2]
    BY <1>5, <1>7, <2>1
  <2> QED
    BY <1>6, <2>1, <2>2
<1> QED
  BY <1>1, <1>2, <1>3, <1>4, <1>8 DEF p, q

\* What the maps credit decides what the views give away.
LEMMA CreditHides ==
  ASSUME TypeOK, Credited
  PROVE  DrawnHidesTheCell
<1> SUFFICES ASSUME NEW p \in Peers
             PROVE  LET screen == Refresh(None, PublishView(p, Standing(p)), Unreadable)
                        panels == PanelGrids(screen)
                        free   == Free(p)
                    IN  /\ AllOrNothing(panels[2], free) /\ AllOrNothing(panels[4], free)
                        /\ BeliefLines(screen) \in
                             {None} \cup (Cardinality(free) .. BoardSize * BoardSize)
                        /\ \A c \in Cells : panels[1][c] = "barrier" => c \notin free
  BY DEF DrawnHidesTheCell
<1>1. PICK s \in GameState : s = board[p]
  BY DEF TypeOK
<1>2. PICK peak : peak = Standing(p)
  OBVIOUS
<1>3. PICK S : S = Published(p)
  OBVIOUS
<1>4. PICK T : T = PublishedScent(p)
  OBVIOUS
<1>5. PICK F : F = Free(p)
  OBVIOUS
<1>6. F = Cells \ s.barriers
  BY <1>1, <1>5 DEF Free
<1>7. S = None \/ (S \in SUBSET Cells /\ F \subseteq S /\ S # None)
  <2>1. strat[p] \in SUBSET Cells /\ display[p] \in SUBSET Cells /\ None \notin SUBSET Cells
    BY MarkersAreNoViews DEF TypeOK
  <2>2. F \subseteq display[p] /\ (~ contaminated[p] => F \subseteq strat[p])
    BY <1>5 DEF Credited
  <2> QED
    BY <1>3, <2>1, <2>2 DEF Published
<1>8. T \in SUBSET Cells /\ (T = {} \/ F \subseteq T)
  BY <1>4, <1>6 DEF PublishedScent
<1> DEFINE belief == IF S = None THEN None ELSE [rows |-> Dense(Sharp(S, peak))]
<1>9. PICK v : v = [role |-> p, size |-> BoardSize, turn |-> s.turn, own |-> CellOf(p, s),
                    barriers |-> s.barriers, placed |-> s.placed, belief |-> belief,
                    scent |-> [own |-> Dense(<<>>), opponent |-> Dense(Sharp(T, peak))],
                    hints |-> <<>>, idle |-> None]
  OBVIOUS
<1>10. PublishView(p, peak) = SnapshotPayload(v)
  <2>1. S # None => Sharp(S, peak) # None
    BY <1>7, LitIsSupport, MarkersAreNoViews
  <2>2. PICK scent : scent = [own |-> <<>>, opponent |-> Sharp(T, peak)]
    OBVIOUS
  <2>3. scent # None /\ scent.own = <<>> /\ scent.opponent = Sharp(T, peak)
    <3>1. Sharp(T, peak) \in [Cells -> Nat] /\ <<>> \in Seq({})
      BY <1>8, LitIsSupport
    <3>2. scent \in [own : Seq({}), opponent : [Cells -> Nat]]
      BY <2>2, <3>1
    <3> QED
      BY <2>2, <3>2, MarkersAreNoViews
  <2>4. PICK map : map = IF S = None THEN None ELSE Sharp(S, peak)
    OBVIOUS
  <2>5. BuildView(p, s, map, scent, <<>>, None) = v
    <3>1. (IF map = None THEN None ELSE [rows |-> Dense(map)]) = belief
      BY <2>1, <2>4
    <3>2. CellOf(p, s) = IF p = "police" THEN s.cop ELSE s.thief
      BY DEF CellOf
    <3> QED
      BY <1>9, <2>3, <3>1, <3>2 DEF BuildView
  <2> QED
    BY <1>1, <1>3, <1>4, <2>2, <2>4, <2>5 DEF PublishView
<1>11. Dense(<<>>) \in Grid /\ Dense(Sharp(T, peak)) \in Grid
  <2>1. Dense(Sharp(T, peak)) \in Grid
    BY <1>8, LitIsSupport
  <2>2. DOMAIN <<>> = {}
    OBVIOUS
  <2>3. Dense(<<>>) \in Grid
    BY <2>2 DEF Dense, Grid
  <2> QED
    BY <2>1, <2>3
<1>12. v \in View({})
  <2>1. belief \in {None} \cup [rows : Grid]
    BY <1>7, LitIsSupport
  <2>3. /\ s.turn \in Nat /\ CellOf(p, s) \in Cells /\ s.barriers \in SUBSET Cells /\ s.placed \in Nat
        /\ p \in {"police", "thief"} /\ BoardSize \in Nat
    BY StateFields, PeersAre, CellsAre
  <2>4. <<>> \in Seq({})
    OBVIOUS
  <2> HIDE DEF belief
  <2> QED
    BY <1>9, <1>11, <2>1, <2>3, <2>4 DEF View
<1>13. Refresh(None, PublishView(p, Standing(p)), Unreadable) = v
  BY <1>2, <1>10, <1>12, ShownAsPublished
<1>14. v.belief = belief /\ v.scent.opponent = Dense(Sharp(T, peak)) /\ v.barriers = s.barriers
  BY <1>9
<1>15. v.scent # None
  <2>1. v.scent \in [own : Grid, opponent : Grid]
    BY <1>9, <1>11
  <2> QED
    BY <2>1, MarkersAreNoViews
<1>16. PanelGrids(v)[4] = ShadedGrid(Dense(Sharp(T, peak)))
  BY <1>14, <1>15, PanelsAre
<1>17. LitCells(PanelGrids(v)[4]) = T
  BY <1>8, <1>16, LitIsSupport
<1>18. PanelGrids(v)[2] = BeliefColours(v) /\ PanelGrids(v)[1] = BoardColours(v)
  BY PanelsAre
<1>19. \/ v.belief = None /\ LitCells(BeliefColours(v)) = {}
       \/ v.belief # None /\ LitCells(BeliefColours(v)) = S /\ S \in SUBSET Cells /\ F \subseteq S
  <2>1. CASE S = None
    BY <1>14, <2>1, BlankIsDark DEF BeliefColours
  <2>2. CASE S # None
    <3>1. v.belief = [rows |-> Dense(Sharp(S, peak))] /\ Dense(Sharp(S, peak)) \in Grid
      BY <1>7, <1>14, <2>2, LitIsSupport
    <3>2. v.belief # None /\ v.belief.rows = Dense(Sharp(S, peak))
      BY <3>1, MarkersAreNoViews
    <3> QED
      BY <1>7, <2>2, <3>2, LitIsSupport DEF BeliefColours
  <2> QED
    BY <2>1, <2>2
<1>20. AllOrNothing(PanelGrids(v)[2], F) /\ AllOrNothing(PanelGrids(v)[4], F)
  BY <1>8, <1>17, <1>18, <1>19 DEF AllOrNothing
<1>21. BeliefLines(v) \in {None} \cup (Cardinality(F) .. BoardSize * BoardSize)
  <2>1. CASE v.belief = None
    BY <2>1 DEF BeliefLines
  <2>2. CASE v.belief # None
    <3>1. BeliefLines(v) = Cardinality(S) /\ S \in SUBSET Cells /\ F \subseteq S
      BY <1>19, <2>2 DEF BeliefLines
    <3>2. IsFiniteSet(S) /\ Cardinality(S) <= BoardSize * BoardSize
      BY <3>1, CellsAreFinite, FS_Subset
    <3>3. Cardinality(F) <= Cardinality(S) /\ Cardinality(S) \in Nat /\ IsFiniteSet(F)
      BY <3>1, <3>2, FS_Subset, FS_CardinalityType
    <3>4. Cardinality(F) \in Nat /\ BoardSize * BoardSize \in Int
      BY <3>3, FS_CardinalityType, CellsAre
    <3> QED
      BY <3>1, <3>2, <3>3, <3>4
  <2> QED
    BY <2>1, <2>2
<1>22. \A c \in Cells : PanelGrids(v)[1][c] = "barrier" => c \notin F
  <2>1. \A c \in Cells : BoardColours(v)[c] = "barrier" => c \in s.barriers
    BY <1>14 DEF BoardColours
  <2> QED
    BY <1>6, <1>18, <2>1
<1> QED
  BY <1>5, <1>13, <1>20, <1>21, <1>22

-----------------------------------------------------------------------------
(* The theorems.                                                           *)

BoardInv == TypeOK /\ EnginesAgree /\ ReplayExactUntilRace /\ Credited

LEMMA InitKeeps == Init => BoardInv
<1> SUFFICES ASSUME Init PROVE BoardInv
  OBVIOUS
<1>0. PICK s : s = MakeState
  OBVIOUS
<1>1. /\ s \in GameState /\ s.cop = CopStart /\ s.thief = ThiefStart /\ s.barriers = {}
      /\ s.placed = 0 /\ s.turn = 0
  BY <1>0, BoardAssumption DEF MakeState, GameState
<1>2. /\ board = [p \in Peers |-> s] /\ out = [p \in Peers |-> None]
      /\ rules \in [Peers -> Rules] /\ rejected = FALSE /\ raced = FALSE
      /\ replay = [p \in Peers |-> ReplayStart(p)]
      /\ strat = [p \in Peers |-> Cells] /\ display = [p \in Peers |-> Cells]
      /\ contaminated = [p \in Peers |-> FALSE]
  BY <1>0 DEF Init, GameInit
<1>3. \A p \in Peers : /\ CellOf(p, s) \in Cells /\ CellOf(Foe(p), s) \in Cells
                       /\ ReplayStart(p) = [own |-> CellOf(p, s), opp |-> CellOf(Foe(p), s), barriers |-> {}]
  BY <1>0, <1>1, PeersAre, StateFields DEF ReplayStart
<1>4. \A p \in Peers : ReplayStart(p) \in Track
  BY <1>3 DEF Track
<1>5. TypeOK
  BY <1>1, <1>2, <1>4 DEF TypeOK, Outcomes
<1>6. Playable(s)
  <2>1. Cardinality(s.barriers) = 0
    BY <1>1, FS_EmptySet
  <2> QED
    BY <1>1, <2>1, BoardAssumption DEF Playable
<1>7. EnginesAgree
  BY <1>2, <1>6, PeersAre DEF EnginesAgree
<1>8. ReplayExactUntilRace
  <2>1. \A p \in Peers : Exact(p)
    BY <1>1, <1>2, <1>3 DEF Exact
  <2> QED
    BY <2>1 DEF ReplayExactUntilRace, ReplayShowsTheGame
<1>9. Credited
  BY <1>1, <1>2, <1>3, PeersAre DEF Credited, Free, Standing
<1> QED
  BY <1>5, <1>7, <1>8, <1>9 DEF BoardInv

LEMMA NextKeeps == BoardInv /\ [Next]_vars => BoardInv'
<1> SUFFICES ASSUME BoardInv, [Next]_vars PROVE BoardInv'
  OBVIOUS
<1>1. TypeOK /\ EnginesAgree /\ ReplayExactUntilRace /\ Credited
  BY DEF BoardInv
<1>2. CASE Next
  <2>1. PICK a \in Available("police"), m \in Available("thief") : Play(a, m)
    BY <1>2 DEF Next
  <2>2. Open /\ Observe
    BY <1>2 DEF Next
  <2>3. PICK s \in GameState : Turned(s, a, m)
    BY <1>1, <2>1, <2>2, TurnIsJoint
  <2>4. TypeOK' /\ Credited' /\ ReplayExactUntilRace'
    BY <1>1, <2>2, <2>3, TypesStay, CreditStays, TurnIsShown
  <2>5. EnginesAgree'
    BY <1>1, <2>1, <2>2, TurnAgrees
  <2> QED
    BY <2>4, <2>5 DEF BoardInv
<1>3. CASE UNCHANGED vars
  <2>1. UNCHANGED <<board, out, rules, rejected, replay, raced, strat, display, contaminated>>
    BY <1>3 DEF vars, gameVars, beliefVars
  <2>2. TypeOK' /\ EnginesAgree'
    BY <1>1, <2>1 DEF TypeOK, EnginesAgree, Open, Playable
  <2>3. ReplayExactUntilRace'
    BY <1>1, <2>1 DEF ReplayExactUntilRace, ReplayShowsTheGame, Exact
  <2>4. Credited'
    BY <1>1, <2>1 DEF Credited, Free, Standing
  <2> QED
    BY <2>2, <2>3, <2>4 DEF BoardInv
<1> QED
  BY <1>2, <1>3

\* The invariant the promises about a game rest on: the types, the agreement of
\* the two boards, the viewer's tracks, and what the belief maps credit.
THEOREM BoardInvariance == Spec => []BoardInv
<1>1. Init => BoardInv
  BY InitKeeps
<1>2. BoardInv /\ [Next]_vars => BoardInv'
  BY NextKeeps
<1> QED
  BY <1>1, <1>2, PTL DEF Spec

\* Two machines that share nothing but words play one game on a board of any
\* size: no legal action is refused by the other side, both copies stay equal
\* and playable, and they end a game differently only over a rule that nobody
\* compared (turn_resolve.py, move_payload.py, sdk/resolve.py, terminal.py).
THEOREM OneGame == Spec => []EnginesAgree
<1>1. BoardInv => EnginesAgree
  BY DEF BoardInv
<1> QED
  BY <1>1, BoardInvariance, PTL

\* A thief beside the cop is lost while quota remains: the seal on its own cell
\* captures it wherever it goes (strategy/features.py, the forced-capture leaf).
THEOREM BesideIsLost == Spec => []KillRangeIsForced
<1>1. BoardInv => KillRangeIsForced
  <2> SUFFICES ASSUME BoardInv, Open, KillRange(board["police"])
               PROVE  \E a \in CopActions(board["police"]) :
                        \A m \in ThiefActions(board["police"]) :
                          TerminalOutcome(board["police"], a, m, BookOnly) = "capture"
    BY DEF KillRangeIsForced
  <2>1. PICK s : s = board["police"]
    OBVIOUS
  <2>2. Playable(s) /\ s \in GameState /\ BarrierQuota - s.placed > 0 /\ Gap(s) = 1
    BY <2>1 DEF BoardInv, EnginesAgree, Playable, KillRange, BarriersLeft
  <2>3. /\ s.cop \in Cells /\ s.thief \in Cells /\ s.thief \notin s.barriers
        /\ s.placed \in Nat /\ BarrierQuota \in Nat
    BY <2>2, StateFields, CellsAre DEF Playable
  <2>4. s.thief \in Around(s.cop)
    <3>1. /\ s.cop[1] \in Int /\ s.cop[2] \in Int /\ s.thief[1] \in Int /\ s.thief[2] \in Int
          /\ s.thief = <<s.thief[1], s.thief[2]>>
      BY <2>3, CellsAre
    <3>2. \/ s.thief[1] = s.cop[1] /\ s.thief[2] \in {s.cop[2] - 1, s.cop[2] + 1}
          \/ s.thief[2] = s.cop[2] /\ s.thief[1] \in {s.cop[1] - 1, s.cop[1] + 1}
      BY <2>2, <3>1 DEF Gap
    <3> QED
      BY <3>1, <3>2 DEF Around
  <2>5. s.thief \in BarrierCells(s)
    BY <2>2, <2>3, <2>4 DEF BarrierCells, OnBoard
  <2>6. PICK a : a = BarrierAction(s.thief)
    OBVIOUS
  <2>7. a \in CopActions(s) /\ Seals(a, s.thief)
    BY <2>5, <2>6 DEF CopActions, Seals, BarrierAction
  <2>8. \A m \in ThiefActions(s) : TerminalOutcome(s, a, m, BookOnly) = "capture"
    BY <2>7 DEF TerminalOutcome, Captured
  <2> QED
    BY <2>1, <2>7, <2>8
<1> QED
  BY <1>1, BoardInvariance, PTL

\* The frames of the replay viewer are the positions of the game, in both logs,
\* until a thief was held in front of a seal (replay_board.py).
THEOREM ReplayIsExact == Spec => []ReplayExactUntilRace
<1>1. BoardInv => ReplayExactUntilRace
  BY DEF BoardInv
<1> QED
  BY <1>1, BoardInvariance, PTL

\* No map of a belief loses the thief, and the cop only on its own seal: motion,
\* scent and hint never take the credit from the true cell (strategy/belief.py).
THEOREM TrueCellIsCredited == Spec => []OnlyASealHidesTheCop
<1>1. BoardInv => OnlyASealHidesTheCop
  <2> SUFFICES ASSUME BoardInv, NEW p \in Peers, Standing(p) \notin board[p].barriers
               PROVE  Standing(p) \in strat[p] /\ Standing(p) \in display[p]
    BY DEF OnlyASealHidesTheCop
  <2>1. board[p] \in GameState /\ Credited
    BY DEF BoardInv, TypeOK
  <2>2. Standing(p) \in Cells
    BY <2>1, StateFields, PeersAre DEF Standing
  <2>3. Standing(p) \in Free(p)
    BY <2>2 DEF Free
  <2>4. Standing(p) \in display[p]
    BY <2>1, <2>3 DEF Credited
  <2>5. Standing(p) \in strat[p]
    BY <2>1, <2>3, PeersAre DEF Credited
  <2> QED
    BY <2>4, <2>5
<1> QED
  BY <1>1, BoardInvariance, PTL

\* Rule 9: wherever the opponent stands, and even when nearly all the mass of a
\* map lies on it, a live view lights every free cell or none of them
\* (display_belief.py, view_builder.py, view_render.py).
THEOREM ViewsHideTheCell == Spec => []DrawnHidesTheCell
<1>1. BoardInv => DrawnHidesTheCell
  BY CreditHides DEF BoardInv
<1> QED
  BY <1>1, BoardInvariance, PTL

-----------------------------------------------------------------------------
(* A set of naturals that is not empty has a least member.  It is what     *)
(* stands for induction below: of the numbers that fail, take the least.   *)

\* < on the naturals is well founded.
LEMMA NaturalsAreWellFounded ==
  IsWellFoundedOn({ss \in Nat \X Nat : ss[1] < ss[2]}, Nat)
BY NatLessThanWellFounded DEF OpToRel

\* The least member.
LEMMA LeastNatural ==
  ASSUME NEW T \in SUBSET Nat, T # {}
  PROVE  \E x \in T : \A y \in T : x <= y
<1>1. PICK Below : Below = {ss \in Nat \X Nat : ss[1] < ss[2]}  OBVIOUS
<1>2. \A x, y \in Nat : y < x => <<y, x>> \in Below  BY <1>1
<1>3. IsWellFoundedOn(Below, Nat)  BY <1>1, NaturalsAreWellFounded
<1>4. T \subseteq Nat  OBVIOUS
<1>5. PICK x \in T : \A y \in T : ~ (<<y, x>> \in Below)  BY <1>3, <1>4, WFMin, Zenon
<1>6. \A y \in T : ~ (y < x)  BY <1>2, <1>5
<1> QED  BY <1>6

\* The first of the smallest entries of a row or of a column.
LEMMA LeastEntry ==
  ASSUME NEW n \in Nat \ {0}, NEW f \in [1 .. n -> Int]
  PROVE  \E i \in 1 .. n : \A j \in 1 .. n : f[i] <= f[j]
<1> DEFINE LeastUpTo(k) == \E i \in 1 .. k : \A j \in 1 .. k : f[i] <= f[j]
           T == {k \in 1 .. n : ~ LeastUpTo(k)}
<1>1. ASSUME T # {} PROVE FALSE
  <2>1. T \subseteq Nat  OBVIOUS
  <2>2. PICK k \in T : \A m \in T : k <= m
    <3> HIDE DEF T
    <3> QED  BY <1>1, <2>1, LeastNatural
  <2>3. k \in 1 .. n /\ ~ LeastUpTo(k)  OBVIOUS
  <2>4. LeastUpTo(1)  OBVIOUS
  <2>5. k - 1 \in 1 .. n /\ k - 1 \notin T
    <3>1. k # 1
      <4> HIDE DEF LeastUpTo
      <4> QED  BY <2>3, <2>4
    <3>2. \A m \in T : k <= m  BY <2>2
    <3> HIDE DEF T
    <3> QED  BY <2>3, <3>1, <3>2
  <2>6. LeastUpTo(k - 1)  BY <2>5
  <2>7. PICK i \in 1 .. k - 1 : \A j \in 1 .. k - 1 : f[i] <= f[j]  BY <2>6
  <2>8. \A j \in 1 .. k : j \in 1 .. k - 1 \/ j = k  BY <2>3
  <2>9. i \in 1 .. k /\ f[i] \in Int /\ f[k] \in Int /\ \A j \in 1 .. k - 1 : f[j] \in Int
    BY <2>3, <2>7
  <2>10. CASE f[i] <= f[k]  BY <2>3, <2>7, <2>8, <2>9, <2>10
  <2>11. CASE f[k] < f[i]
    <3>1. k \in 1 .. k /\ \A j \in 1 .. k : f[k] <= f[j]
      BY <2>3, <2>7, <2>8, <2>9, <2>11
    <3> QED  BY <2>3, <3>1
  <2>12. f[i] <= f[k] \/ f[k] < f[i]  BY <2>9
  <2> QED  BY <2>10, <2>11, <2>12
<1>2. n \in 1 .. n /\ n \notin T
  <2>1. n \in 1 .. n  OBVIOUS
  <2> HIDE DEF T
  <2> QED  BY <1>1, <2>1
<1>3. LeastUpTo(n)  BY <1>2
<1> QED  BY <1>3

Entries(f, n) == {f[j] : j \in 1 .. n}

LEMMA LeastOf ==
  ASSUME NEW n \in Nat \ {0}, NEW f \in [1 .. n -> Int]
  PROVE  /\ Min(Entries(f, n)) \in Int
         /\ \E j \in 1 .. n : f[j] = Min(Entries(f, n))
         /\ \A j \in 1 .. n : Min(Entries(f, n)) <= f[j]
<1> PICK S : S = Entries(f, n)  OBVIOUS
<1>1. PICK i \in 1 .. n : \A j \in 1 .. n : f[i] <= f[j]  BY LeastEntry
<1>2. \E x \in S : \A y \in S : x <= y  BY <1>1 DEF Entries
<1>3. Min(S) \in S /\ \A y \in S : Min(S) <= y  BY <1>2 DEF Min
<1> QED  BY <1>3 DEF Entries

LEMMA GreatestOf ==
  ASSUME NEW n \in Nat \ {0}, NEW f \in [1 .. n -> Int]
  PROVE  /\ Max(Entries(f, n)) \in Int
         /\ \E j \in 1 .. n : f[j] = Max(Entries(f, n))
         /\ \A j \in 1 .. n : f[j] <= Max(Entries(f, n))
<1> PICK S : S = Entries(f, n)  OBVIOUS
<1> PICK g : g = [j \in 1 .. n |-> - f[j]]  OBVIOUS
<1>1. g \in [1 .. n -> Int]  OBVIOUS
<1>2. PICK i \in 1 .. n : \A j \in 1 .. n : g[i] <= g[j]  BY <1>1, LeastEntry
<1>3. \A j \in 1 .. n : f[i] >= f[j]  BY <1>2
<1>4. \E x \in S : \A y \in S : x >= y  BY <1>3 DEF Entries
<1>5. Max(S) \in S /\ \A y \in S : Max(S) >= y  BY <1>4 DEF Max
<1> QED  BY <1>5 DEF Entries

\* equilibrium._pure_saddle: on any matrix of integers, where it finds a pure
\* saddle, the row it plays is safe.  The row and the column are the matrix's, the
\* row secures at least the lower value whatever the thief answers, no row secures
\* more, and one column holds every row to it.
THEOREM SaddleRowIsSafe ==
  ASSUME NEW m \in Nat \ {0}, NEW n \in Nat \ {0}, NEW M \in [1 .. m -> [1 .. n -> Int]],
         PureSaddle(M) # None
  PROVE  LET row == PureSaddle(M)[1]
             col == PureSaddle(M)[2]
         IN  /\ row \in 1 .. m /\ col \in 1 .. n
             /\ M[row][col] = Lower(M) /\ \A j \in 1 .. n : Lower(M) <= M[row][j]
             /\ \A i \in 1 .. m : \E j \in 1 .. n : M[i][j] <= Lower(M)
             /\ \E j \in 1 .. n : \A i \in 1 .. m : M[i][j] <= Lower(M)
<1>1. ASSUME NEW i \in 1 .. m
      PROVE  /\ RowMin(M, i) \in Int /\ \A j \in 1 .. n : RowMin(M, i) <= M[i][j]
             /\ \E j \in 1 .. n : M[i][j] = RowMin(M, i)
  <2>1. M[i] \in [1 .. n -> Int] /\ DOMAIN M[i] = 1 .. n  OBVIOUS
  <2>2. RowMin(M, i) = Min(Entries(M[i], n))  BY <2>1 DEF RowMin, Entries
  <2> QED  BY <2>1, <2>2, LeastOf
<1>2. ASSUME NEW j \in 1 .. n
      PROVE  ColMax(M, j) \in Int /\ \A i \in 1 .. m : M[i][j] <= ColMax(M, j)
  <2> PICK f : f = [i \in 1 .. m |-> M[i][j]]  OBVIOUS
  <2>1. f \in [1 .. m -> Int] /\ DOMAIN M = 1 .. m  OBVIOUS
  <2>2. {M[i][j] : i \in DOMAIN M} = Entries(f, m)  BY <2>1 DEF Entries
  <2>3. ColMax(M, j) = Max(Entries(f, m))  BY <2>2 DEF ColMax
  <2>4. \A i \in 1 .. m : f[i] = M[i][j]  OBVIOUS
  <2>5. ColMax(M, j) \in Int /\ \A i \in 1 .. m : f[i] <= ColMax(M, j)
    BY <2>1, <2>3, GreatestOf
  <2> QED  BY <2>4, <2>5
<1>3. /\ Lower(M) \in Int /\ \A i \in 1 .. m : RowMin(M, i) <= Lower(M)
      /\ \E i \in 1 .. m : RowMin(M, i) = Lower(M)
  <2> PICK f : f = [i \in 1 .. m |-> RowMin(M, i)]  OBVIOUS
  <2>1. f \in [1 .. m -> Int] /\ DOMAIN M = 1 .. m  BY <1>1
  <2>2. {RowMin(M, i) : i \in DOMAIN M} = Entries(f, m)  BY <2>1 DEF Entries
  <2>3. Lower(M) = Max(Entries(f, m))  BY <2>2 DEF Lower
  <2>4. \A i \in 1 .. m : f[i] = RowMin(M, i)  OBVIOUS
  <2>5. /\ Lower(M) \in Int /\ \A i \in 1 .. m : f[i] <= Lower(M)
        /\ \E i \in 1 .. m : f[i] = Lower(M)
    BY <2>1, <2>3, GreatestOf
  <2> QED  BY <2>4, <2>5
<1>4. \E j \in 1 .. n : ColMax(M, j) = Upper(M)
  <2> PICK f : f = [j \in 1 .. n |-> ColMax(M, j)]  OBVIOUS
  <2>1. f \in [1 .. n -> Int] /\ DOMAIN M[1] = 1 .. n  BY <1>2
  <2>2. {ColMax(M, j) : j \in DOMAIN M[1]} = Entries(f, n)  BY <2>1 DEF Entries
  <2>3. Upper(M) = Min(Entries(f, n))  BY <2>2 DEF Upper
  <2>4. \A j \in 1 .. n : f[j] = ColMax(M, j)  OBVIOUS
  <2> QED  BY <2>1, <2>3, <2>4, LeastOf
<1>5. Lower(M) = Upper(M)  BY DEF PureSaddle
<1> DEFINE rows == {i \in 1 .. m : RowMin(M, i) = Lower(M)}
           row == Min(rows)
           cols == {j \in 1 .. n : M[row][j] = RowMin(M, row)}
           col == Min(cols)
<1>6. row \in rows
  <2>1. rows \subseteq Nat  OBVIOUS
  <2>2. rows # {}  BY <1>3
  <2> HIDE DEF rows
  <2> QED  BY <2>1, <2>2, LeastNatural DEF Min
<1>7. row \in 1 .. m /\ RowMin(M, row) = Lower(M)
  <2> HIDE DEF row
  <2> QED  BY <1>6
<1>8. col \in cols
  <2> HIDE DEF row
  <2>1. cols \subseteq Nat  OBVIOUS
  <2>2. cols # {}  BY <1>1, <1>7
  <2> HIDE DEF cols
  <2> QED  BY <2>1, <2>2, LeastNatural DEF Min
<1>9. col \in 1 .. n /\ M[row][col] = Lower(M)
  <2> HIDE DEF row, col
  <2> QED  BY <1>7, <1>8
<1>10. PureSaddle(M) = <<row, col>>
  <2>1. DOMAIN M = 1 .. m /\ DOMAIN M[row] = 1 .. n
    <3> HIDE DEF row
    <3> QED  BY <1>7
  <2> QED  BY <1>5, <2>1 DEF PureSaddle
<1>11. \E j \in 1 .. n : \A i \in 1 .. m : M[i][j] <= Lower(M)  BY <1>2, <1>4, <1>5
<1>12. \A i \in 1 .. m : \E j \in 1 .. n : M[i][j] <= Lower(M)  BY <1>1, <1>3
<1> HIDE DEF row, col
<1>13. \A j \in 1 .. n : Lower(M) <= M[row][j]  BY <1>1, <1>7
<1> QED  BY <1>7, <1>9, <1>10, <1>11, <1>12, <1>13

-----------------------------------------------------------------------------
(* Distances.                                                              *)

\* Induction up to a bound, over a set.
LEMMA UpToBound ==
  ASSUME NEW K \in Nat, NEW Good, 0 \in Good, \A n \in 0 .. K - 1 : n \in Good => n + 1 \in Good
  PROVE  \A n \in 0 .. K : n \in Good
<1> PICK T : T = {n \in 0 .. K : n \notin Good}  OBVIOUS
<1>1. ASSUME T # {} PROVE FALSE
  <2>1. T \in SUBSET Nat  OBVIOUS
  <2>2. PICK n \in T : \A k \in T : n <= k  BY <1>1, <2>1, LeastNatural
  <2>3. n \in 0 .. K /\ n \notin Good /\ n # 0  BY <2>2
  <2>4. n - 1 \in 0 .. K - 1 /\ n - 1 \in Good  BY <2>2, <2>3
  <2>5. (n - 1) + 1 \in Good  BY <2>4
  <2> QED  BY <2>3, <2>5
<1> QED  BY <1>1

More(cells, S) == S \cup UNION {NeighborsIn(cells, c) : c \in S}

\* The recursive function of Layers exists: it is what it says of itself.
LEMMA LayersAre ==
  ASSUME NEW cells, NEW start, Cardinality(cells) \in Nat
  PROVE  Layers(cells, start) =
           [n \in 0 .. Cardinality(cells) |->
              IF n = 0 THEN {start} \cap cells ELSE More(cells, Layers(cells, start)[n - 1])]
<1> PICK K \in Nat : K = Cardinality(cells)  OBVIOUS
<1> PICK A : A = {start} \cap cells  OBVIOUS
<1> DEFINE Fits(g, k) == g = [n \in 0 .. k |-> IF n = 0 THEN A ELSE More(cells, g[n - 1])]
           Good == {k \in Nat : \E g : Fits(g, k)}
<1>1. 0 \in Good
  <2>1. PICK g : g = [n \in 0 .. 0 |-> A]  OBVIOUS
  <2>2. Fits(g, 0)  BY <2>1
  <2> HIDE DEF Fits
  <2> QED  BY <2>2
<1>2. ASSUME NEW k \in 0 .. K - 1, k \in Good PROVE k + 1 \in Good
  <2>1. PICK g : Fits(g, k)  BY <1>2
  <2>2. DOMAIN g = 0 .. k /\ \A n \in 0 .. k : g[n] = IF n = 0 THEN A ELSE More(cells, g[n - 1])
    BY <2>1
  <2>3. PICK h : h = [n \in 0 .. k + 1 |-> IF n = k + 1 THEN More(cells, g[k]) ELSE g[n]]  OBVIOUS
  <2>4. \A n \in 0 .. k + 1 : h[n] = IF n = 0 THEN A ELSE More(cells, h[n - 1])
    <3> TAKE n \in 0 .. k + 1
    <3>1. CASE n = k + 1
      <4>1. h[n] = More(cells, g[k]) /\ h[n - 1] = g[k]  BY <2>3, <3>1
      <4> QED  BY <3>1, <4>1
    <3>2. CASE n \in 0 .. k
      <4>1. h[n] = g[n] /\ (n # 0 => h[n - 1] = g[n - 1])  BY <2>3, <3>2
      <4>2. g[n] = IF n = 0 THEN A ELSE More(cells, g[n - 1])  BY <2>2, <3>2
      <4> QED  BY <4>1, <4>2
    <3> QED  BY <3>1, <3>2
  <2>5. h = [n \in 0 .. k + 1 |-> h[n]]  BY <2>3
  <2>6. Fits(h, k + 1)  BY <2>4, <2>5
  <2> HIDE DEF Fits
  <2> QED  BY <2>6
<1>3. K \in Good
  <2> HIDE DEF Good
  <2> QED  BY <1>1, <1>2, UpToBound
<1>4. \E g : Fits(g, K)  BY <1>3
<1>5. Layers(cells, start) = CHOOSE g : Fits(g, K)  BY DEF Layers, More
<1>6. Fits(Layers(cells, start), K)
  <2> HIDE DEF Fits
  <2> QED  BY <1>4, <1>5
<1> QED  BY <1>6

ClosedIn(cells, S) == \A c \in S : NeighborsIn(cells, c) \subseteq S

LEMMA MoreFacts ==
  ASSUME NEW cells, NEW S, S \subseteq cells
  PROVE  /\ S \subseteq More(cells, S) /\ More(cells, S) \subseteq cells
         /\ \A c \in S : NeighborsIn(cells, c) \subseteq More(cells, S)
         /\ \A d \in More(cells, S) : d \in S \/ \E c \in S : d \in NeighborsIn(cells, c)
         /\ ClosedIn(cells, S) => More(cells, S) = S
         /\ More(cells, S) = S => ClosedIn(cells, S)
BY DEF More, NeighborsIn, ClosedIn

LEMMA LayersGrow ==
  ASSUME NEW cells, IsFiniteSet(cells), NEW start \in cells
  PROVE  LET within == Layers(cells, start)
             K == Cardinality(cells)
         IN  /\ K \in Nat \ {0} /\ DOMAIN within = 0 .. K /\ within[0] = {start}
             /\ \A n \in 0 .. K : within[n] \subseteq cells
             /\ \A n \in 0 .. K - 1 : within[n + 1] = More(cells, within[n])
<1> PICK K : K = Cardinality(cells)  OBVIOUS
<1> PICK W : W = Layers(cells, start)  OBVIOUS
<1>1. K \in Nat  BY FS_CardinalityType
<1>2. K # 0  BY FS_EmptySet
<1>3. W = [n \in 0 .. K |-> IF n = 0 THEN {start} \cap cells ELSE More(cells, W[n - 1])]
  BY <1>1, LayersAre
<1>4. DOMAIN W = 0 .. K /\ W[0] = {start}
  BY <1>1, <1>3
<1>5. \A n \in 0 .. K - 1 : W[n + 1] = More(cells, W[n])
  <2> TAKE n \in 0 .. K - 1
  <2>1. n + 1 \in 0 .. K /\ n + 1 # 0 /\ (n + 1) - 1 = n  BY <1>1
  <2> QED  BY <1>3, <2>1
<1>6. \A n \in 0 .. K : W[n] \subseteq cells
  <2> PICK Good : Good = {n \in 0 .. K : W[n] \subseteq cells}  OBVIOUS
  <2>1. 0 \in Good  BY <1>1, <1>4
  <2>2. \A n \in 0 .. K - 1 : n \in Good => n + 1 \in Good
    BY <1>1, <1>5, MoreFacts
  <2>3. \A n \in 0 .. K : n \in Good  BY <1>1, <2>1, <2>2, UpToBound
  <2> QED  BY <2>3
<1> QED  BY <1>1, <1>2, <1>4, <1>5, <1>6

\* A search that finds nothing new has finished; one that always finds something
\* has found everything.
LEMMA SearchEnds ==
  ASSUME NEW cells, IsFiniteSet(cells), NEW start \in cells
  PROVE  ClosedIn(cells, ComponentOf(cells, start))
<1> PICK K : K = Cardinality(cells)  OBVIOUS
<1> PICK W : W = Layers(cells, start)  OBVIOUS
<1>1. /\ K \in Nat \ {0} /\ DOMAIN W = 0 .. K /\ W[0] = {start}
      /\ \A n \in 0 .. K : W[n] \subseteq cells
      /\ \A n \in 0 .. K - 1 : W[n + 1] = More(cells, W[n])
  BY LayersGrow
<1>2. \A n \in 0 .. K : IsFiniteSet(W[n]) /\ Cardinality(W[n]) \in Nat /\ Cardinality(W[n]) <= K
  BY <1>1, FS_Subset, FS_CardinalityType
<1> PICK Good : Good = {n \in 0 .. K : ClosedIn(cells, W[n]) \/ Cardinality(W[n]) >= n + 1}
  OBVIOUS
<1>3. 0 \in Good
  <2>1. Cardinality({start}) = 1  BY FS_Singleton
  <2> QED  BY <1>1, <2>1
<1>4. ASSUME NEW n \in 0 .. K - 1, n \in Good PROVE n + 1 \in Good
  <2>0. n \in 0 .. K /\ n + 1 \in 0 .. K /\ W[n + 1] = More(cells, W[n]) /\ W[n] \subseteq cells
    BY <1>1
  <2>1. CASE ClosedIn(cells, W[n])
    <3>1. W[n + 1] = W[n]  BY <2>0, <2>1, MoreFacts
    <3> QED  BY <2>0, <2>1, <3>1
  <2>2. CASE ~ ClosedIn(cells, W[n])
    <3>1. W[n] \subseteq W[n + 1] /\ W[n] # W[n + 1]  BY <2>0, <2>2, MoreFacts
    <3>2. Cardinality(W[n]) < Cardinality(W[n + 1])
      BY <1>2, <2>0, <3>1, FS_Subset
    <3>3. Cardinality(W[n]) >= n + 1  BY <1>4, <2>2
    <3>4. Cardinality(W[n + 1]) >= (n + 1) + 1  BY <1>2, <2>0, <3>2, <3>3
    <3> QED  BY <2>0, <3>4
  <2> QED  BY <2>1, <2>2
<1>5. K \in Good
  <2>1. K \in Nat /\ K \in 0 .. K  BY <1>1
  <2> QED  BY <1>3, <1>4, <2>1, UpToBound
<1>6. ~ (Cardinality(W[K]) >= K + 1)  BY <1>1, <1>2
<1>7. ClosedIn(cells, W[K])  BY <1>5, <1>6
<1> QED  BY <1>7 DEF ComponentOf

\* What a search finds is what can be reached: it lies in every set of cells
\* that holds the start and is closed under the steps.
LEMMA SearchFindsNoMore ==
  ASSUME NEW cells, IsFiniteSet(cells), NEW start \in cells, NEW S, start \in S, ClosedIn(cells, S)
  PROVE  \A n \in 0 .. Cardinality(cells) : Layers(cells, start)[n] \subseteq S
<1> PICK K : K = Cardinality(cells)  OBVIOUS
<1> PICK W : W = Layers(cells, start)  OBVIOUS
<1>1. /\ K \in Nat \ {0} /\ W[0] = {start}
      /\ \A n \in 0 .. K : W[n] \subseteq cells
      /\ \A n \in 0 .. K - 1 : W[n + 1] = More(cells, W[n])
  BY LayersGrow
<1> PICK Good : Good = {n \in 0 .. K : W[n] \subseteq S}  OBVIOUS
<1>2. 0 \in Good  BY <1>1
<1>3. \A n \in 0 .. K - 1 : n \in Good => n + 1 \in Good
  BY <1>1, MoreFacts DEF ClosedIn
<1>4. \A n \in 0 .. K : n \in Good  BY <1>1, <1>2, <1>3, UpToBound
<1> QED  BY <1>4

LEMMA LayersNest ==
  ASSUME NEW cells, IsFiniteSet(cells), NEW start \in cells, NEW n \in 0 .. Cardinality(cells)
  PROVE  Layers(cells, start)[n] \subseteq ComponentOf(cells, start)
<1> PICK K : K = Cardinality(cells)  OBVIOUS
<1> PICK W : W = Layers(cells, start)  OBVIOUS
<1>1. K \in Nat \ {0} /\ W[0] = {start} /\ (\A k \in 0 .. K : W[k] \subseteq cells)
      /\ \A k \in 0 .. K - 1 : W[k + 1] = More(cells, W[k])
  BY LayersGrow
<1>2. ClosedIn(cells, W[K])  BY SearchEnds DEF ComponentOf
<1>3. start \in W[K]
  <2> PICK Good : Good = {k \in 0 .. K : start \in W[k]}  OBVIOUS
  <2>1. 0 \in Good  BY <1>1
  <2>2. \A k \in 0 .. K - 1 : k \in Good => k + 1 \in Good  BY <1>1, MoreFacts
  <2>3. K \in Nat /\ K \in 0 .. K  BY <1>1
  <2>4. K \in Good  BY <2>1, <2>2, <2>3, UpToBound
  <2> QED  BY <2>4
<1>4. \A k \in 0 .. K : W[k] \subseteq W[K]  BY <1>2, <1>3, SearchFindsNoMore
<1> QED  BY <1>4 DEF ComponentOf

LEMMA HopsAre ==
  ASSUME NEW cells, IsFiniteSet(cells), NEW source \in cells
  PROVE  LET W == Layers(cells, source)
             K == Cardinality(cells)
             hops == Distances(cells, source)
         IN  /\ DOMAIN hops = ComponentOf(cells, source)
             /\ \A c \in DOMAIN hops :
                  /\ hops[c] \in 0 .. K /\ c \in W[hops[c]]
                  /\ \A k \in 0 .. K : c \in W[k] => hops[c] <= k
<1> PICK K : K = Cardinality(cells)  OBVIOUS
<1> PICK W : W = Layers(cells, source)  OBVIOUS
<1> PICK hops : hops = Distances(cells, source)  OBVIOUS
<1>1. K \in Nat \ {0} /\ DOMAIN W = 0 .. K  BY LayersGrow
<1> DEFINE First(c, n) == c \in W[n] /\ \A k \in 0 .. n - 1 : c \notin W[k]
<1>2. hops = [c \in W[K] |-> CHOOSE n \in DOMAIN W : First(c, n)]
  BY DEF Distances
<1>3. DOMAIN hops = W[K] /\ \A c \in W[K] : hops[c] = CHOOSE n \in 0 .. K : First(c, n)
  BY <1>1, <1>2
<1>4. ASSUME NEW c \in W[K]
      PROVE  hops[c] \in 0 .. K /\ First(c, hops[c])
  <2> PICK T : T = {n \in 0 .. K : c \in W[n]}  OBVIOUS
  <2>1. K \in T /\ T \in SUBSET Nat  BY <1>1, <1>4
  <2>2. PICK n \in T : \A k \in T : n <= k  BY <2>1, LeastNatural
  <2>3. n \in 0 .. K /\ First(c, n)
    <3>1. n \in 0 .. K /\ c \in W[n]  BY <2>2
    <3>2. ASSUME NEW k \in 0 .. n - 1, c \in W[k] PROVE FALSE
      <4>1. k \in T  BY <1>1, <3>1, <3>2
      <4> QED  BY <1>1, <2>2, <3>1, <4>1
    <3> QED  BY <3>1, <3>2
  <2> HIDE DEF First
  <2> QED  BY <1>3, <2>3
<1>5. ASSUME NEW c \in W[K], NEW k \in 0 .. K, c \in W[k] PROVE hops[c] <= k
  <2>1. hops[c] \in 0 .. K /\ First(c, hops[c])  BY <1>4
  <2> QED  BY <1>1, <1>5, <2>1
<1> QED  BY <1>3, <1>4, <1>5 DEF ComponentOf

\* graph.bfs_distances, breadth first: it answers for exactly the cells that can be
\* reached, with the hops of the shortest ways, on any finite set of open cells.
THEOREM DistancesAreHops ==
  ASSUME NEW cells, IsFiniteSet(cells), NEW source \in cells
  PROVE  LET hops == Distances(cells, source)
         IN  /\ source \in DOMAIN hops /\ hops[source] = 0
             /\ DOMAIN hops \subseteq cells
             /\ \A S : source \in S /\ ClosedIn(cells, S) => DOMAIN hops \subseteq S
             /\ \A b \in DOMAIN hops : \A c \in NeighborsIn(cells, b) :
                  c \in DOMAIN hops /\ hops[c] <= hops[b] + 1
             /\ \A c \in DOMAIN hops : hops[c] \in Nat
             /\ \A c \in DOMAIN hops \ {source} :
                  \E b \in DOMAIN hops : c \in NeighborsIn(cells, b) /\ hops[c] = hops[b] + 1
<1> PICK K : K = Cardinality(cells)  OBVIOUS
<1> PICK W : W = Layers(cells, source)  OBVIOUS
<1> PICK hops : hops = Distances(cells, source)  OBVIOUS
<1>1. /\ K \in Nat \ {0} /\ W[0] = {source}
      /\ \A n \in 0 .. K : W[n] \subseteq cells
      /\ \A n \in 0 .. K - 1 : W[n + 1] = More(cells, W[n])
  BY LayersGrow
<1>2. /\ DOMAIN hops = W[K]
      /\ \A c \in W[K] : /\ hops[c] \in 0 .. K /\ c \in W[hops[c]]
                         /\ \A k \in 0 .. K : c \in W[k] => hops[c] <= k
  BY HopsAre DEF ComponentOf
<1>3. \A n \in 0 .. K : W[n] \subseteq W[K]  BY LayersNest DEF ComponentOf
<1>4. source \in W[K] /\ hops[source] = 0
  <2>1. source \in W[0] /\ 0 \in 0 .. K  BY <1>1
  <2>2. source \in W[K]  BY <1>3, <2>1
  <2>3. hops[source] <= 0 /\ hops[source] \in 0 .. K  BY <1>2, <2>1, <2>2
  <2> QED  BY <1>1, <2>2, <2>3
<1>5. ASSUME NEW b \in W[K], NEW c \in NeighborsIn(cells, b)
      PROVE  c \in W[K] /\ hops[c] <= hops[b] + 1
  <2>1. ClosedIn(cells, W[K])  BY SearchEnds DEF ComponentOf
  <2>2. c \in W[K]  BY <1>5, <2>1 DEF ClosedIn
  <2>3. hops[b] \in 0 .. K /\ hops[c] \in 0 .. K /\ b \in W[hops[b]]  BY <1>2, <2>2
  <2>4. CASE hops[b] = K  BY <1>1, <2>2, <2>3, <2>4
  <2>5. CASE hops[b] # K
    <3>1. hops[b] \in 0 .. K - 1 /\ hops[b] + 1 \in 0 .. K  BY <1>1, <2>3, <2>5
    <3>2. W[hops[b]] \subseteq cells /\ W[hops[b] + 1] = More(cells, W[hops[b]])
      BY <1>1, <2>3, <3>1
    <3>3. c \in W[hops[b] + 1]  BY <1>5, <2>3, <3>2, MoreFacts
    <3> QED  BY <1>2, <2>2, <3>1, <3>3
  <2> QED  BY <2>4, <2>5
<1>6. ASSUME NEW c \in W[K] \ {source}
      PROVE  \E b \in W[K] : c \in NeighborsIn(cells, b) /\ hops[c] = hops[b] + 1
  <2>1. hops[c] \in 0 .. K /\ c \in W[hops[c]]  BY <1>2
  <2>2. hops[c] # 0  BY <1>1, <1>6, <2>1
  <2> PICK n : n = hops[c] - 1  OBVIOUS
  <2>3. n \in 0 .. K /\ n \in 0 .. K - 1 /\ n + 1 = hops[c]  BY <1>1, <2>1, <2>2
  <2>4. c \notin W[n]  BY <1>2, <2>1, <2>3
  <2>5. W[n] \subseteq cells /\ W[hops[c]] = More(cells, W[n])  BY <1>1, <2>3
  <2>6. PICK b \in W[n] : c \in NeighborsIn(cells, b)  BY <2>1, <2>4, <2>5, MoreFacts
  <2>7. b \in W[K] /\ hops[b] \in 0 .. K /\ hops[b] <= n  BY <1>2, <1>3, <2>3, <2>6
  <2>8. hops[c] <= hops[b] + 1  BY <1>5, <2>6, <2>7
  <2> QED  BY <1>1, <2>1, <2>3, <2>6, <2>7, <2>8
<1>7. \A S : source \in S /\ ClosedIn(cells, S) => W[K] \subseteq S
  <2> SUFFICES ASSUME NEW S, source \in S, ClosedIn(cells, S) PROVE W[K] \subseteq S  OBVIOUS
  <2>1. \A n \in 0 .. K : W[n] \subseteq S  BY SearchFindsNoMore
  <2> QED  BY <1>1, <2>1
<1>8. W[K] \subseteq cells  BY <1>1
<1>9. \A c \in W[K] : hops[c] \in Nat  BY <1>1, <1>2
<1> QED  BY <1>2, <1>4, <1>5, <1>6, <1>7, <1>8, <1>9

LEMMA AroundIsMutual ==
  ASSUME NEW a \in Int \X Int, NEW b \in Around(a)
  PROVE  a \in Around(b)
<1> PICK x \in Int, y \in Int : a = <<x, y>>  OBVIOUS
<1>1. b \in {<<x - 1, y>>, <<x + 1, y>>, <<x, y - 1>>, <<x, y + 1>>}  BY DEF Around
<1>2. CASE b = <<x - 1, y>>  BY <1>2 DEF Around
<1>3. CASE b = <<x + 1, y>>  BY <1>3 DEF Around
<1>4. CASE b = <<x, y - 1>>  BY <1>4 DEF Around
<1>5. CASE b = <<x, y + 1>>  BY <1>5 DEF Around
<1> QED  BY <1>1, <1>2, <1>3, <1>4, <1>5

\* naive.py, "descend the BFS gradient toward the thief": whatever step of the
\* chaser's it is, among those it draws from, it is one hop nearer than it was.
THEOREM ChaserCloses ==
  ASSUME NEW s \in GameState, s.cop # s.thief,
         s.thief \notin s.barriers,
         s.cop \in DOMAIN Distances(Passable(s.barriers), s.thief)
  PROVE  /\ Chase(s) # {}
         /\ \A a \in Chase(s) : \E c \in LegalMoves(s, s.cop) :
              /\ a = MoveAction(c) /\ c \in DOMAIN Distances(Passable(s.barriers), s.thief)
              /\ ReachFrom(s, s.thief, c) = ReachFrom(s, s.thief, s.cop) - 1
<1> PICK cells : cells = Passable(s.barriers)  OBVIOUS
<1> PICK hops : hops = Distances(cells, s.thief)  OBVIOUS
<1> DEFINE reach(c) == ReachFrom(s, s.thief, c)
<1>0. s.cop \in Cells /\ s.thief \in Cells /\ s.barriers \subseteq Cells  BY DEF GameState
<1>1. IsFiniteSet(cells) /\ s.thief \in cells /\ cells \subseteq Cells
  BY <1>0, CellsAreFinite, FS_Subset DEF Passable
<1>2. /\ s.thief \in DOMAIN hops /\ hops[s.thief] = 0 /\ DOMAIN hops \subseteq cells
      /\ \A b \in DOMAIN hops : \A c \in NeighborsIn(cells, b) :
           c \in DOMAIN hops /\ hops[c] <= hops[b] + 1
      /\ \A c \in DOMAIN hops : hops[c] \in Nat
      /\ \A c \in DOMAIN hops \ {s.thief} :
           \E b \in DOMAIN hops : c \in NeighborsIn(cells, b) /\ hops[c] = hops[b] + 1
  BY <1>1, DistancesAreHops
<1>3. s.cop \in DOMAIN hops /\ s.cop \in cells  BY <1>2
<1>4. \A c \in DOMAIN hops : reach(c) = hops[c]  BY DEF ReachFrom
<1>5. PICK b \in DOMAIN hops : s.cop \in NeighborsIn(cells, b) /\ hops[s.cop] = hops[b] + 1
  BY <1>2, <1>3
<1>6. Cells \subseteq Int \X Int  BY CellsAre
<1>7. b \in cells /\ b \in Around(s.cop)
  BY <1>1, <1>2, <1>5, <1>6, AroundIsMutual DEF NeighborsIn
<1>8. b \in LegalMoves(s, s.cop)
  BY <1>1, <1>7 DEF LegalMoves, OnBoard, Passable
<1>9. ASSUME NEW c \in LegalMoves(s, s.cop)
      PROVE  c \in DOMAIN hops /\ hops[c] \in Nat /\ hops[s.cop] <= hops[c] + 1
  <2>1. CASE c = s.cop  BY <1>2, <1>3, <2>1
  <2>2. CASE c # s.cop
    <3>1. c \in Around(s.cop) /\ c \in cells
      BY <1>9, <2>2 DEF LegalMoves, OnBoard, Passable
    <3>2. c \in NeighborsIn(cells, s.cop)  BY <3>1 DEF NeighborsIn
    <3>3. s.cop \in Around(c)  BY <1>0, <1>6, <3>1, AroundIsMutual
    <3>4. s.cop \in NeighborsIn(cells, c)  BY <1>3, <3>3 DEF NeighborsIn
    <3> QED  BY <1>2, <1>3, <3>2, <3>4
  <2> QED  BY <2>1, <2>2
<1>10. hops[b] \in Nat /\ hops[s.cop] \in Nat  BY <1>2, <1>3
<1>11. \A d \in LegalMoves(s, s.cop) : reach(b) <= reach(d)
  BY <1>4, <1>5, <1>9, <1>10
<1>12. MoveAction(b) \in Chase(s)  BY <1>8, <1>11 DEF Chase
<1>13. ASSUME NEW c \in LegalMoves(s, s.cop),
              \A d \in LegalMoves(s, s.cop) : reach(c) <= reach(d)
       PROVE  c \in DOMAIN hops /\ reach(c) = reach(s.cop) - 1
  <2>1. reach(c) <= reach(b)  BY <1>8, <1>13
  <2>2. c \in DOMAIN hops /\ hops[c] \in Nat /\ hops[s.cop] <= hops[c] + 1  BY <1>9
  <2>3. reach(c) = hops[c] /\ reach(b) = hops[b] /\ reach(s.cop) = hops[s.cop]
    BY <1>3, <1>4, <2>2
  <2> QED  BY <1>5, <1>10, <2>1, <2>2, <2>3
<1>14. ASSUME NEW a \in Chase(s)
       PROVE  \E c \in LegalMoves(s, s.cop) :
                a = MoveAction(c) /\ c \in DOMAIN hops /\ reach(c) = reach(s.cop) - 1
  <2>1. PICK c \in LegalMoves(s, s.cop) :
          a = MoveAction(c) /\ \A d \in LegalMoves(s, s.cop) : reach(c) <= reach(d)
    BY <1>14 DEF Chase
  <2> QED  BY <1>13, <2>1
<1> QED  BY <1>12, <1>14

-----------------------------------------------------------------------------
(* Deception.                                                              *)

\* A share k of w of a height h, rounded down, is no more than the height.
LEMMA RampIsKept ==
  ASSUME NEW k \in Nat, NEW w \in Nat \ {0}, NEW h \in Nat, k <= w
  PROVE  (k * h) \div w \in 0 .. h
<1>1. k * h \in Nat /\ k * h <= w * h  OBVIOUS
<1> PICK q : q = (k * h) \div w  OBVIOUS
<1>2. q \in Nat /\ w * q <= k * h  BY <1>1
<1>3. ASSUME h + 1 <= q PROVE FALSE
  <2>1. w * (h + 1) <= w * q  BY <1>2, <1>3
  <2>2. w * (h + 1) = w * h + w /\ w * h \in Nat /\ w * q \in Nat  BY <1>2
  <2> QED  BY <1>1, <1>2, <2>1, <2>2
<1> QED  BY <1>2, <1>3

\* deception_thief.py: however near the cop is believed to be, the thief tells the
\* truth at least as often as the floor says; whatever its board, the claims it draws
\* from are plans the constructor accepts, and no lie names the region where it is
\* or the one its own freshest scent gives away.
THEOREM TruthFloorIsKept ==
  ASSUME NEW s, NEW dest, NEW distance \in Nat, NEW freshest
  PROVE  /\ LieProbability(distance) \in MinLie .. Certain - TruthFloor
         /\ LET plans == PlansFor("thief", s, dest, distance, freshest)
            IN  /\ PlansAreSound(plans)
                /\ \A plan \in plans : plan.intent = "lie" =>
                     plan.claimed # Betrayed(plan.actual, freshest)
<1>1. /\ Certain \in Nat /\ TruthFloor \in 1 .. Certain - 1 /\ MinLie \in 0 .. Certain - TruthFloor
      /\ DangerDistance \in Nat /\ SafeDistance \in Nat /\ DangerDistance < SafeDistance
  BY DeceptionAssumption
<1>2. LieProbability(distance) \in MinLie .. Certain - TruthFloor
  <2>1. CASE distance <= DangerDistance \/ distance >= SafeDistance
    BY <1>1, <2>1 DEF LieProbability, MaxLie
  <2>2. CASE ~ (distance <= DangerDistance \/ distance >= SafeDistance)
    <3> PICK k : k = distance - DangerDistance  OBVIOUS
    <3> PICK w : w = SafeDistance - DangerDistance  OBVIOUS
    <3> PICK h : h = MaxLie - MinLie  OBVIOUS
    <3>1. k \in Nat /\ w \in Nat \ {0} /\ h \in Nat /\ k <= w  BY <1>1, <2>2 DEF MaxLie
    <3>2. (k * h) \div w \in 0 .. h  BY <3>1, RampIsKept
    <3>3. LieProbability(distance) = MaxLie - ((k * h) \div w)
      BY <2>2 DEF LieProbability
    <3> QED  BY <1>1, <3>1, <3>2, <3>3 DEF MaxLie
  <2> QED  BY <2>1, <2>2
<1> PICK plans : plans = PlansFor("thief", s, dest, distance, freshest)  OBVIOUS
<1>3. LieProbability(distance) < Certain /\ LieProbability(distance) \in Int  BY <1>1, <1>2
<1>4. PICK actual :
      /\ Honest(actual) \in plans
      /\ \A plan \in plans : \/ plan = Honest(actual)
                             \/ \E r \in SurvivableLies(actual, freshest) :
                                  plan = Location("lie", r, actual)
  BY <1>3 DEF PlansFor, ThiefClaims
<1>5. \A r \in SurvivableLies(actual, freshest) : r # actual /\ r # Betrayed(actual, freshest)
  BY DEF SurvivableLies
<1>6. PlansAreSound({Honest(actual)})
  BY DEF PlansAreSound, ValidPlan, Honest, Location
<1>7. ASSUME NEW r \in SurvivableLies(actual, freshest), NEW plan, plan = Location("lie", r, actual)
      PROVE  ValidPlan(plan) /\ plan.claimed # plan.actual
             /\ plan.claimed # Betrayed(plan.actual, freshest)
  BY <1>5, <1>7 DEF ValidPlan, Location, AlwaysTrueKinds
<1>8. \A plan \in plans : /\ ValidPlan(plan)
                          /\ plan.intent = "lie" => /\ plan.claimed # plan.actual
                                                    /\ plan.claimed # Betrayed(plan.actual, freshest)
  <2> TAKE plan \in plans
  <2>1. CASE plan = Honest(actual)  BY <2>1 DEF ValidPlan, Honest, Location
  <2>2. CASE plan # Honest(actual)  BY <1>4, <1>7, <2>2
  <2> QED  BY <2>1, <2>2
<1> QED  BY <1>2, <1>4, <1>8 DEF PlansAreSound

-----------------------------------------------------------------------------
(* The measures of a region.  Hopcroft and Tarjan: what a visit does to the *)
(* path is put into sets (Enters, LooksBack, Returns, Ends); each of them   *)
(* keeps the invariant WalkInv and marks an edge or a cell; the marks run   *)
(* out before the bound does; and what an ended walk in the invariant names *)
(* are the cells whose loss severs the rest.  Forests: where the cells hang *)
(* together there are no fewer edges than cells but one, where no core of   *)
(* degree two remains there are no more, and where one does there are as    *)
(* many as cells.                                                           *)

\* Ranks order the cells: each of them has one place, and the places are 1 .. |S|.
LEMMA SortedIs ==
  ASSUME NEW T, IsFiniteSet(T), T \subseteq Int \X Int
  PROVE  /\ Cardinality(T) \in Nat
         /\ Sorted(T) \in [1 .. Cardinality(T) -> T]
         /\ \A i, j \in 1 .. Cardinality(T) : Sorted(T)[i] = Sorted(T)[j] => i = j
         /\ \A c \in T : \E i \in 1 .. Cardinality(T) : Sorted(T)[i] = c
<1> PICK N : N = Cardinality(T)  OBVIOUS
<1>1. N \in Nat  BY FS_CardinalityType
<1> DEFINE first(c) == {d \in T : Before(d, c)}
<1> PICK place : place = [c \in T |-> Cardinality(first(c)) + 1]  OBVIOUS
<1>2. ASSUME NEW c \in T PROVE IsFiniteSet(first(c)) /\ Cardinality(first(c)) \in Nat
  BY FS_Subset, FS_CardinalityType
<1>3. ASSUME NEW c \in T PROVE place[c] \in 1 .. N
  <2>1. c \notin first(c)  BY DEF Before
  <2>2. IsFiniteSet(T \ {c}) /\ Cardinality(T \ {c}) = N - 1  BY FS_RemoveElement
  <2>3. Cardinality(first(c)) <= N - 1  BY <2>1, <2>2, FS_Subset
  <2> QED  BY <1>1, <1>2, <2>3, SMTT(40)
<1>4. ASSUME NEW c \in T, NEW d \in T, Before(c, d) PROVE place[c] < place[d]
  <2>1. first(c) \cup {c} \subseteq first(d)  BY <1>4 DEF Before
  <2>2. c \notin first(c)  BY DEF Before
  <2>3. Cardinality(first(c) \cup {c}) = Cardinality(first(c)) + 1  BY <1>2, <2>2, FS_AddElement
  <2>4. Cardinality(first(c) \cup {c}) <= Cardinality(first(d))  BY <1>2, <2>1, FS_Subset
  <2> HIDE DEF first
  <2> QED  BY <1>2, <2>3, <2>4
<1>5. ASSUME NEW c \in T, NEW d \in T, place[c] = place[d] PROVE c = d
  <2>1. c = d \/ Before(c, d) \/ Before(d, c)  BY DEF Before
  <2>2. place[c] \in Int /\ place[d] \in Int  BY <1>3
  <2>3. ~ Before(c, d)
    <3>1. ASSUME Before(c, d) PROVE FALSE
      <4>1. place[c] < place[d]  BY <1>4, <3>1
      <4> QED  BY <1>5, <2>2, <4>1
    <3> QED  BY <3>1
  <2>4. ~ Before(d, c)
    <3>1. ASSUME Before(d, c) PROVE FALSE
      <4>1. place[d] < place[c]  BY <1>4, <3>1
      <4> QED  BY <1>5, <2>2, <4>1
    <3> QED  BY <3>1
  <2> QED  BY <2>1, <2>3, <2>4
<1>6. place \in [T -> 1 .. N]  BY <1>3
<1>7. \A i \in 1 .. N : \E c \in T : place[c] = i
  <2>1. place \in Injection(T, 1 .. N)
    BY <1>5, <1>6 DEF Injection, IsInjective
  <2>2. IsFiniteSet(1 .. N) /\ Cardinality(1 .. N) = N  BY <1>1, FS_Interval
  <2>3. place \in Surjection(T, 1 .. N)  BY <2>1, <2>2, FS_Injection
  <2> QED  BY <2>3 DEF Surjection
<1>8. Sorted(T) = [i \in 1 .. N |-> CHOOSE c \in T : place[c] = i]
  BY DEF Sorted
<1>9. ASSUME NEW i \in 1 .. N PROVE Sorted(T)[i] \in T /\ place[Sorted(T)[i]] = i
  BY <1>7, <1>8, ZenonT(40)
<1>10. \A c \in T : place[c] \in 1 .. N /\ Sorted(T)[place[c]] = c  BY <1>3, <1>5, <1>9, ZenonT(40)
<1>11. Sorted(T) \in [1 .. N -> T]  BY <1>8, <1>9
<1> QED  BY <1>1, <1>9, <1>10, <1>11

\* A list that names each of its members once.
Lists(S) == {s \in Seq(S) : \A k, l \in 1 .. Len(s) : s[k] = s[l] => k = l}
Listed(s) == {s[k] : k \in 1 .. Len(s)}

\* The sorted list names every cell, and each once.
LEMMA SortedLists ==
  ASSUME NEW S, NEW T, T \subseteq S, IsFiniteSet(T), T \subseteq Int \X Int
  PROVE  Sorted(T) \in Lists(S) /\ Listed(Sorted(T)) = T
<1> PICK s : s = Sorted(T)  OBVIOUS
<1> PICK N : N = Cardinality(T)  OBVIOUS
<1>1. /\ N \in Nat /\ s \in [1 .. N -> T]
      /\ \A i, j \in 1 .. N : s[i] = s[j] => i = j
      /\ \A c \in T : \E i \in 1 .. N : s[i] = c
  BY SortedIs
<1>2. s \in Seq(S) /\ Len(s) = N  BY <1>1
<1> QED  BY <1>1, <1>2 DEF Lists, Listed

\* Its tail names all of them but the head.
LEMMA TailLists ==
  ASSUME NEW S, NEW s \in Lists(S), s # << >>
  PROVE  /\ Head(s) \in S /\ Head(s) \in Listed(s)
         /\ Tail(s) \in Lists(S) /\ Listed(Tail(s)) = Listed(s) \ {Head(s)}
<1>1. s \in Seq(S) /\ \A k, l \in 1 .. Len(s) : s[k] = s[l] => k = l  BY DEF Lists
<1>2. Len(s) \in Nat \ {0} /\ Head(s) = s[1] /\ 1 \in 1 .. Len(s)  BY <1>1
<1>3. /\ Tail(s) \in Seq(S) /\ Len(Tail(s)) = Len(s) - 1
      /\ \A k \in 1 .. Len(s) - 1 : Tail(s)[k] = s[k + 1]
  BY <1>1, <1>2
<1>4. Tail(s) \in Lists(S)
  <2> SUFFICES ASSUME NEW k \in 1 .. Len(s) - 1, NEW l \in 1 .. Len(s) - 1, Tail(s)[k] = Tail(s)[l]
               PROVE  k = l
    BY <1>3 DEF Lists
  <2>1. s[k + 1] = s[l + 1] /\ k + 1 \in 1 .. Len(s) /\ l + 1 \in 1 .. Len(s)  BY <1>2, <1>3
  <2>2. k + 1 = l + 1  BY <1>1, <2>1
  <2> QED  BY <2>2
<1>5. ASSUME NEW x \in Listed(Tail(s)) PROVE x \in Listed(s) /\ x # Head(s)
  <2>1. PICK k \in 1 .. Len(s) - 1 : x = Tail(s)[k]  BY <1>3 DEF Listed
  <2>2. k + 1 \in 1 .. Len(s) /\ x = s[k + 1] /\ k + 1 # 1  BY <1>2, <1>3, <2>1
  <2> QED  BY <1>1, <1>2, <2>2 DEF Listed
<1>6. ASSUME NEW x \in Listed(s), x # Head(s) PROVE x \in Listed(Tail(s))
  <2>1. PICK k \in 1 .. Len(s) : x = s[k]  BY DEF Listed
  <2>2. k - 1 \in 1 .. Len(s) - 1 /\ (k - 1) + 1 = k  BY <1>2, <1>6, <2>1
  <2>3. x = Tail(s)[k - 1]  BY <1>3, <2>1, <2>2
  <2> QED  BY <1>3, <2>2, <2>3 DEF Listed
<1>7. Listed(Tail(s)) = Listed(s) \ {Head(s)}  BY <1>5, <1>6
<1> QED  BY <1>1, <1>2, <1>4, <1>7 DEF Listed

\* A walk read as a path of cells: what it knows, how deep it stands, the cell at each
\* depth and the neighbours still to look at there.
Known(w) == DOMAIN w.found
Depth(w) == Len(w.stack)
Cell(w, i) == w.stack[i].cell
Left(w, i) == Listed(w.stack[i].ahead)

\* The fields a walk is made of, and what they hold.
Books == {"found", "low", "parent", "root", "kids", "cuts", "clock", "stack"}
IsWalk(w) == DOMAIN w = Books

Frames(S) == [cell : S, ahead : Lists(S)]

WalkTypes(S, r, w) ==
  /\ IsWalk(w) /\ w.root = r
  /\ w.stack \in Seq(Frames(S))
  /\ Known(w) \subseteq S /\ w.found \in [Known(w) -> Nat] /\ w.low \in [Known(w) -> Nat]
  /\ w.parent \in [Known(w) -> S \cup {None}]
  /\ w.kids \in Nat /\ w.clock \in Nat /\ w.cuts \subseteq S

\* The top of the stack is the deepest cell of the path.
LEMMA StackFacts ==
  ASSUME NEW S, NEW r, NEW w, WalkTypes(S, r, w)
  PROVE  /\ Depth(w) \in Nat
         /\ \A i \in 1 .. Depth(w) : /\ w.stack[i] = [cell |-> Cell(w, i), ahead |-> w.stack[i].ahead]
                                     /\ Cell(w, i) \in S /\ w.stack[i].ahead \in Lists(S)
                                     /\ Left(w, i) \subseteq S
<1>1. w.stack \in Seq(Frames(S))  BY DEF WalkTypes
<1> PICK s : s = w.stack  OBVIOUS
<1>2. Len(s) \in Nat /\ \A i \in 1 .. Len(s) : s[i] \in Frames(S)
  BY <1>1
<1>3. \A t \in Lists(S) : Listed(t) \subseteq S  BY DEF Lists, Listed
<1>4. \A f \in Frames(S) : f = [cell |-> f.cell, ahead |-> f.ahead] /\ f.cell \in S /\ f.ahead \in Lists(S)
  BY DEF Frames
<1> QED  BY <1>2, <1>3, <1>4 DEF Depth, Cell, Left

\* One neighbour of the top looked at.
Seen(w, v) ==
  /\ \A i \in 1 .. Depth(w) : Cell(v, i) = Cell(w, i)
  /\ \A i \in 1 .. Depth(w) - 1 : Left(v, i) = Left(w, i)

\* What taking one neighbour off the list of the top changes.
LEMMA SeenIs ==
  ASSUME NEW S, NEW r, NEW w, WalkTypes(S, r, w), w.stack # << >>, Top(w).ahead # << >>
  PROVE  LET n    == Depth(w)
             next == Head(Top(w).ahead)
             seen == Looked(w)
         IN  /\ next \in Left(w, n) /\ next \in S /\ n \in Nat \ {0}
             /\ WalkTypes(S, r, seen)
             /\ seen.found = w.found /\ seen.low = w.low /\ seen.parent = w.parent
             /\ seen.kids = w.kids /\ seen.cuts = w.cuts /\ seen.clock = w.clock
             /\ Depth(seen) = n /\ Seen(w, seen)
             /\ Left(seen, n) = Left(w, n) \ {next}
<1> PICK F : F = Frames(S)  OBVIOUS
<1> PICK s : s = w.stack  OBVIOUS
<1> PICK n : n = Len(s)  OBVIOUS
<1> PICK f : f = s[n]  OBVIOUS
<1>1. s \in Seq(F) /\ s # << >>  BY DEF WalkTypes
<1>2. n \in Nat \ {0} /\ n \in 1 .. n /\ f \in F  BY <1>1
<1> PICK a : a = f.ahead  OBVIOUS
<1> PICK c : c = f.cell  OBVIOUS
<1>3. f = [cell |-> c, ahead |-> a] /\ c \in S /\ a \in Lists(S)  BY <1>2 DEF Frames
<1>4. Top(w) = f /\ a # << >>  BY DEF Top
<1>5. /\ Head(a) \in S /\ Head(a) \in Listed(a)
      /\ Tail(a) \in Lists(S) /\ Listed(Tail(a)) = Listed(a) \ {Head(a)}
  BY <1>3, <1>4, TailLists
<1> PICK g : g = [cell |-> c, ahead |-> Tail(a)]  OBVIOUS
<1>6. g \in F /\ g.cell = c /\ g.ahead = Tail(a)  BY <1>3, <1>5 DEF Frames
<1> PICK t : t = [s EXCEPT ![n] = g]  OBVIOUS
<1>8. t \in Seq(F) /\ Len(t) = n /\ t[n] = g /\ \A i \in 1 .. n - 1 : t[i] = s[i]
  BY <1>1, <1>2, <1>6
<1> DEFINE seen == Looked(w)
<1>9. /\ seen.found = w.found /\ seen.low = w.low /\ seen.parent = w.parent /\ seen.root = w.root
      /\ seen.kids = w.kids /\ seen.cuts = w.cuts /\ seen.clock = w.clock
      /\ seen.stack = t /\ IsWalk(seen)
  <2>1. Top(w).cell = c /\ Top(w).ahead = a  BY <1>4
  <2>2. seen = [w EXCEPT !.stack[n] = g]  BY <2>1 DEF Looked
  <2>3. DOMAIN w = Books  BY DEF WalkTypes, IsWalk
  <2> HIDE DEF seen
  <2> QED  BY <2>2, <2>3 DEF Books, IsWalk
<1>10. seen.stack = t  BY <1>9
<1>11. c = Cell(w, n) /\ Left(w, n) = Listed(a) /\ Depth(w) = n
  BY DEF Cell, Left, Depth
<1> HIDE DEF seen
<1>12. Depth(seen) = n /\ Seen(w, seen) /\ Left(seen, n) = Listed(Tail(a))
  BY <1>2, <1>6, <1>8, <1>10, <1>11 DEF Depth, Cell, Left, Seen
<1>15. WalkTypes(S, r, seen)
  BY <1>8, <1>9 DEF WalkTypes, Known
<1>16. Top(w).ahead = a  BY <1>4
<1>17. Head(a) \in Left(w, n) /\ Head(a) \in S /\ Left(seen, n) = Left(w, n) \ {Head(a)}
  BY <1>5, <1>11, <1>12
<1> QED
  BY <1>2, <1>9, <1>11, <1>12, <1>15, <1>16, <1>17 DEF seen

\* What discovering a cell changes.
Entered(S, w, v, c, from) ==
  /\ Known(v) = Known(w) \cup {c}
  /\ v.found[c] = w.clock /\ v.low[c] = w.clock /\ v.parent[c] = from
  /\ \A x \in Known(w) \ {c} : /\ v.found[x] = w.found[x] /\ v.low[x] = w.low[x]
                               /\ v.parent[x] = w.parent[x]
  /\ v.clock = w.clock + 1 /\ v.cuts = w.cuts /\ v.kids = w.kids
  /\ Depth(v) = Depth(w) + 1 /\ Cell(v, Depth(v)) = c /\ Left(v, Depth(v)) = NeighborsIn(S, c)
  /\ \A i \in 1 .. Depth(w) : Cell(v, i) = Cell(w, i) /\ Left(v, i) = Left(w, i)

\* The neighbours of a cell are finitely many cells of the set.
LEMMA NeighborsAre ==
  ASSUME NEW S, IsFiniteSet(S), S \subseteq Int \X Int, NEW c
  PROVE  /\ NeighborsIn(S, c) \subseteq S /\ IsFiniteSet(NeighborsIn(S, c))
         /\ Sorted(NeighborsIn(S, c)) \in Lists(S)
         /\ Listed(Sorted(NeighborsIn(S, c))) = NeighborsIn(S, c)
<1>1. NeighborsIn(S, c) \subseteq S  BY DEF NeighborsIn
<1>2. IsFiniteSet(NeighborsIn(S, c))  BY <1>1, FS_Subset
<1> QED  BY <1>1, <1>2, SortedLists

\* Discovering does that, and keeps the types.
LEMMA DiscoverIs ==
  ASSUME NEW S, IsFiniteSet(S), S \subseteq Int \X Int, NEW r, NEW w, WalkTypes(S, r, w),
         NEW c \in S, NEW from \in S \cup {None}
  PROVE  LET v == Discover(S, w, c, from)
         IN  WalkTypes(S, r, v) /\ Entered(S, w, v, c, from)
<1> PICK N : N = NeighborsIn(S, c)  OBVIOUS
<1> PICK a : a = Sorted(N)  OBVIOUS
<1>1. a \in Lists(S) /\ Listed(a) = N /\ N \subseteq S  BY NeighborsAre
<1> PICK F : F = Frames(S)  OBVIOUS
<1> PICK g : g = [cell |-> c, ahead |-> a]  OBVIOUS
<1>2. g \in F /\ g.cell = c /\ g.ahead = a  BY <1>1 DEF Frames
<1> PICK s : s = w.stack  OBVIOUS
<1>3. s \in Seq(F)  BY DEF WalkTypes
<1> PICK n : n = Len(s)  OBVIOUS
<1> PICK t : t = Append(s, g)  OBVIOUS
<1>4. /\ n \in Nat /\ t \in Seq(F) /\ Len(t) = n + 1 /\ t[n + 1] = g
      /\ \A i \in 1 .. n : t[i] = s[i]
  BY <1>2, <1>3
<1> PICK wf, wl, wp, wc : wf = w.found /\ wl = w.low /\ wp = w.parent /\ wc = w.clock  OBVIOUS
<1> PICK fo : fo = With(wf, c, wc)  OBVIOUS
<1> PICK lo : lo = With(wl, c, wc)  OBVIOUS
<1> PICK pa : pa = With(wp, c, from)  OBVIOUS
<1> PICK D : D = Known(w)  OBVIOUS
<1>5. /\ wf \in [D -> Nat] /\ wl \in [D -> Nat] /\ wp \in [D -> S \cup {None}]
      /\ wc \in Nat /\ D \subseteq S /\ w.kids \in Nat /\ w.cuts \subseteq S /\ w.root = r
  BY DEF WalkTypes
<1>6. fo \in [D \cup {c} -> Nat] /\ fo[c] = wc /\ \A d \in D \ {c} : fo[d] = wf[d]
  BY <1>5 DEF With
<1>7. lo \in [D \cup {c} -> Nat] /\ lo[c] = wc /\ \A d \in D \ {c} : lo[d] = wl[d]
  BY <1>5 DEF With
<1>8. pa \in [D \cup {c} -> S \cup {None}] /\ pa[c] = from /\ \A d \in D \ {c} : pa[d] = wp[d]
  BY <1>5 DEF With
<1> DEFINE v == Discover(S, w, c, from)
<1>10. /\ v.found = fo /\ v.low = lo /\ v.parent = pa /\ v.root = w.root /\ v.kids = w.kids
       /\ v.cuts = w.cuts /\ v.clock = wc + 1 /\ v.stack = t /\ IsWalk(v)
  <2>1. v = [w EXCEPT !.found = fo, !.low = lo, !.parent = pa, !.clock = wc + 1, !.stack = t]
    BY DEF Discover
  <2>2. DOMAIN w = Books  BY DEF WalkTypes, IsWalk
  <2> HIDE DEF v
  <2> QED  BY <2>1, <2>2 DEF Books, IsWalk
<1> HIDE DEF v
<1>12. Known(v) = D \cup {c} /\ D \cup {c} \subseteq S  BY <1>5, <1>6, <1>10 DEF Known
<1>13. WalkTypes(S, r, v)
  <2>1. wc + 1 \in Nat  BY <1>5
  <2> QED  BY <1>4, <1>5, <1>6, <1>7, <1>8, <1>10, <1>12, <2>1 DEF WalkTypes
<1>14. Depth(w) = n /\ Depth(v) = n + 1  BY <1>4, <1>10 DEF Depth
<1>15. Cell(v, n + 1) = c /\ Left(v, n + 1) = N  BY <1>1, <1>2, <1>4, <1>10 DEF Cell, Left
<1>16. \A i \in 1 .. n : Cell(v, i) = Cell(w, i) /\ Left(v, i) = Left(w, i)
  BY <1>4, <1>10 DEF Cell, Left
<1>17. Entered(S, w, v, c, from)
  BY <1>6, <1>7, <1>8, <1>10, <1>12, <1>14, <1>15, <1>16 DEF Entered
<1> QED  BY <1>13, <1>17 DEF v

\* The top's next neighbour is new.
Enters(S, r, w, v, c) ==
  /\ c \in S /\ c \in Left(w, Depth(w)) /\ c \notin Known(w)
  /\ Known(v) = Known(w) \cup {c}
  /\ v.found[c] = w.clock /\ v.low[c] = w.clock /\ v.parent[c] = Cell(w, Depth(w))
  /\ \A x \in Known(w) : /\ v.found[x] = w.found[x] /\ v.low[x] = w.low[x]
                         /\ v.parent[x] = w.parent[x]
  /\ v.clock = w.clock + 1 /\ v.cuts = w.cuts
  /\ v.kids = w.kids + (IF Cell(w, Depth(w)) = r THEN 1 ELSE 0)
  /\ Depth(v) = Depth(w) + 1
  /\ Cell(v, Depth(w) + 1) = c /\ Left(v, Depth(w) + 1) = NeighborsIn(S, c)
  /\ \A i \in 1 .. Depth(w) : Cell(v, i) = Cell(w, i)
  /\ \A i \in 1 .. Depth(w) - 1 : Left(v, i) = Left(w, i)
  /\ Left(v, Depth(w)) = Left(w, Depth(w)) \ {c}

\* The top's next neighbour is known.
LooksBack(w, v, c) ==
  /\ c \in Left(w, Depth(w)) /\ c \in Known(w)
  /\ v.found = w.found /\ v.parent = w.parent /\ v.kids = w.kids
  /\ v.clock = w.clock /\ v.cuts = w.cuts
  /\ \A x \in Known(w) :
       v.low[x] = IF x = Cell(w, Depth(w)) /\ c # w.parent[x]
                  THEN Lesser(w.low[x], w.found[c]) ELSE w.low[x]
  /\ Depth(v) = Depth(w) /\ \A i \in 1 .. Depth(w) : Cell(v, i) = Cell(w, i)
  /\ \A i \in 1 .. Depth(w) - 1 : Left(v, i) = Left(w, i)
  /\ Left(v, Depth(w)) = Left(w, Depth(w)) \ {c}

\* The top has none left: its caller goes on.
Returns(r, w, v) ==
  LET top    == Cell(w, Depth(w))
      caller == Cell(w, Depth(w) - 1)
  IN  /\ Depth(w) >= 2 /\ Left(w, Depth(w)) = {}
      /\ v.found = w.found /\ v.parent = w.parent /\ v.kids = w.kids /\ v.clock = w.clock
      /\ \A x \in Known(w) :
           v.low[x] = IF x = caller THEN Lesser(w.low[x], w.low[top]) ELSE w.low[x]
      /\ v.cuts = w.cuts \cup (IF caller # r /\ w.low[top] >= w.found[caller]
                               THEN {caller} ELSE {})
      /\ Depth(v) = Depth(w) - 1
      /\ \A i \in 1 .. Depth(w) - 1 : Cell(v, i) = Cell(w, i) /\ Left(v, i) = Left(w, i)

\* Nor has the root: the walk is over.
Ends(w, v) ==
  /\ Depth(w) = 1 /\ Left(w, 1) = {} /\ Depth(v) = 0
  /\ v.found = w.found /\ v.kids = w.kids /\ v.cuts = w.cuts /\ v.clock = w.clock

\* The four ways a walk goes on are what Visit does.
LEMMA EntersIs ==
  ASSUME NEW S, IsFiniteSet(S), S \subseteq Int \X Int, NEW r, NEW w, WalkTypes(S, r, w),
         w.stack # << >>, Top(w).ahead # << >>, Head(Top(w).ahead) \notin Known(w)
  PROVE  LET v == Visit(S, w)
         IN  WalkTypes(S, r, v) /\ Enters(S, r, w, v, Head(Top(w).ahead))
<1>0. LET n == Depth(w)
           c == Head(Top(w).ahead)
           seen == Looked(w)
       IN  /\ c \in S /\ c \in Left(w, n) /\ n \in Nat \ {0} /\ WalkTypes(S, r, seen)
           /\ seen.found = w.found /\ seen.low = w.low /\ seen.parent = w.parent
           /\ seen.kids = w.kids /\ seen.cuts = w.cuts /\ seen.clock = w.clock
           /\ Depth(seen) = n /\ Seen(w, seen)
           /\ Left(seen, n) = Left(w, n) \ {c}
  BY SeenIs, ZenonT(60)
<1> PICK n : n = Depth(w)  OBVIOUS
<1> PICK c : c = Head(Top(w).ahead)  OBVIOUS
<1> PICK seen : seen = Looked(w)  OBVIOUS
<1> PICK top : top = Cell(w, n)  OBVIOUS
<1>1. /\ c \in S /\ c \in Left(w, n) /\ n \in Nat \ {0} /\ WalkTypes(S, r, seen)
      /\ seen.found = w.found /\ seen.low = w.low /\ seen.parent = w.parent
      /\ seen.kids = w.kids /\ seen.cuts = w.cuts /\ seen.clock = w.clock
      /\ Depth(seen) = n /\ Seen(w, seen)
      /\ Left(seen, n) = Left(w, n) \ {c}
  BY <1>0
<1>2. top \in S /\ Top(w).cell = top
  <2>1. n \in 1 .. Depth(w)  BY <1>1
  <2>2. top \in S  BY <2>1, StackFacts
  <2> QED  BY <2>2 DEF Top, Cell, Depth
<1> PICK more : more = IF top = r THEN 1 ELSE 0  OBVIOUS
<1> PICK u : u = [seen EXCEPT !.kids = @ + more]  OBVIOUS
<1>3. /\ u.found = w.found /\ u.low = w.low /\ u.parent = w.parent
      /\ u.kids = w.kids + more /\ u.cuts = w.cuts /\ u.clock = w.clock
      /\ u.root = seen.root /\ u.stack = seen.stack /\ IsWalk(u)
  <2>1. DOMAIN seen = Books  BY <1>1 DEF WalkTypes, IsWalk
  <2> QED  BY <1>1, <2>1 DEF Books, IsWalk
<1>4. WalkTypes(S, r, u)
  <2>1. w.kids \in Nat /\ more \in Nat  BY DEF WalkTypes
  <2>2. w.kids + more \in Nat  BY <2>1
  <2> QED  BY <1>1, <1>3, <2>2 DEF WalkTypes, Known
<1>5. /\ Depth(u) = n /\ Known(u) = Known(w)
      /\ \A i \in 1 .. n : Cell(u, i) = Cell(seen, i) /\ Left(u, i) = Left(seen, i)
  BY <1>1, <1>3 DEF Depth, Known, Cell, Left
<1> PICK v : v = Discover(S, u, c, top)  OBVIOUS
<1>6. Visit(S, w) = v
  <2>1. w.root = r  BY DEF WalkTypes
  <2> QED  BY <1>2, <2>1 DEF Visit, Advance, Known
<1>7. WalkTypes(S, r, v) /\ Entered(S, u, v, c, top)  BY <1>1, <1>2, <1>4, DiscoverIs
<1>8. Enters(S, r, w, v, c)
  <2>1. /\ Known(v) = Known(w) \cup {c}
        /\ v.found[c] = w.clock /\ v.low[c] = w.clock /\ v.parent[c] = top
        /\ v.clock = w.clock + 1 /\ v.cuts = w.cuts /\ v.kids = w.kids + more
    BY <1>3, <1>5, <1>7 DEF Entered
  <2>2. \A x \in Known(w) : /\ v.found[x] = w.found[x] /\ v.low[x] = w.low[x]
                            /\ v.parent[x] = w.parent[x]
    BY <1>3, <1>5, <1>7 DEF Entered
  <2>3. /\ Depth(v) = n + 1 /\ Cell(v, n + 1) = c /\ Left(v, n + 1) = NeighborsIn(S, c)
        /\ \A i \in 1 .. n : Cell(v, i) = Cell(u, i) /\ Left(v, i) = Left(u, i)
    BY <1>5, <1>7 DEF Entered
  <2>4. /\ \A i \in 1 .. n : Cell(v, i) = Cell(w, i)
        /\ \A i \in 1 .. n - 1 : Left(v, i) = Left(w, i)
        /\ Left(v, n) = Left(w, n) \ {c}
    <3>1. /\ \A i \in 1 .. n : Cell(seen, i) = Cell(w, i)
          /\ \A i \in 1 .. n - 1 : Left(seen, i) = Left(w, i)
      BY <1>1 DEF Seen
    <3>2. n \in 1 .. n /\ \A i \in 1 .. n - 1 : i \in 1 .. n  BY <1>1
    <3> QED  BY <1>1, <1>5, <2>3, <3>1, <3>2, SMTT(40)
  <2> QED  BY <1>1, <2>1, <2>2, <2>3, <2>4 DEF Enters
<1> QED  BY <1>6, <1>7, <1>8

\* So does looking back.
LEMMA LooksBackIs ==
  ASSUME NEW S, IsFiniteSet(S), S \subseteq Int \X Int, NEW r, NEW w, WalkTypes(S, r, w),
         w.stack # << >>, Top(w).ahead # << >>, Head(Top(w).ahead) \in Known(w),
         Cell(w, Depth(w)) \in Known(w)
  PROVE  LET v == Visit(S, w)
         IN  WalkTypes(S, r, v) /\ LooksBack(w, v, Head(Top(w).ahead))
<1> PICK n : n = Depth(w)  OBVIOUS
<1> PICK c : c = Head(Top(w).ahead)  OBVIOUS
<1> PICK seen : seen = Looked(w)  OBVIOUS
<1> PICK top : top = Cell(w, n)  OBVIOUS
<1>1. /\ c \in Left(w, n) /\ n \in Nat \ {0} /\ WalkTypes(S, r, seen)
      /\ seen.found = w.found /\ seen.low = w.low /\ seen.parent = w.parent
      /\ seen.kids = w.kids /\ seen.cuts = w.cuts /\ seen.clock = w.clock
      /\ Depth(seen) = n /\ Seen(w, seen)
      /\ Left(seen, n) = Left(w, n) \ {c}
  BY SeenIs, SMTT(40)
<1>2. Top(w).cell = top  BY DEF Top, Cell, Depth
<1> PICK D : D = Known(w)  OBVIOUS
<1>3. w.found \in [D -> Nat] /\ w.low \in [D -> Nat] /\ top \in D /\ c \in D
  BY DEF WalkTypes
<1> PICK lesser : lesser = IF c # w.parent[top] THEN Lesser(w.low[top], w.found[c]) ELSE w.low[top]
  OBVIOUS
<1>4. lesser \in Nat  BY <1>3 DEF Lesser
<1> PICK lo : lo = [w.low EXCEPT ![top] = lesser]  OBVIOUS
<1>5. lo \in [D -> Nat] /\ \A x \in D : lo[x] = IF x = top THEN lesser ELSE w.low[x]
  BY <1>3, <1>4
<1> PICK v : v = Visit(S, w)  OBVIOUS
<1>6. /\ v.found = w.found /\ v.low = lo /\ v.parent = w.parent /\ v.root = seen.root
      /\ v.kids = w.kids /\ v.cuts = w.cuts /\ v.clock = w.clock /\ v.stack = seen.stack
      /\ IsWalk(v)
  <2>1. v = IF c # w.parent[top] THEN [seen EXCEPT !.low[top] = Lesser(@, w.found[c])] ELSE seen
    BY <1>2, <1>3 DEF Visit, Advance, Known
  <2>2. DOMAIN seen = Books  BY <1>1 DEF WalkTypes, IsWalk
  <2>3. CASE c # w.parent[top]
    <3>1. v = [seen EXCEPT !.low[top] = lesser]  BY <1>1, <2>1, <2>2, <2>3 DEF Books
    <3> QED  BY <1>1, <2>2, <3>1 DEF Books, IsWalk
  <2>4. CASE ~ (c # w.parent[top])
    <3>1. lo = w.low  BY <1>3, <2>4
    <3> QED  BY <1>1, <2>1, <2>2, <2>4, <3>1 DEF IsWalk
  <2> QED  BY <2>3, <2>4
<1>7. WalkTypes(S, r, v)
  BY <1>1, <1>5, <1>6 DEF WalkTypes, Known
<1>8. LooksBack(w, v, c)
  <2>1. /\ Depth(v) = n /\ \A i \in 1 .. n : Cell(v, i) = Cell(seen, i) /\ Left(v, i) = Left(seen, i)
    BY <1>1, <1>6 DEF Depth, Cell, Left
  <2>2. /\ \A i \in 1 .. n : Cell(v, i) = Cell(w, i)
        /\ \A i \in 1 .. n - 1 : Left(v, i) = Left(w, i)
        /\ Left(v, n) = Left(w, n) \ {c}
    BY <1>1, <2>1 DEF Seen
  <2>3. \A x \in D : v.low[x] = IF x = top /\ c # w.parent[x]
                                THEN Lesser(w.low[x], w.found[c]) ELSE w.low[x]
    BY <1>5, <1>6
  <2> QED  BY <1>1, <1>3, <1>6, <2>1, <2>2, <2>3 DEF LooksBack
<1> QED  BY <1>7, <1>8

\* The frames below the top.
LEMMA PoppedIs ==
  ASSUME NEW S, NEW r, NEW w, WalkTypes(S, r, w), Depth(w) >= 2
  PROVE  LET n == Depth(w)
         IN  /\ n \in Nat /\ Popped(w) \in Seq(Frames(S)) /\ Len(Popped(w)) = n - 1
             /\ \A i \in 1 .. n - 1 : Popped(w)[i] = w.stack[i]
<1> PICK F : F = Frames(S)  OBVIOUS
<1> PICK s : s = w.stack  OBVIOUS
<1> PICK n : n = Len(s)  OBVIOUS
<1>1. s \in Seq(F) /\ n \in Nat /\ n >= 2  BY DEF WalkTypes, Depth
<1>2. /\ SubSeq(s, 1, n - 1) \in Seq(F) /\ Len(SubSeq(s, 1, n - 1)) = n - 1
      /\ \A i \in 1 .. n - 1 : SubSeq(s, 1, n - 1)[i] = s[i]
  BY <1>1
<1> QED  BY <1>1, <1>2 DEF Popped, Depth

\* So does a return.
LEMMA ReturnsIs ==
  ASSUME NEW S, NEW r, NEW w, WalkTypes(S, r, w), Depth(w) >= 2, Top(w).ahead = << >>,
         Cell(w, Depth(w)) \in Known(w), Cell(w, Depth(w) - 1) \in Known(w)
  PROVE  LET v == Visit(S, w)
         IN  WalkTypes(S, r, v) /\ Returns(r, w, v)
<1> PICK n : n = Depth(w)  OBVIOUS
<1> PICK top : top = Cell(w, n)  OBVIOUS
<1> PICK caller : caller = Cell(w, n - 1)  OBVIOUS
<1> PICK t : t = Popped(w)  OBVIOUS
<1>1. n \in Nat /\ t \in Seq(Frames(S)) /\ Len(t) = n - 1 /\ \A i \in 1 .. n - 1 : t[i] = w.stack[i]
  BY PoppedIs
<1>20. n >= 2 /\ n # 1  BY <1>1
<1>2. n >= 2 /\ n = Len(w.stack) /\ w.stack # << >> /\ Top(w).cell = top
  BY DEF Depth, Top, Cell
<1>3. w.stack[Len(w.stack) - 1].cell = caller  BY <1>2 DEF Cell
<1>4. Left(w, n) = {}
  <2>1. w.stack[n].ahead = << >>  BY <1>2 DEF Top
  <2> QED  BY <2>1 DEF Left, Listed
<1> PICK D : D = Known(w)  OBVIOUS
<1>5. /\ w.found \in [D -> Nat] /\ w.low \in [D -> Nat] /\ top \in D /\ caller \in D /\ D \subseteq S
      /\ w.cuts \subseteq S /\ w.root = r /\ DOMAIN w = Books
  BY DEF WalkTypes, IsWalk
<1> PICK lesser : lesser = Lesser(w.low[caller], w.low[top])  OBVIOUS
<1>6. lesser \in Nat  BY <1>5 DEF Lesser
<1> PICK lo : lo = [w.low EXCEPT ![caller] = lesser]  OBVIOUS
<1>7. lo \in [D -> Nat] /\ \A x \in D : lo[x] = IF x = caller THEN lesser ELSE w.low[x]
  BY <1>5, <1>6
<1> PICK cu : cu = w.cuts \cup (IF caller # r /\ w.low[top] >= w.found[caller] THEN {caller} ELSE {})
  OBVIOUS
<1>8. cu \subseteq S  BY <1>5
<1> PICK v : v = Visit(S, w)  OBVIOUS
<1>9. /\ v.found = w.found /\ v.low = lo /\ v.parent = w.parent /\ v.root = w.root
      /\ v.kids = w.kids /\ v.cuts = cu /\ v.clock = w.clock /\ v.stack = t
      /\ IsWalk(v)
  <2>1. v = Retreat(w)  BY <1>2 DEF Visit
  <2>2. v = [w EXCEPT !.stack = t, !.low[caller] = Lesser(@, w.low[top]), !.cuts = @ \cup
               (IF caller # w.root /\ w.low[top] >= w.found[caller] THEN {caller} ELSE {})]
    <3>1. Len(w.stack) # 1  BY <1>2, <1>20, Zenon
    <3>2. v = [w EXCEPT
              !.stack = Popped(w),
              !.low[w.stack[Len(w.stack) - 1].cell] = Lesser(@, w.low[Top(w).cell]),
              !.cuts = @ \cup (IF /\ w.stack[Len(w.stack) - 1].cell # w.root
                                 /\ w.low[Top(w).cell] >= w.found[w.stack[Len(w.stack) - 1].cell]
                              THEN {w.stack[Len(w.stack) - 1].cell} ELSE {})]
      BY <2>1, <3>1, Zenon DEF Retreat
    <3> QED  BY <1>2, <1>3, <3>2, Zenon
  <2>3. v = [w EXCEPT !.stack = t, !.low = lo, !.cuts = cu]
    BY <1>5, <2>2 DEF Books
  <2> QED  BY <1>5, <2>3 DEF Books, IsWalk
<1>10. WalkTypes(S, r, v)
  BY <1>1, <1>5, <1>7, <1>8, <1>9 DEF WalkTypes, Known
<1>11. /\ Depth(v) = n - 1
       /\ \A i \in 1 .. n - 1 : Cell(v, i) = Cell(w, i) /\ Left(v, i) = Left(w, i)
  BY <1>1, <1>9 DEF Depth, Cell, Left
<1>12. \A x \in D : v.low[x] = IF x = caller THEN Lesser(w.low[x], w.low[top]) ELSE w.low[x]
  BY <1>7, <1>9
<1>13. Returns(r, w, v)
  BY <1>2, <1>4, <1>9, <1>11, <1>12, ZenonT(40) DEF Returns
<1> QED  BY <1>10, <1>13

\* And the end.
LEMMA EndsIs ==
  ASSUME NEW S, NEW r, NEW w, WalkTypes(S, r, w), Depth(w) = 1, Top(w).ahead = << >>
  PROVE  LET v == Visit(S, w)
         IN  WalkTypes(S, r, v) /\ Ends(w, v)
<1> PICK v : v = Visit(S, w)  OBVIOUS
<1>0. Len(w.stack) = 1 /\ DOMAIN w = Books  BY DEF Depth, WalkTypes, IsWalk
<1>1. Len(w.stack) = 1 /\ w.stack # << >> /\ DOMAIN w = Books
  <2>1. Len(<< >>) = 0  OBVIOUS
  <2>2. ASSUME w.stack = << >> PROVE FALSE
    <3>1. Len(w.stack) = 0  BY <2>1, <2>2
    <3> QED  BY <1>0, <3>1
  <2> QED  BY <1>0, <2>2
<1>2. v = [w EXCEPT !.stack = << >>]  BY <1>1 DEF Visit, Retreat
<1>3. /\ v.found = w.found /\ v.low = w.low /\ v.parent = w.parent /\ v.root = w.root
      /\ v.kids = w.kids /\ v.cuts = w.cuts /\ v.clock = w.clock /\ v.stack = << >>
      /\ IsWalk(v)
  BY <1>1, <1>2 DEF Books, IsWalk
<1>4. Left(w, 1) = {}
  <2>1. w.stack[1].ahead = << >>  BY <1>1 DEF Top
  <2> QED  BY <2>1 DEF Left, Listed
<1>5. << >> \in Seq(Frames(S)) /\ Len(<< >>) = 0  OBVIOUS
<1>6. WalkTypes(S, r, v)  BY <1>3, <1>5 DEF WalkTypes, Known
<1>7. Ends(w, v)  BY <1>3, <1>4, <1>5 DEF Ends, Depth
<1> QED  BY <1>6, <1>7

\* Cells that fall apart, and cells that can all be reached from one of them.
Severed(T) == \E X \in SUBSET T : X # {} /\ X # T /\ ClosedIn(T, X)
HangsAt(T, k) == \A X \in SUBSET T : k \in X /\ ClosedIn(T, X) => X = T

\* What was found from a cell of the path on; of it, what lies below no later one;
\* and the ends of the edges looked at from there, but for the way back.
Behind(w, i) == {u \in Known(w) : w.found[u] >= w.found[Cell(w, i)]}
Zone(w, i) ==
  {u \in Behind(w, i) : i < Depth(w) => w.found[u] < w.found[Cell(w, i + 1)]}
SeenFrom(S, w, i) ==
  {y \in S : \E u \in Zone(w, i) :
     y \in NeighborsIn(S, u) /\ (u = Cell(w, i) => y \notin Left(w, i) /\ y # w.parent[u])}
OnPath(w, u) == \E i \in 1 .. Depth(w) : u = Cell(w, i)

\* The invariant of the walk.  Its path is in the order of discovery, each cell the
\* neighbour of the next; nothing is behind a cell but what hangs at it; the low link is
\* the earliest cell seen from its zone; every cell named a cut severs, and whatever
\* another cell leaves behind is still reached from the root without it.
Ordered(r, w) ==
  /\ r \in Known(w)
  /\ \A u \in Known(w) : w.found[u] < w.clock /\ w.found[r] <= w.found[u]
  /\ \A u, x \in Known(w) : w.found[u] = w.found[x] => u = x
  /\ \A i \in 1 .. Depth(w) : Cell(w, i) \in Known(w)
  /\ \A i, j \in 1 .. Depth(w) : i < j => w.found[Cell(w, i)] < w.found[Cell(w, j)]
  /\ Depth(w) >= 1 => Cell(w, 1) = r
Rooted(S, r, w) ==
  \A i \in 2 .. Depth(w) : /\ w.parent[Cell(w, i)] = Cell(w, i - 1)
                           /\ Cell(w, i) \in NeighborsIn(S, Cell(w, i - 1))
LookedAt(S, w) ==
  \A i \in 1 .. Depth(w) : /\ Left(w, i) \subseteq NeighborsIn(S, Cell(w, i))
                           /\ NeighborsIn(S, Cell(w, i)) \subseteq Left(w, i) \cup Known(w)
Settled(S, w) ==
  \A u \in Known(w) : ~ OnPath(w, u) =>
    \A y \in NeighborsIn(S, u) :
      y \in Known(w) /\ \A i \in 1 .. Depth(w) : y \in Behind(w, i) => u \in Behind(w, i)
LowIsBelow(S, w) ==
  \A i \in 1 .. Depth(w) :
    /\ w.low[Cell(w, i)] <= w.found[Cell(w, i)]
    /\ \A y \in SeenFrom(S, w, i) : w.low[Cell(w, i)] <= w.found[y]
LowIsReached(S, w) ==
  \A i \in 1 .. Depth(w) :
    \/ w.low[Cell(w, i)] = w.found[Cell(w, i)]
    \/ \E y \in SeenFrom(S, w, i) : w.found[y] = w.low[Cell(w, i)]
Hanging(w) == \A i \in 1 .. Depth(w) : HangsAt(Behind(w, i), Cell(w, i))
CutsSever(S, r, w) == \A c \in w.cuts : c # r /\ Severed(S \ {c})
OthersHold(S, r, w) ==
  \A c \in Known(w) \ w.cuts : c # r =>
    \A X \in SUBSET (S \ {c}) : r \in X /\ ClosedIn(S \ {c}, X) =>
      \A u \in Known(w) \ {c} :
        u \in X \/ \E i \in 1 .. Depth(w) - 1 : c = Cell(w, i) /\ u \in Behind(w, i + 1)
RootCounts(S, r, w) ==
  /\ w.kids = 0 => Known(w) = {r}
  /\ w.kids >= 1 => Known(w) # {r}
  /\ w.kids >= 2 => Severed(S \ {r})
  /\ w.kids = 1 /\ Depth(w) >= 2 => Known(w) \ {r} \subseteq Behind(w, 2)
  /\ w.kids = 1 /\ Depth(w) <= 1 => \E k \in Known(w) \ {r} : HangsAt(Known(w) \ {r}, k)

WalkInv(S, r, w) ==
  /\ WalkTypes(S, r, w) /\ Ordered(r, w) /\ Rooted(S, r, w) /\ LookedAt(S, w)
  /\ Settled(S, w) /\ LowIsBelow(S, w) /\ LowIsReached(S, w) /\ Hanging(w)
  /\ CutsSever(S, r, w) /\ OthersHold(S, r, w) /\ RootCounts(S, r, w)

\* Neighbours are mutual.
LEMMA NeighborsMutual ==
  ASSUME NEW S, S \subseteq Int \X Int, NEW x \in S, NEW y \in NeighborsIn(S, x)
  PROVE  y \in S /\ x \in NeighborsIn(S, y) /\ x # y
<1>1. y \in S /\ y \in Around(x)  BY DEF NeighborsIn
<1>2. x \in Around(y)  BY <1>1, AroundIsMutual
<1>3. x # y
  <2> PICK a \in Int, b \in Int : x = <<a, b>>  OBVIOUS
  <2>1. y \in {<<a - 1, b>>, <<a + 1, b>>, <<a, b - 1>>, <<a, b + 1>>}  BY <1>1 DEF Around
  <2> QED  BY <2>1
<1> QED  BY <1>1, <1>2, <1>3 DEF NeighborsIn

\* The neighbours among fewer cells.
LEMMA NeighborsInPart ==
  ASSUME NEW S, NEW T, T \subseteq S, NEW x
  PROVE  NeighborsIn(T, x) = NeighborsIn(S, x) \cap T
BY DEF NeighborsIn

\* What a new cell changes.
LEMMA EntersShape ==
  ASSUME NEW S, NEW r, NEW w, NEW v, NEW c, S \subseteq Int \X Int, WalkTypes(S, r, w), Ordered(r, w),
         WalkTypes(S, r, v), Enters(S, r, w, v, c), NEW n, n = Depth(w), n \in Nat \ {0}
  PROVE  /\ Depth(v) = n + 1 /\ Known(v) = Known(w) \cup {c} /\ c \notin Known(w)
         /\ v.found[c] = w.clock /\ w.clock \in Nat
         /\ \A u \in Known(w) : /\ v.found[u] = w.found[u] /\ w.found[u] \in Nat
                                /\ w.found[u] < w.clock
         /\ \A i \in 1 .. n : Cell(v, i) = Cell(w, i) /\ Cell(w, i) \in Known(w)
         /\ Cell(v, n + 1) = c
         /\ \A i \in 1 .. n : Behind(v, i) = Behind(w, i) \cup {c} /\ Zone(v, i) = Zone(w, i)
         /\ Behind(v, n + 1) = {c} /\ Zone(v, n + 1) = {c}
<1> PICK F : F = Known(w)  OBVIOUS
<1>1. /\ Known(v) = F \cup {c} /\ c \notin F /\ v.found[c] = w.clock
      /\ \A u \in F : v.found[u] = w.found[u]
      /\ Depth(v) = n + 1 /\ Cell(v, n + 1) = c
      /\ \A i \in 1 .. n : Cell(v, i) = Cell(w, i)
  BY DEF Enters
<1>2. w.clock \in Nat /\ \A u \in F : w.found[u] \in Nat  BY DEF WalkTypes
<1>3. /\ \A u \in F : w.found[u] < w.clock
      /\ \A i \in 1 .. n : Cell(w, i) \in F
  BY DEF Ordered
<1>4. /\ \A i \in 1 .. n + 1 : i \in 1 .. n \/ i = n + 1
      /\ \A i \in 1 .. n : i < n => i + 1 \in 1 .. n
      /\ \A i \in 1 .. n : i < n \/ i = n
  OBVIOUS
<1>5. ASSUME NEW i \in 1 .. n PROVE Behind(v, i) = Behind(w, i) \cup {c}
  <2>1. Cell(v, i) = Cell(w, i) /\ Cell(w, i) \in F  BY <1>1, <1>3
  <2>2. \A u \in F : v.found[u] >= v.found[Cell(v, i)] <=> w.found[u] >= w.found[Cell(w, i)]
    BY <1>1, <2>1
  <2>3. v.found[c] >= v.found[Cell(v, i)]  BY <1>1, <1>2, <1>3, <2>1
  <2> QED  BY <1>1, <2>2, <2>3 DEF Behind
<1>6. Behind(v, n + 1) = {c}
  <2>1. \A u \in F : ~ (v.found[u] >= v.found[c])  BY <1>1, <1>2, <1>3
  <2> QED  BY <1>1, <1>2, <2>1 DEF Behind
<1>7. ASSUME NEW i \in 1 .. n PROVE Zone(v, i) = Zone(w, i)
  <2>1. Behind(v, i) = Behind(w, i) \cup {c} /\ Behind(w, i) \subseteq F  BY <1>5 DEF Behind
  <2>2. i < n + 1 /\ c \notin Zone(w, i)  BY <1>1, <2>1 DEF Zone
  <2>3. CASE i < n
    <3>1. i + 1 \in 1 .. n /\ Cell(v, i + 1) = Cell(w, i + 1) /\ Cell(w, i + 1) \in F
      BY <1>1, <1>3, <1>4, <2>3
    <3>2. \A u \in F : v.found[u] < v.found[Cell(v, i + 1)] <=> w.found[u] < w.found[Cell(w, i + 1)]
      BY <1>1, <3>1
    <3>3. ~ (v.found[c] < v.found[Cell(v, i + 1)])  BY <1>1, <1>2, <1>3, <3>1
    <3>4. Zone(v, i) = {u \in Behind(v, i) : v.found[u] < v.found[Cell(v, i + 1)]}
      BY <1>1, <2>2 DEF Zone
    <3>5. Zone(w, i) = {u \in Behind(w, i) : w.found[u] < w.found[Cell(w, i + 1)]}
      BY <2>3 DEF Zone
    <3> QED  BY <2>1, <3>2, <3>3, <3>4, <3>5
  <2>4. CASE i = n
    <3>1. Zone(w, i) = Behind(w, i)  BY <2>4 DEF Zone
    <3>2. Zone(v, i) = {u \in Behind(v, i) : v.found[u] < v.found[c]}  BY <1>1, <2>2, <2>4 DEF Zone
    <3>3. \A u \in F : v.found[u] < v.found[c]  BY <1>1, <1>3
    <3>4. ~ (v.found[c] < v.found[c])  BY <1>1, <1>2
    <3> QED  BY <2>1, <3>1, <3>2, <3>3, <3>4
  <2> QED  BY <1>4, <2>3, <2>4
<1>8. Zone(v, n + 1) = {c}  BY <1>1, <1>6 DEF Zone
<1> QED  BY <1>1, <1>2, <1>3, <1>5, <1>6, <1>7, <1>8
\* Only its own path cell is in a zone.
LEMMA ZoneIsOffPath ==
  ASSUME NEW S, NEW r, NEW w, WalkTypes(S, r, w), Ordered(r, w), Depth(w) \in Nat,
         NEW i \in 1 .. Depth(w), NEW u \in Zone(w, i), u # Cell(w, i)
  PROVE  u \in Known(w) /\ ~ OnPath(w, u)
<1> PICK n \in Nat : n = Depth(w)  OBVIOUS
<1>1. /\ u \in Known(w) /\ w.found[u] >= w.found[Cell(w, i)]
      /\ i < n => w.found[u] < w.found[Cell(w, i + 1)]
  BY DEF Zone, Behind
<1>2. \A x \in Known(w) : w.found[x] \in Nat  BY DEF WalkTypes
<1>3. /\ \A k \in 1 .. n : Cell(w, k) \in Known(w)
      /\ \A k, l \in 1 .. n : k < l => w.found[Cell(w, k)] < w.found[Cell(w, l)]
  BY DEF Ordered
<1>4. ASSUME NEW k \in 1 .. n, u = Cell(w, k) PROVE FALSE
  <2>1. k # i  BY <1>4
  <2>2. CASE k < i  BY <1>1, <1>2, <1>3, <1>4, <2>2
  <2>3. CASE k > i
    <3>1. i < n /\ i + 1 \in 1 .. n /\ (i + 1 < k \/ i + 1 = k)  BY <2>3
    <3>2. w.found[u] < w.found[Cell(w, i + 1)]  BY <1>1, <3>1
    <3> QED  BY <1>2, <1>3, <1>4, <3>1, <3>2
  <2> QED  BY <2>1, <2>2, <2>3
<1> QED  BY <1>1, <1>4 DEF OnPath

\* What was seen is known.
LEMMA SeenIsKnown ==
  ASSUME NEW S, NEW r, NEW w, WalkInv(S, r, w), Depth(w) \in Nat, NEW i \in 1 .. Depth(w)
  PROVE  SeenFrom(S, w, i) \subseteq Known(w)
<1> SUFFICES ASSUME NEW y \in SeenFrom(S, w, i) PROVE y \in Known(w)  OBVIOUS
<1>1. PICK u \in Zone(w, i) : /\ y \in NeighborsIn(S, u)
                              /\ u = Cell(w, i) => y \notin Left(w, i)
  BY DEF SeenFrom
<1>2. CASE u = Cell(w, i)  BY <1>1, <1>2 DEF WalkInv, LookedAt
<1>3. CASE u # Cell(w, i)
  <2>1. u \in Known(w) /\ ~ OnPath(w, u)  BY <1>3, ZoneIsOffPath DEF WalkInv
  <2> QED  BY <1>1, <2>1 DEF WalkInv, Settled
<1> QED  BY <1>2, <1>3

\* What a new cell lets be seen.
LEMMA EntersSees ==
  ASSUME NEW S, NEW r, NEW w, NEW v, NEW c, S \subseteq Int \X Int, WalkInv(S, r, w),
         WalkTypes(S, r, v), Enters(S, r, w, v, c), NEW n, n = Depth(w), n \in Nat \ {0}
  PROVE  /\ \A i \in 1 .. n : /\ SeenFrom(S, w, i) \subseteq SeenFrom(S, v, i)
                              /\ SeenFrom(S, v, i) \subseteq SeenFrom(S, w, i) \cup {c}
         /\ \A i \in 1 .. n - 1 : SeenFrom(S, v, i) \subseteq SeenFrom(S, w, i)
         /\ SeenFrom(S, v, n + 1) = {}
<1>1. /\ Known(v) = Known(w) \cup {c}
      /\ \A i \in 1 .. n : Cell(v, i) = Cell(w, i) /\ Cell(w, i) \in Known(w)
      /\ Cell(v, n + 1) = c /\ Zone(v, n + 1) = {c}
      /\ \A i \in 1 .. n : Zone(v, i) = Zone(w, i)
  BY EntersShape DEF WalkInv
<1>2. /\ \A x \in Known(w) : v.parent[x] = w.parent[x]
      /\ Left(v, n + 1) = NeighborsIn(S, c)
      /\ \A i \in 1 .. n - 1 : Left(v, i) = Left(w, i)
      /\ Left(v, n) = Left(w, n) \ {c}
  BY DEF Enters
<1>3. \A i \in 1 .. n : Zone(w, i) \subseteq Known(w)  BY DEF Zone, Behind
<1>4. SeenFrom(S, v, n + 1) = {}  BY <1>1, <1>2 DEF SeenFrom
<1>5. \A i \in 1 .. n - 1 : i \in 1 .. n  OBVIOUS
<1>6. ASSUME NEW i \in 1 .. n - 1 PROVE SeenFrom(S, v, i) = SeenFrom(S, w, i)
  BY <1>1, <1>2, <1>3, <1>5 DEF SeenFrom
<1>7. n \in 1 .. n /\ \A i \in 1 .. n : i = n \/ i \in 1 .. n - 1  OBVIOUS
<1>8. SeenFrom(S, w, n) \subseteq SeenFrom(S, v, n) /\ SeenFrom(S, v, n) \subseteq SeenFrom(S, w, n) \cup {c}
  BY <1>1, <1>2, <1>3, <1>7 DEF SeenFrom
<1> QED  BY <1>4, <1>6, <1>7, <1>8

\* A neighbour of what hangs at a cell hangs there too.
LEMMA HangsMore ==
  ASSUME NEW T, NEW k \in T, HangsAt(T, k), NEW c, NEW x \in T, c \in Around(x)
  PROVE  HangsAt(T \cup {c}, k)
<1> SUFFICES ASSUME NEW X \in SUBSET (T \cup {c}), k \in X, ClosedIn(T \cup {c}, X)
             PROVE  X = T \cup {c}
  BY DEF HangsAt
<1>1. ClosedIn(T, X \cap T)  BY DEF ClosedIn, NeighborsIn
<1>2. X \cap T = T  BY <1>1 DEF HangsAt
<1>3. c \in X  BY <1>2 DEF ClosedIn, NeighborsIn
<1> QED  BY <1>2, <1>3

\* A cell hangs at itself.
LEMMA HangsAlone == ASSUME NEW k PROVE HangsAt({k}, k)
BY DEF HangsAt

\* A new cell keeps the path and what hangs at it.
LEMMA EntersKeepsPath ==
  ASSUME NEW S, NEW r, NEW w, NEW v, NEW c, S \subseteq Int \X Int, WalkInv(S, r, w),
         WalkTypes(S, r, v), Enters(S, r, w, v, c), NEW n, n = Depth(w), n \in Nat \ {0}
  PROVE  Ordered(r, v) /\ Rooted(S, r, v) /\ LookedAt(S, v) /\ Settled(S, v)
<1> PICK F : F = Known(w)  OBVIOUS
<1>1. /\ Depth(v) = n + 1 /\ Known(v) = F \cup {c} /\ c \notin F
      /\ v.found[c] = w.clock /\ w.clock \in Nat
      /\ \A u \in F : v.found[u] = w.found[u] /\ w.found[u] \in Nat /\ w.found[u] < w.clock
      /\ \A i \in 1 .. n : Cell(v, i) = Cell(w, i) /\ Cell(w, i) \in F
      /\ Cell(v, n + 1) = c
      /\ \A i \in 1 .. n : Behind(v, i) = Behind(w, i) \cup {c}
      /\ Behind(v, n + 1) = {c}
  BY EntersShape DEF WalkInv
<1>2. /\ c \in Left(w, n) /\ v.parent[c] = Cell(w, n) /\ v.clock = w.clock + 1
      /\ \A x \in F : v.parent[x] = w.parent[x]
      /\ Left(v, n + 1) = NeighborsIn(S, c)
      /\ \A i \in 1 .. n - 1 : Left(v, i) = Left(w, i)
      /\ Left(v, n) = Left(w, n) \ {c}
  BY DEF Enters
<1>3. \A i \in 1 .. n + 1 : i \in 1 .. n \/ i = n + 1  OBVIOUS
<1>4. n \in 1 .. n /\ 1 \in 1 .. n /\ \A i \in 1 .. n : i = n \/ i \in 1 .. n - 1  OBVIOUS
<1>5. Ordered(r, v)
  <2>1. r \in F /\ (\A u \in F : w.found[r] <= w.found[u])
        /\ (\A u, x \in F : w.found[u] = w.found[x] => u = x)
        /\ (\A i, j \in 1 .. n : i < j => w.found[Cell(w, i)] < w.found[Cell(w, j)])
        /\ Cell(w, 1) = r
    BY DEF WalkInv, Ordered
  <2>2. \A u \in F \cup {c} : v.found[u] < v.clock /\ v.found[r] <= v.found[u]
    BY <1>1, <1>2, <2>1
  <2>3. \A u, x \in F \cup {c} : v.found[u] = v.found[x] => u = x
    BY <1>1, <2>1
  <2>4. \A i \in 1 .. n + 1 : Cell(v, i) \in F \cup {c}  BY <1>1, <1>3
  <2>5. \A i, j \in 1 .. n + 1 : i < j => v.found[Cell(v, i)] < v.found[Cell(v, j)]
    <3> SUFFICES ASSUME NEW i \in 1 .. n + 1, NEW j \in 1 .. n + 1, i < j
                 PROVE  v.found[Cell(v, i)] < v.found[Cell(v, j)]
      OBVIOUS
    <3>1. i \in 1 .. n  OBVIOUS
    <3>2. CASE j = n + 1  BY <1>1, <3>1, <3>2
    <3>3. CASE j \in 1 .. n  BY <1>1, <2>1, <3>1, <3>3
    <3> QED  BY <1>3, <3>2, <3>3
  <2>6. Cell(v, 1) = r  BY <1>1, <1>4, <2>1
  <2> QED  BY <1>1, <2>1, <2>2, <2>3, <2>4, <2>5, <2>6 DEF Ordered
<1>6. Left(w, n) \subseteq NeighborsIn(S, Cell(w, n))  BY <1>4 DEF WalkInv, LookedAt
<1>7. Rooted(S, r, v)
  <2> SUFFICES ASSUME NEW i \in 2 .. n + 1
               PROVE  /\ v.parent[Cell(v, i)] = Cell(v, i - 1)
                      /\ Cell(v, i) \in NeighborsIn(S, Cell(v, i - 1))
    BY <1>1 DEF Rooted
  <2>1. i - 1 \in 1 .. n /\ (i = n + 1 \/ (i \in 2 .. n /\ i \in 1 .. n))  OBVIOUS
  <2>2. CASE i = n + 1
    <3>1. i - 1 = n  BY <2>2
    <3> QED  BY <1>1, <1>2, <1>4, <1>6, <2>2, <3>1
  <2>3. CASE i \in 2 .. n /\ i \in 1 .. n
    <3>1. w.parent[Cell(w, i)] = Cell(w, i - 1) /\ Cell(w, i) \in NeighborsIn(S, Cell(w, i - 1))
      BY <2>3 DEF WalkInv, Rooted
    <3> QED  BY <1>1, <1>2, <2>1, <2>3, <3>1
  <2> QED  BY <2>1, <2>2, <2>3
<1>8. LookedAt(S, v)
  <2> SUFFICES ASSUME NEW i \in 1 .. n + 1
               PROVE  /\ Left(v, i) \subseteq NeighborsIn(S, Cell(v, i))
                      /\ NeighborsIn(S, Cell(v, i)) \subseteq Left(v, i) \cup Known(v)
    BY <1>1 DEF LookedAt
  <2>1. CASE i = n + 1  BY <1>1, <1>2, <2>1
  <2>2. CASE i \in 1 .. n
    <3>1. /\ Left(w, i) \subseteq NeighborsIn(S, Cell(w, i))
          /\ NeighborsIn(S, Cell(w, i)) \subseteq Left(w, i) \cup F
      BY <2>2 DEF WalkInv, LookedAt
    <3>2. Left(v, i) \subseteq Left(w, i) /\ Left(w, i) \subseteq Left(v, i) \cup {c}
      BY <1>2, <1>4, <2>2
    <3> QED  BY <1>1, <2>2, <3>1, <3>2
  <2> QED  BY <1>3, <2>1, <2>2
<1>9. Settled(S, v)
  <2> SUFFICES ASSUME NEW u \in Known(v), ~ OnPath(v, u), NEW y \in NeighborsIn(S, u)
               PROVE  y \in Known(v) /\ \A i \in 1 .. n + 1 : y \in Behind(v, i) => u \in Behind(v, i)
    BY <1>1 DEF Settled
  <2>1. n + 1 \in 1 .. n + 1 /\ \A i \in 1 .. n : i \in 1 .. n + 1  OBVIOUS
  <2>2. u \in F /\ ~ OnPath(w, u)  BY <1>1, <2>1 DEF OnPath
  <2>3. y \in F /\ \A i \in 1 .. n : y \in Behind(w, i) => u \in Behind(w, i)
    BY <2>2 DEF WalkInv, Settled
  <2> QED  BY <1>1, <1>3, <2>3
<1> QED  BY <1>5, <1>7, <1>8, <1>9

\* A new cell keeps the low links: it has seen nothing yet.
LEMMA EntersKeepsLow ==
  ASSUME NEW S, NEW r, NEW w, NEW v, NEW c, S \subseteq Int \X Int, WalkInv(S, r, w),
         WalkTypes(S, r, v), Enters(S, r, w, v, c), NEW n, n = Depth(w), n \in Nat \ {0}
  PROVE  LowIsBelow(S, v) /\ LowIsReached(S, v)
<1> PICK F : F = Known(w)  OBVIOUS
<1>1. /\ Depth(v) = n + 1 /\ Known(v) = F \cup {c} /\ c \notin F
      /\ v.found[c] = w.clock /\ w.clock \in Nat
      /\ \A u \in F : v.found[u] = w.found[u] /\ w.found[u] \in Nat /\ w.found[u] < w.clock
      /\ \A i \in 1 .. n : Cell(v, i) = Cell(w, i) /\ Cell(w, i) \in F
      /\ Cell(v, n + 1) = c
  BY EntersShape DEF WalkInv
<1>2. v.low[c] = w.clock /\ \A x \in F : v.low[x] = w.low[x]  BY DEF Enters
<1>3. /\ \A i \in 1 .. n : /\ SeenFrom(S, w, i) \subseteq SeenFrom(S, v, i)
                           /\ SeenFrom(S, v, i) \subseteq SeenFrom(S, w, i) \cup {c}
      /\ SeenFrom(S, v, n + 1) = {}
  BY EntersSees
<1>4. \A i \in 1 .. n : SeenFrom(S, w, i) \subseteq F  BY SeenIsKnown
<1>5. \A i \in 1 .. n + 1 : i \in 1 .. n \/ i = n + 1  OBVIOUS
<1>6. \A x \in F : w.low[x] \in Nat  BY DEF WalkInv, WalkTypes
<1>7. LowIsBelow(S, v)
  <2> SUFFICES ASSUME NEW i \in 1 .. n + 1
               PROVE  /\ v.low[Cell(v, i)] <= v.found[Cell(v, i)]
                      /\ \A y \in SeenFrom(S, v, i) : v.low[Cell(v, i)] <= v.found[y]
    BY <1>1 DEF LowIsBelow
  <2>1. CASE i = n + 1  BY <1>1, <1>2, <1>3, <2>1
  <2>2. CASE i \in 1 .. n
    <3>1. /\ w.low[Cell(w, i)] <= w.found[Cell(w, i)]
          /\ \A y \in SeenFrom(S, w, i) : w.low[Cell(w, i)] <= w.found[y]
      BY <2>2 DEF WalkInv, LowIsBelow
    <3>2. v.low[Cell(v, i)] = w.low[Cell(w, i)] /\ v.found[Cell(v, i)] = w.found[Cell(w, i)]
      BY <1>1, <1>2, <2>2
    <3>3. w.low[Cell(w, i)] <= w.clock  BY <1>1, <1>6, <2>2, <3>1
    <3>4. ASSUME NEW y \in SeenFrom(S, v, i) PROVE v.low[Cell(v, i)] <= v.found[y]
      <4>1. y \in SeenFrom(S, w, i) \/ y = c  BY <1>3, <2>2
      <4> QED  BY <1>1, <1>4, <2>2, <3>1, <3>2, <3>3, <4>1
    <3> QED  BY <3>1, <3>2, <3>4
  <2> QED  BY <1>5, <2>1, <2>2
<1>8. LowIsReached(S, v)
  <2> SUFFICES ASSUME NEW i \in 1 .. n + 1
               PROVE  \/ v.low[Cell(v, i)] = v.found[Cell(v, i)]
                      \/ \E y \in SeenFrom(S, v, i) : v.found[y] = v.low[Cell(v, i)]
    BY <1>1 DEF LowIsReached
  <2>1. CASE i = n + 1  BY <1>1, <1>2, <2>1
  <2>2. CASE i \in 1 .. n
    <3>1. \/ w.low[Cell(w, i)] = w.found[Cell(w, i)]
          \/ \E y \in SeenFrom(S, w, i) : w.found[y] = w.low[Cell(w, i)]
      BY <2>2 DEF WalkInv, LowIsReached
    <3>2. v.low[Cell(v, i)] = w.low[Cell(w, i)] /\ v.found[Cell(v, i)] = w.found[Cell(w, i)]
      BY <1>1, <1>2, <2>2
    <3>3. \A y \in SeenFrom(S, w, i) : y \in SeenFrom(S, v, i) /\ v.found[y] = w.found[y]
      BY <1>1, <1>3, <1>4, <2>2
    <3> QED  BY <3>1, <3>2, <3>3
  <2> QED  BY <1>5, <2>1, <2>2
<1> QED  BY <1>7, <1>8

\* Before a new cell is entered from it, what was found hangs at each path cell.
LEMMA EntersKeepsCuts ==
  ASSUME NEW S, NEW r, NEW w, NEW v, NEW c, S \subseteq Int \X Int, WalkInv(S, r, w),
         WalkTypes(S, r, v), Enters(S, r, w, v, c), NEW n, n = Depth(w), n \in Nat \ {0}
  PROVE  Hanging(v) /\ CutsSever(S, r, v) /\ OthersHold(S, r, v)
<1> PICK F : F = Known(w)  OBVIOUS
<1>1. /\ Depth(v) = n + 1 /\ Known(v) = F \cup {c} /\ c \notin F
      /\ \A u \in F : w.found[u] \in Nat
      /\ \A i \in 1 .. n : Cell(v, i) = Cell(w, i) /\ Cell(w, i) \in F
      /\ Cell(v, n + 1) = c
      /\ \A i \in 1 .. n : Behind(v, i) = Behind(w, i) \cup {c}
      /\ Behind(v, n + 1) = {c}
  BY EntersShape DEF WalkInv
<1>2. c \in S /\ c \in Left(w, n) /\ v.cuts = w.cuts  BY DEF Enters
<1>3. \A i \in 1 .. n + 1 : i \in 1 .. n \/ i = n + 1  OBVIOUS
<1>4. n \in 1 .. n /\ 1 \in 1 .. n  OBVIOUS
<1>5. /\ r \in F /\ (\A u \in F : w.found[r] <= w.found[u]) /\ Cell(w, 1) = r
      /\ \A i, j \in 1 .. n : i < j => w.found[Cell(w, i)] < w.found[Cell(w, j)]
  BY DEF WalkInv, Ordered
<1> PICK top : top = Cell(w, n)  OBVIOUS
<1>6. c \in NeighborsIn(S, top) /\ c \in Around(top)
  BY <1>2, <1>4 DEF WalkInv, LookedAt, NeighborsIn
<1>7. \A i \in 1 .. n : HangsAt(Behind(w, i), Cell(w, i))  BY DEF WalkInv, Hanging
<1>8. \A i \in 1 .. n : Cell(w, i) \in Behind(w, i) /\ top \in Behind(w, i)
  <2> SUFFICES ASSUME NEW i \in 1 .. n PROVE Cell(w, i) \in Behind(w, i) /\ top \in Behind(w, i)
    OBVIOUS
  <2>1. i < n \/ i = n  OBVIOUS
  <2>2. w.found[top] >= w.found[Cell(w, i)]  BY <1>1, <1>4, <1>5, <2>1
  <2> QED  BY <1>1, <1>4, <2>2 DEF Behind
<1>9. Hanging(v)
  <2> SUFFICES ASSUME NEW i \in 1 .. n + 1 PROVE HangsAt(Behind(v, i), Cell(v, i))
    BY <1>1 DEF Hanging
  <2>1. CASE i = n + 1  BY <1>1, <2>1, HangsAlone
  <2>2. CASE i \in 1 .. n
    <3>1. HangsAt(Behind(w, i) \cup {c}, Cell(w, i))  BY <1>6, <1>7, <1>8, <2>2, HangsMore
    <3> QED  BY <1>1, <2>2, <3>1
  <2> QED  BY <1>3, <2>1, <2>2
<1>10. CutsSever(S, r, v)  BY <1>2 DEF WalkInv, CutsSever
<1>11. F = Behind(w, 1)  BY <1>1, <1>5 DEF Behind
<1>12. ASSUME NEW X \in SUBSET (S \ {c}), r \in X, ClosedIn(S \ {c}, X) PROVE F \subseteq X
  <2>1. F \subseteq S  BY DEF WalkInv, WalkTypes
  <2>2. ClosedIn(F, X \cap F)  BY <1>1, <1>12, <2>1 DEF ClosedIn, NeighborsIn
  <2>3. HangsAt(F, r)  BY <1>4, <1>5, <1>7, <1>11
  <2>4. X \cap F = F  BY <1>5, <1>12, <2>2, <2>3 DEF HangsAt
  <2> QED  BY <2>4
<1>13. OthersHold(S, r, v)
  <2> SUFFICES ASSUME NEW x \in (F \cup {c}) \ w.cuts, x # r,
                      NEW X \in SUBSET (S \ {x}), r \in X, ClosedIn(S \ {x}, X),
                      NEW u \in (F \cup {c}) \ {x}
               PROVE  u \in X \/ \E i \in 1 .. n : x = Cell(v, i) /\ u \in Behind(v, i + 1)
    BY <1>1, <1>2 DEF OthersHold
  <2>1. CASE x = c  BY <1>12, <2>1
  <2>2. CASE x \in F
    <3>1. \A z \in F \ {x} :
            z \in X \/ \E i \in 1 .. n - 1 : x = Cell(w, i) /\ z \in Behind(w, i + 1)
      BY <2>2 DEF WalkInv, OthersHold
    <3>2. \A i \in 1 .. n - 1 : i \in 1 .. n /\ i + 1 \in 1 .. n  OBVIOUS
    <3>3. CASE u \in F
      <4>1. CASE u \in X  BY <4>1
      <4>2. CASE u \notin X
        <5>1. PICK i \in 1 .. n - 1 : x = Cell(w, i) /\ u \in Behind(w, i + 1)  BY <3>1, <3>3, <4>2
        <5> QED  BY <1>1, <3>2, <5>1
      <4> QED  BY <4>1, <4>2
    <3>4. CASE u = c
      <4>1. CASE x = top  BY <1>1, <1>4, <3>4, <4>1
      <4>2. CASE x # top /\ top \in X
        <5>1. c \in NeighborsIn(S \ {x}, top)  BY <1>6, <3>4 DEF NeighborsIn
        <5> QED  BY <3>4, <4>2, <5>1 DEF ClosedIn
      <4>3. CASE x # top /\ top \notin X
        <5>1. top \in F  BY <1>1, <1>4
        <5>2. PICK i \in 1 .. n - 1 : x = Cell(w, i)  BY <3>1, <4>3, <5>1
        <5>3. c \in Behind(v, i + 1)  BY <1>1, <3>2
        <5> QED  BY <1>1, <3>2, <3>4, <5>2, <5>3
      <4> QED  BY <4>1, <4>2, <4>3
    <3> QED  BY <3>3, <3>4
  <2> QED  BY <2>1, <2>2
<1> QED  BY <1>9, <1>10, <1>13

\* A new cell keeps the count of the children of the root.
LEMMA EntersKeepsRoot ==
  ASSUME NEW S, NEW r, NEW w, NEW v, NEW c, S \subseteq Int \X Int, WalkInv(S, r, w),
         WalkTypes(S, r, v), Enters(S, r, w, v, c), NEW n, n = Depth(w), n \in Nat \ {0}
  PROVE  RootCounts(S, r, v)
<1> PICK F : F = Known(w)  OBVIOUS
<1>1. /\ Depth(v) = n + 1 /\ Known(v) = F \cup {c} /\ c \notin F
      /\ \A i \in 1 .. n : Cell(w, i) \in F
      /\ \A i \in 1 .. n : Behind(v, i) = Behind(w, i) \cup {c}
      /\ Behind(v, n + 1) = {c}
  BY EntersShape DEF WalkInv
<1>2. c \in S /\ v.kids = w.kids + (IF Cell(w, n) = r THEN 1 ELSE 0)  BY DEF Enters
<1>3. n \in 1 .. n /\ 1 \in 1 .. n  OBVIOUS
<1>4. /\ r \in F /\ Cell(w, 1) = r
      /\ \A i, j \in 1 .. n : i < j => w.found[Cell(w, i)] < w.found[Cell(w, j)]
      /\ \A u \in F : w.found[u] \in Nat
      /\ w.kids \in Nat /\ F \subseteq S
  BY DEF WalkInv, Ordered, WalkTypes
<1>5. /\ w.kids = 0 => F = {r}
      /\ w.kids >= 1 => F # {r}
      /\ w.kids >= 2 => Severed(S \ {r})
      /\ w.kids = 1 /\ n >= 2 => F \ {r} \subseteq Behind(w, 2)
  BY DEF WalkInv, RootCounts
<1>6. n # 1 => Cell(w, n) # r  BY <1>1, <1>3, <1>4
<1>7. CASE n # 1
  <2>1. v.kids = w.kids  BY <1>2, <1>4, <1>6, <1>7
  <2>2. 2 \in 1 .. n /\ n >= 2  BY <1>7
  <2>3. w.kids # 0
    <3>1. ASSUME w.kids = 0 PROVE FALSE
      <4>1. Cell(w, n) \in F /\ Cell(w, n) # r  BY <1>1, <1>3, <1>6, <1>7
      <4> QED  BY <1>5, <3>1, <4>1
    <3> QED  BY <3>1
  <2>4. F \cup {c} # {r}  BY <1>1, <1>4
  <2>5. v.kids = 1 => (F \cup {c}) \ {r} \subseteq Behind(v, 2)  BY <1>1, <1>5, <2>1, <2>2
  <2> QED  BY <1>1, <1>4, <1>5, <2>1, <2>2, <2>3, <2>4, <2>5 DEF RootCounts
<1>8. CASE n = 1
  <2>1. v.kids = w.kids + 1  BY <1>2, <1>4, <1>8
  <2>2. F \cup {c} # {r}  BY <1>1, <1>4
  <2>3. v.kids = 1 => (F \cup {c}) \ {r} \subseteq Behind(v, 2)
    <3> SUFFICES ASSUME v.kids = 1 PROVE (F \cup {c}) \ {r} \subseteq Behind(v, 2)  OBVIOUS
    <3>1. F = {r}  BY <1>4, <1>5, <2>1
    <3> QED  BY <1>1, <1>8, <3>1
  <2>4. v.kids >= 2 => Severed(S \ {r})
    <3> SUFFICES ASSUME v.kids >= 2 PROVE Severed(S \ {r})  OBVIOUS
    <3>1. F # {r}  BY <1>4, <1>5, <2>1
    <3> PICK X : X = F \ {r}  OBVIOUS
    <3>2. X # {} /\ X \in SUBSET (S \ {r}) /\ c \notin X /\ c \in S \ {r}  BY <1>1, <1>2, <1>4, <3>1
    <3>3. ClosedIn(S \ {r}, X)
      <4> SUFFICES ASSUME NEW u \in X, NEW y \in NeighborsIn(S \ {r}, u) PROVE y \in X
        BY DEF ClosedIn
      <4>1. y \in NeighborsIn(S, u) /\ y # r  BY DEF NeighborsIn
      <4>2. \A i \in 1 .. n : i = 1  BY <1>8
      <4>3. u \in F /\ ~ OnPath(w, u)  BY <1>4, <4>2 DEF OnPath
      <4>4. y \in F  BY <4>1, <4>3 DEF WalkInv, Settled
      <4> QED  BY <4>1, <4>4
    <3> QED  BY <3>2, <3>3 DEF Severed
  <2> QED  BY <1>1, <1>4, <1>8, <2>1, <2>2, <2>3, <2>4 DEF RootCounts
<1> QED  BY <1>7, <1>8

\* So entering a cell keeps the invariant.
LEMMA EntersKeeps ==
  ASSUME NEW S, NEW r, NEW w, NEW v, NEW c, S \subseteq Int \X Int, WalkInv(S, r, w),
         WalkTypes(S, r, v), Enters(S, r, w, v, c), Depth(w) \in Nat \ {0}
  PROVE  WalkInv(S, r, v)
<1> PICK n : n = Depth(w)  OBVIOUS
<1>1. Ordered(r, v) /\ Rooted(S, r, v) /\ LookedAt(S, v) /\ Settled(S, v)  BY EntersKeepsPath
<1>2. LowIsBelow(S, v) /\ LowIsReached(S, v)  BY EntersKeepsLow
<1>3. Hanging(v) /\ CutsSever(S, r, v) /\ OthersHold(S, r, v)  BY EntersKeepsCuts
<1>4. RootCounts(S, r, v)  BY EntersKeepsRoot
<1> QED  BY <1>1, <1>2, <1>3, <1>4 DEF WalkInv

\* A look back changes one low link and nothing of the path.
LEMMA LooksBackShape ==
  ASSUME NEW S, NEW r, NEW w, NEW v, NEW c, S \subseteq Int \X Int, WalkInv(S, r, w),
         LooksBack(w, v, c), NEW n, n = Depth(w), n \in Nat \ {0}
  PROVE  /\ Depth(v) = n /\ Known(v) = Known(w) /\ c \in Known(w)
         /\ \A i \in 1 .. n : Cell(v, i) = Cell(w, i) /\ Cell(w, i) \in Known(w)
         /\ \A i \in 1 .. n : Behind(v, i) = Behind(w, i) /\ Zone(v, i) = Zone(w, i)
<1>1. /\ c \in Left(w, n) /\ c \in Known(w) /\ v.found = w.found /\ v.parent = w.parent
      /\ Depth(v) = n /\ \A i \in 1 .. n : Cell(v, i) = Cell(w, i)
      /\ \A i \in 1 .. n - 1 : Left(v, i) = Left(w, i)
      /\ Left(v, n) = Left(w, n) \ {c}
  BY DEF LooksBack
<1>2. \A i \in 1 .. n : Cell(w, i) \in Known(w)  BY DEF WalkInv, Ordered
<1>3. Known(v) = Known(w)  BY <1>1 DEF Known
<1>4. /\ n \in 1 .. n
      /\ \A i \in 1 .. n : i = n \/ (i \in 1 .. n - 1 /\ i + 1 \in 1 .. n)
      /\ \A i \in 1 .. n - 1 : i \in 1 .. n
  OBVIOUS
<1>5. \A i \in 1 .. n : Behind(v, i) = Behind(w, i)  BY <1>1, <1>3 DEF Behind
<1>6. ASSUME NEW i \in 1 .. n PROVE Zone(v, i) = Zone(w, i)
  BY <1>1, <1>4, <1>5 DEF Zone
<1> QED  BY <1>1, <1>2, <1>3, <1>5, <1>6

\* One edge more is seen from the top, unless it leads back.
SeesBack(S, w, v, c, n) ==
  /\ \A i \in 1 .. n - 1 : SeenFrom(S, v, i) = SeenFrom(S, w, i)
  /\ \A y \in SeenFrom(S, w, n) : y \in SeenFrom(S, v, n)
  /\ \A y \in SeenFrom(S, v, n) :
       y \in SeenFrom(S, w, n) \/ (y = c /\ c # w.parent[Cell(w, n)])
  /\ c # w.parent[Cell(w, n)] => c \in SeenFrom(S, v, n)

\* A look back shows that cell and no other.
LEMMA LooksBackSees ==
  ASSUME NEW S, NEW r, NEW w, NEW v, NEW c, S \subseteq Int \X Int, WalkInv(S, r, w),
         LooksBack(w, v, c), NEW n, n = Depth(w), n \in Nat \ {0}
  PROVE  SeesBack(S, w, v, c, n)
<1>1. /\ c \in Left(w, n) /\ v.parent = w.parent
      /\ \A i \in 1 .. n - 1 : Left(v, i) = Left(w, i)
      /\ Left(v, n) = Left(w, n) \ {c}
  BY DEF LooksBack
<1>2. \A i \in 1 .. n : /\ Cell(v, i) = Cell(w, i) /\ Cell(w, i) \in Known(w)
                         /\ Zone(v, i) = Zone(w, i)
  BY LooksBackShape
<1>4. n \in 1 .. n /\ \A i \in 1 .. n - 1 : i \in 1 .. n
  OBVIOUS
<1>7. \A i \in 1 .. n - 1 : SeenFrom(S, v, i) = SeenFrom(S, w, i)
  BY <1>1, <1>2, <1>4 DEF SeenFrom
<1> PICK top : top = Cell(w, n)  OBVIOUS
<1>8. c \in NeighborsIn(S, top) /\ c \in S
  BY <1>1, <1>4 DEF WalkInv, LookedAt, NeighborsIn
<1>9. top \in Zone(w, n)
  <2>1. w.found[top] \in Nat  BY <1>2, <1>4 DEF WalkInv, WalkTypes
  <2> QED  BY <1>2, <1>4, <2>1 DEF Zone, Behind
<1>10. /\ \A y \in SeenFrom(S, w, n) : y \in SeenFrom(S, v, n)
       /\ \A y \in SeenFrom(S, v, n) :
            y \in SeenFrom(S, w, n) \/ (y = c /\ c # w.parent[top])
  BY <1>1, <1>2, <1>4 DEF SeenFrom
<1>11. c # w.parent[top] => c \in SeenFrom(S, v, n)
  BY <1>1, <1>2, <1>4, <1>8, <1>9 DEF SeenFrom
<1> QED  BY <1>7, <1>10, <1>11 DEF SeesBack

\* The link takes what was seen.
LEMMA LooksBackKeepsLow ==
  ASSUME NEW S, NEW r, NEW w, NEW v, NEW c, S \subseteq Int \X Int, WalkInv(S, r, w),
         LooksBack(w, v, c), NEW n, n = Depth(w), n \in Nat \ {0}
  PROVE  LowIsBelow(S, v) /\ LowIsReached(S, v)
<1>20. SeesBack(S, w, v, c, n)  BY LooksBackSees
<1> PICK F : F = Known(w)  OBVIOUS
<1> PICK top : top = Cell(w, n)  OBVIOUS
<1>0. /\ \A i \in 1 .. n - 1 : SeenFrom(S, v, i) = SeenFrom(S, w, i)
      /\ \A y \in SeenFrom(S, w, n) : y \in SeenFrom(S, v, n)
      /\ \A y \in SeenFrom(S, v, n) : y \in SeenFrom(S, w, n) \/ (y = c /\ c # w.parent[top])
      /\ c # w.parent[top] => c \in SeenFrom(S, v, n)
  BY <1>20 DEF SeesBack
<1>1. /\ Depth(v) = n /\ c \in F
      /\ \A i \in 1 .. n : Cell(v, i) = Cell(w, i) /\ Cell(w, i) \in F
  BY LooksBackShape
<1>2. /\ v.found = w.found
      /\ \A x \in F : v.low[x] = IF x = top /\ c # w.parent[x]
                                 THEN Lesser(w.low[x], w.found[c]) ELSE w.low[x]
  BY DEF LooksBack
<1>3. /\ \A x \in F : w.found[x] \in Nat /\ w.low[x] \in Nat
      /\ \A i, j \in 1 .. n : i < j => w.found[Cell(w, i)] < w.found[Cell(w, j)]
  BY DEF WalkInv, WalkTypes, Ordered
<1>4. n \in 1 .. n /\ \A i \in 1 .. n : i = n \/ i \in 1 .. n - 1  OBVIOUS
<1>5. \A i \in 1 .. n : SeenFrom(S, w, i) \subseteq F  BY SeenIsKnown
<1>6. /\ \A i \in 1 .. n : /\ w.low[Cell(w, i)] <= w.found[Cell(w, i)]
                           /\ \A y \in SeenFrom(S, w, i) : w.low[Cell(w, i)] <= w.found[y]
      /\ \A i \in 1 .. n : \/ w.low[Cell(w, i)] = w.found[Cell(w, i)]
                           \/ \E y \in SeenFrom(S, w, i) : w.found[y] = w.low[Cell(w, i)]
  BY DEF WalkInv, LowIsBelow, LowIsReached
<1>7. ASSUME NEW i \in 1 .. n - 1
      PROVE  /\ v.low[Cell(v, i)] <= v.found[Cell(v, i)]
             /\ \A y \in SeenFrom(S, v, i) : v.low[Cell(v, i)] <= v.found[y]
             /\ \/ v.low[Cell(v, i)] = v.found[Cell(v, i)]
                \/ \E y \in SeenFrom(S, v, i) : v.found[y] = v.low[Cell(v, i)]
  <2>1. i \in 1 .. n /\ i < n  OBVIOUS
  <2>2. Cell(w, i) # top  BY <1>1, <1>3, <1>4, <2>1
  <2>3. v.low[Cell(v, i)] = w.low[Cell(w, i)]  BY <1>1, <1>2, <2>1, <2>2
  <2> QED  BY <1>0, <1>1, <1>2, <1>6, <2>1, <2>3
<1>8. top \in F /\ Cell(v, n) = top  BY <1>1, <1>4
<1>9. /\ v.low[top] <= v.found[top]
      /\ \A y \in SeenFrom(S, v, n) : v.low[top] <= v.found[y]
      /\ \/ v.low[top] = v.found[top]
         \/ \E y \in SeenFrom(S, v, n) : v.found[y] = v.low[top]
  <2>1. /\ w.low[top] <= w.found[top] /\ \A y \in SeenFrom(S, w, n) : w.low[top] <= w.found[y]
        /\ w.low[top] = w.found[top] \/ \E y \in SeenFrom(S, w, n) : w.found[y] = w.low[top]
    BY <1>4, <1>6
  <2>2. CASE c = w.parent[top]
    <3>1. v.low[top] = w.low[top]  BY <1>2, <1>8, <2>2
    <3> QED  BY <1>0, <1>1, <1>2, <2>1, <2>2, <3>1
  <2>3. CASE c # w.parent[top] /\ w.low[top] < w.found[c]
    <3>1. v.low[top] = w.low[top]  BY <1>2, <1>8, <2>3 DEF Lesser
    <3>2. \A y \in SeenFrom(S, v, n) : v.low[top] <= v.found[y]
      BY <1>0, <1>1, <1>2, <1>3, <1>8, <2>1, <2>3, <3>1
    <3> QED  BY <1>0, <1>1, <1>2, <2>1, <3>1, <3>2
  <2>4. CASE c # w.parent[top] /\ ~ (w.low[top] < w.found[c])
    <3>1. v.low[top] = w.found[c]  BY <1>2, <1>8, <2>4 DEF Lesser
    <3>2. w.found[c] <= w.low[top]  BY <1>1, <1>3, <1>8, <2>4
    <3>3. \A y \in SeenFrom(S, w, n) : w.found[c] <= w.found[y]
      BY <1>1, <1>3, <1>4, <1>5, <1>8, <2>1, <3>2
    <3>4. w.found[c] <= w.found[top]  BY <1>1, <1>3, <1>8, <2>1, <3>2
    <3>5. w.found[c] <= w.found[c]  BY <1>1, <1>3
    <3>6. \A y \in SeenFrom(S, v, n) : v.low[top] <= v.found[y]
      BY <1>0, <1>1, <1>2, <3>1, <3>3, <3>5
    <3> QED  BY <1>0, <1>1, <1>2, <2>4, <3>1, <3>4, <3>6
  <2> QED  BY <2>2, <2>3, <2>4
<1> QED  BY <1>1, <1>4, <1>7, <1>8, <1>9 DEF LowIsBelow, LowIsReached

\* So looking back keeps the invariant.
LEMMA LooksBackKeeps ==
  ASSUME NEW S, NEW r, NEW w, NEW v, NEW c, S \subseteq Int \X Int, WalkInv(S, r, w),
         WalkTypes(S, r, v), LooksBack(w, v, c), Depth(w) \in Nat \ {0}
  PROVE  WalkInv(S, r, v)
<1> PICK n : n = Depth(w)  OBVIOUS
<1>20. n \in Nat \ {0}  OBVIOUS
<1>1. /\ Depth(v) = n /\ Known(v) = Known(w) /\ c \in Known(w)
      /\ \A i \in 1 .. n : Cell(v, i) = Cell(w, i)
      /\ \A i \in 1 .. n : Behind(v, i) = Behind(w, i)
  BY <1>20, LooksBackShape
<1>2. /\ v.found = w.found /\ v.parent = w.parent /\ v.kids = w.kids
      /\ v.clock = w.clock /\ v.cuts = w.cuts
      /\ \A i \in 1 .. n - 1 : Left(v, i) = Left(w, i)
      /\ Left(v, n) = Left(w, n) \ {c}
  BY DEF LooksBack
<1>3. /\ 1 \in 1 .. n /\ n \in 1 .. n /\ \A i \in 1 .. n : i = n \/ i \in 1 .. n - 1
      /\ \A i \in 2 .. n : i \in 1 .. n /\ i - 1 \in 1 .. n
      /\ \A i \in 1 .. n - 1 : i \in 1 .. n /\ i + 1 \in 1 .. n
  OBVIOUS
<1>4. Ordered(r, v)
  <2>1. Ordered(r, w)  BY DEF WalkInv
  <2> QED  BY <1>1, <1>2, <1>3, <2>1 DEF Ordered
<1>5. Rooted(S, r, v)  BY <1>1, <1>2, <1>3 DEF WalkInv, Rooted
<1>6. LookedAt(S, v)
  <2>1. \A i \in 1 .. n : /\ Left(w, i) \subseteq NeighborsIn(S, Cell(w, i))
                          /\ NeighborsIn(S, Cell(w, i)) \subseteq Left(w, i) \cup Known(w)
    BY DEF WalkInv, LookedAt
  <2>2. \A i \in 1 .. n : Left(v, i) \subseteq Left(w, i) /\ Left(w, i) \subseteq Left(v, i) \cup {c}
    BY <1>2, <1>3
  <2> QED  BY <1>1, <2>1, <2>2 DEF LookedAt
<1>7. Settled(S, v)
  <2>1. \A u : OnPath(v, u) <=> OnPath(w, u)  BY <1>1 DEF OnPath
  <2> QED  BY <1>1, <2>1 DEF WalkInv, Settled
<1>8. LowIsBelow(S, v) /\ LowIsReached(S, v)  BY LooksBackKeepsLow
<1>9. Hanging(v)  BY <1>1 DEF WalkInv, Hanging
<1>10. CutsSever(S, r, v)  BY <1>2 DEF WalkInv, CutsSever
<1>11. OthersHold(S, r, v)
  <2> SUFFICES ASSUME NEW x \in Known(w) \ w.cuts, x # r,
                      NEW X \in SUBSET (S \ {x}), r \in X, ClosedIn(S \ {x}, X),
                      NEW u \in Known(w) \ {x}, u \notin X
               PROVE  \E i \in 1 .. n - 1 : x = Cell(v, i) /\ u \in Behind(v, i + 1)
    BY <1>1, <1>2 DEF OthersHold
  <2>1. PICK i \in 1 .. n - 1 : x = Cell(w, i) /\ u \in Behind(w, i + 1)
    BY DEF WalkInv, OthersHold
  <2> QED  BY <1>1, <1>3, <2>1
<1>12. RootCounts(S, r, v)
  <2>1. n >= 2 => 2 \in 1 .. n  OBVIOUS
  <2> QED  BY <1>1, <1>2, <2>1 DEF WalkInv, RootCounts
<1> QED  BY <1>4, <1>5, <1>6, <1>7, <1>8, <1>9, <1>10, <1>11, <1>12 DEF WalkInv

\* The top is gone: its caller is on top of what was found behind both.
Falls(w, v, m) ==
  /\ Depth(v) = m /\ Known(v) = Known(w)
  /\ v.found = w.found /\ v.parent = w.parent
  /\ \A i \in 1 .. m : Cell(v, i) = Cell(w, i) /\ Left(v, i) = Left(w, i)
  /\ \A i \in 1 .. m : Behind(v, i) = Behind(w, i)
  /\ \A i \in 1 .. m - 1 : Zone(v, i) = Zone(w, i)
  /\ Zone(v, m) = Zone(w, m) \cup Behind(w, m + 1) /\ Zone(w, m + 1) = Behind(w, m + 1)
  /\ Cell(w, m) \notin Behind(w, m + 1)
  /\ Cell(w, m) \in Known(w) /\ Cell(w, m + 1) \in Known(w)
  /\ w.found[Cell(w, m)] < w.found[Cell(w, m + 1)]
  /\ w.parent[Cell(w, m + 1)] = Cell(w, m) /\ Left(w, m + 1) = {}

\* A return lets the top fall.
LEMMA ReturnsShape ==
  ASSUME NEW S, NEW r, NEW w, NEW v, WalkInv(S, r, w), Returns(r, w, v),
         NEW m \in Nat \ {0}, m + 1 = Depth(w)
  PROVE  Falls(w, v, m)
<1> PICK n : n = Depth(w)  OBVIOUS
<1> PICK F : F = Known(w)  OBVIOUS
<1>0. n = m + 1 /\ n - 1 = m  OBVIOUS
<1>1. /\ Left(w, n) = {} /\ v.found = w.found /\ v.parent = w.parent
      /\ Depth(v) = m
      /\ \A i \in 1 .. m : Cell(v, i) = Cell(w, i) /\ Left(v, i) = Left(w, i)
  BY <1>0 DEF Returns
<1>2. /\ Known(v) = F /\ \A u \in F : w.found[u] \in Nat
      /\ \A i \in 1 .. n : Cell(w, i) \in F
      /\ \A i, j \in 1 .. n : i < j => w.found[Cell(w, i)] < w.found[Cell(w, j)]
      /\ \A i \in 2 .. n : w.parent[Cell(w, i)] = Cell(w, i - 1)
  BY <1>1 DEF Known, WalkInv, WalkTypes, Ordered, Rooted
<1>3. /\ m \in 1 .. m /\ m \in 1 .. n /\ m + 1 \in 1 .. n /\ m + 1 \in 2 .. n /\ (m + 1) - 1 = m
      /\ m < n /\ m < m + 1 /\ ~ (n < n) /\ ~ (m < m)
      /\ \A i \in 1 .. m : i \in 1 .. n /\ i < n
      /\ \A i \in 1 .. m - 1 : i \in 1 .. m /\ i + 1 \in 1 .. m /\ i < m
  BY <1>0
<1>4. \A i \in 1 .. m : Behind(v, i) = Behind(w, i)  BY <1>1, <1>2 DEF Behind
<1>5. \A i \in 1 .. m - 1 : Zone(v, i) = Zone(w, i)
  BY <1>1, <1>3, <1>4 DEF Zone
<1>6. Zone(v, m) = Behind(w, m)  BY <1>1, <1>3, <1>4 DEF Zone
<1>7. Zone(w, m + 1) = Behind(w, m + 1)  BY <1>0, <1>3 DEF Zone
<1>8. w.found[Cell(w, m)] < w.found[Cell(w, m + 1)] /\ Cell(w, m) \in F /\ Cell(w, m + 1) \in F
  BY <1>2, <1>3
<1>9. Behind(w, m) = Zone(w, m) \cup Behind(w, m + 1)
  <2>1. Zone(w, m) = {u \in Behind(w, m) : w.found[u] < w.found[Cell(w, m + 1)]}
    BY <1>0, <1>3 DEF Zone
  <2>2. Behind(w, m) = {u \in F : w.found[u] >= w.found[Cell(w, m)]}
        /\ Behind(w, m + 1) = {u \in F : w.found[u] >= w.found[Cell(w, m + 1)]}
    BY DEF Behind
  <2>3. \A u \in F : w.found[u] < w.found[Cell(w, m + 1)] \/ w.found[u] >= w.found[Cell(w, m + 1)]
    BY <1>2, <1>8
  <2>4. \A u \in F : w.found[u] >= w.found[Cell(w, m + 1)] => w.found[u] >= w.found[Cell(w, m)]
    BY <1>2, <1>8
  <2> QED  BY <2>1, <2>2, <2>3, <2>4
<1>10. Cell(w, m) \notin Behind(w, m + 1)  BY <1>2, <1>8 DEF Behind
<1>11. w.parent[Cell(w, m + 1)] = Cell(w, m)  BY <1>2, <1>3
<1> QED
  BY <1>0, <1>1, <1>2, <1>4, <1>5, <1>6, <1>7, <1>8, <1>9, <1>10, <1>11 DEF Falls

\* The caller now sees what the fallen top saw.
SeesOn(S, w, v, m) ==
  /\ \A i \in 1 .. m - 1 : SeenFrom(S, v, i) = SeenFrom(S, w, i)
  /\ \A y \in SeenFrom(S, w, m) : y \in SeenFrom(S, v, m)
  /\ \A y \in SeenFrom(S, w, m + 1) : y \in SeenFrom(S, v, m)
  /\ \A y \in SeenFrom(S, v, m) :
       y \in SeenFrom(S, w, m) \/ y \in SeenFrom(S, w, m + 1) \/ y = Cell(w, m)

\* That is what a return does to what is seen.
LEMMA ReturnsSees ==
  ASSUME NEW S, NEW w, NEW v, NEW m \in Nat \ {0}, Falls(w, v, m)
  PROVE  SeesOn(S, w, v, m)
<1>1. \A i \in 1 .. m - 1 : i \in 1 .. m  OBVIOUS
<1>2. m \in 1 .. m  OBVIOUS
<1>3. \A i \in 1 .. m - 1 : SeenFrom(S, v, i) = SeenFrom(S, w, i)
  BY <1>1 DEF SeenFrom, Falls
<1>4. /\ Cell(v, m) = Cell(w, m) /\ Left(v, m) = Left(w, m) /\ v.parent = w.parent
      /\ Zone(v, m) = Zone(w, m) \cup Zone(w, m + 1) /\ Cell(w, m) \notin Zone(w, m + 1)
      /\ w.parent[Cell(w, m + 1)] = Cell(w, m) /\ Left(w, m + 1) = {}
  BY <1>2 DEF Falls
<1>5. \A y \in SeenFrom(S, w, m) : y \in SeenFrom(S, v, m)
  BY <1>4 DEF SeenFrom
<1>6. \A y \in SeenFrom(S, w, m + 1) : y \in SeenFrom(S, v, m)
  BY <1>4 DEF SeenFrom
<1>7. ASSUME NEW y \in SeenFrom(S, v, m)
      PROVE  y \in SeenFrom(S, w, m) \/ y \in SeenFrom(S, w, m + 1) \/ y = Cell(w, m)
  <2>1. PICK u \in Zone(v, m) : /\ y \in NeighborsIn(S, u)
                                /\ u = Cell(v, m) => y \notin Left(v, m) /\ y # v.parent[u]
    BY DEF SeenFrom
  <2>2. y \in S  BY DEF SeenFrom
  <2>3. CASE u \in Zone(w, m)  BY <1>4, <2>1, <2>2, <2>3 DEF SeenFrom
  <2>4. CASE u \in Zone(w, m + 1)
    <3>1. CASE y = Cell(w, m)  BY <3>1
    <3>2. CASE y # Cell(w, m)  BY <1>4, <2>1, <2>2, <2>4, <3>2 DEF SeenFrom
    <3> QED  BY <3>1, <3>2
  <2> QED  BY <1>4, <2>1, <2>3, <2>4
<1> QED  BY <1>3, <1>5, <1>6, <1>7 DEF SeesOn

\* The lesser of the two links is the caller's.
LEMMA ReturnsKeepsLow ==
  ASSUME NEW S, NEW r, NEW w, NEW v, WalkInv(S, r, w), Returns(r, w, v),
         NEW m \in Nat \ {0}, m + 1 = Depth(w)
  PROVE  LowIsBelow(S, v) /\ LowIsReached(S, v)
<1> PICK F : F = Known(w)  OBVIOUS
<1> PICK top : top = Cell(w, m + 1)  OBVIOUS
<1> PICK caller : caller = Cell(w, m)  OBVIOUS
<1>0. Falls(w, v, m) /\ SeesOn(S, w, v, m)  BY ReturnsShape, ReturnsSees
<1>1. /\ Depth(v) = m /\ v.found = w.found /\ caller \in F /\ top \in F
      /\ \A i \in 1 .. m : Cell(v, i) = Cell(w, i)
      /\ w.found[caller] < w.found[top]
  BY <1>0 DEF Falls
<1>2. /\ m + 1 \in 1 .. m + 1 /\ m \in 1 .. m /\ \A i \in 1 .. m : i \in 1 .. m + 1
      /\ \A i \in 1 .. m : i = m \/ (i \in 1 .. m - 1 /\ i < m)
      /\ (m + 1) - 1 = m
  OBVIOUS
<1>3. /\ \A x \in F : w.found[x] \in Nat /\ w.low[x] \in Nat
      /\ \A i \in 1 .. m + 1 : Cell(w, i) \in F
      /\ \A i, j \in 1 .. m + 1 : i < j => w.found[Cell(w, i)] < w.found[Cell(w, j)]
  BY DEF WalkInv, WalkTypes, Ordered
<1>4. /\ \A i \in 1 .. m + 1 : /\ w.low[Cell(w, i)] <= w.found[Cell(w, i)]
                               /\ \A y \in SeenFrom(S, w, i) : w.low[Cell(w, i)] <= w.found[y]
      /\ \A i \in 1 .. m + 1 : \/ w.low[Cell(w, i)] = w.found[Cell(w, i)]
                               \/ \E y \in SeenFrom(S, w, i) : w.found[y] = w.low[Cell(w, i)]
  BY DEF WalkInv, LowIsBelow, LowIsReached
<1>5. \A i \in 1 .. m + 1 : \A y \in SeenFrom(S, w, i) : w.found[y] \in Nat
  BY <1>3, SeenIsKnown
<1>6. \A x \in F : v.low[x] = IF x = caller THEN Lesser(w.low[x], w.low[top]) ELSE w.low[x]
  BY <1>2 DEF Returns
<1>7. ASSUME NEW i \in 1 .. m - 1
      PROVE  /\ v.low[Cell(v, i)] <= v.found[Cell(v, i)]
             /\ \A y \in SeenFrom(S, v, i) : v.low[Cell(v, i)] <= v.found[y]
             /\ \/ v.low[Cell(v, i)] = v.found[Cell(v, i)]
                \/ \E y \in SeenFrom(S, v, i) : v.found[y] = v.low[Cell(v, i)]
  <2>1. i \in 1 .. m /\ i \in 1 .. m + 1 /\ i < m  OBVIOUS
  <2>2. Cell(w, i) # caller  BY <1>1, <1>2, <1>3, <2>1
  <2>3. v.low[Cell(v, i)] = w.low[Cell(w, i)]  BY <1>1, <1>3, <1>6, <2>1, <2>2
  <2>4. SeenFrom(S, v, i) = SeenFrom(S, w, i)  BY <1>0 DEF SeesOn
  <2> QED  BY <1>1, <1>4, <2>1, <2>3, <2>4
<1>8. /\ w.low[caller] <= w.found[caller]
      /\ \A y \in SeenFrom(S, w, m) : w.low[caller] <= w.found[y]
      /\ \A y \in SeenFrom(S, w, m + 1) : w.low[top] <= w.found[y]
      /\ w.low[caller] = w.found[caller] \/ \E y \in SeenFrom(S, w, m) : w.found[y] = w.low[caller]
      /\ w.low[top] = w.found[top] \/ \E y \in SeenFrom(S, w, m + 1) : w.found[y] = w.low[top]
  BY <1>2, <1>4
<1>9. /\ v.low[caller] \in Nat /\ v.low[caller] <= w.low[caller] /\ v.low[caller] <= w.low[top]
      /\ \/ v.low[caller] = w.low[caller]
         \/ v.low[caller] = w.low[top]
  BY <1>1, <1>3, <1>6 DEF Lesser
<1>10. v.low[caller] <= v.found[caller]  BY <1>1, <1>3, <1>8, <1>9
<1>11. ASSUME NEW y \in SeenFrom(S, v, m) PROVE v.low[caller] <= v.found[y]
  <2>1. y \in SeenFrom(S, w, m) \/ y \in SeenFrom(S, w, m + 1) \/ y = caller
    BY <1>0 DEF SeesOn
  <2>2. CASE y \in SeenFrom(S, w, m)
    <3>1. w.low[caller] <= w.found[y] /\ w.found[y] \in Nat  BY <1>2, <1>5, <1>8, <2>2
    <3> QED  BY <1>1, <1>3, <1>9, <3>1
  <2>3. CASE y \in SeenFrom(S, w, m + 1)
    <3>1. w.low[top] <= w.found[y] /\ w.found[y] \in Nat  BY <1>2, <1>5, <1>8, <2>3
    <3> QED  BY <1>1, <1>3, <1>9, <3>1
  <2>4. CASE y = caller  BY <1>10, <2>4
  <2> QED  BY <2>1, <2>2, <2>3, <2>4
<1>12. v.low[caller] = v.found[caller] \/ \E y \in SeenFrom(S, v, m) : v.found[y] = v.low[caller]
  <2>1. CASE v.low[caller] = w.low[caller]
    <3>1. \A y \in SeenFrom(S, w, m) : y \in SeenFrom(S, v, m)  BY <1>0 DEF SeesOn
    <3> QED  BY <1>1, <1>8, <2>1, <3>1
  <2>2. CASE v.low[caller] = w.low[top]
    <3>1. w.low[top] # w.found[top]  BY <1>1, <1>3, <1>8, <1>9, <2>2
    <3>2. \A y \in SeenFrom(S, w, m + 1) : y \in SeenFrom(S, v, m)  BY <1>0 DEF SeesOn
    <3> QED  BY <1>1, <1>8, <2>2, <3>1, <3>2
  <2> QED  BY <1>9, <2>1, <2>2
<1>13. Cell(v, m) = caller  BY <1>1, <1>2
<1>14. LowIsBelow(S, v)
  <2> SUFFICES ASSUME NEW i \in 1 .. m
               PROVE  /\ v.low[Cell(v, i)] <= v.found[Cell(v, i)]
                      /\ \A y \in SeenFrom(S, v, i) : v.low[Cell(v, i)] <= v.found[y]
    BY <1>1 DEF LowIsBelow
  <2> QED  BY <1>2, <1>7, <1>10, <1>11, <1>13
<1>15. LowIsReached(S, v)
  <2> SUFFICES ASSUME NEW i \in 1 .. m
               PROVE  \/ v.low[Cell(v, i)] = v.found[Cell(v, i)]
                      \/ \E y \in SeenFrom(S, v, i) : v.found[y] = v.low[Cell(v, i)]
    BY <1>1 DEF LowIsReached
  <2> QED  BY <1>2, <1>7, <1>12, <1>13
<1> QED  BY <1>14, <1>15

\* A closed set that meets cells that hang together holds them all.
LEMMA HangsTogether ==
  ASSUME NEW U, U \subseteq Int \X Int, NEW T, T \subseteq U, NEW k \in T, HangsAt(T, k),
         NEW X \in SUBSET U, ClosedIn(U, X), NEW z \in X \cap T
  PROVE  T \subseteq X
<1>1. ASSUME NEW a \in T, NEW b \in NeighborsIn(T, a)
      PROVE  b \in T /\ b \in NeighborsIn(U, a) /\ a \in NeighborsIn(U, b)
  <2>1. b \in T /\ b \in NeighborsIn(U, a)  BY NeighborsInPart
  <2> QED  BY <2>1, NeighborsMutual
<1>2. ClosedIn(T, T \ X)  BY <1>1 DEF ClosedIn
<1>3. k \in X
  <2>1. ASSUME k \notin X PROVE FALSE
    <3>1. T \ X = T  BY <1>2, <2>1 DEF HangsAt
    <3> QED  BY <3>1
  <2> QED  BY <2>1
<1>4. ClosedIn(T, X \cap T)  BY <1>1 DEF ClosedIn
<1>5. X \cap T = T  BY <1>3, <1>4 DEF HangsAt
<1> QED  BY <1>5

\* A return keeps the path and what hangs at it.
LEMMA ReturnsKeepsPath ==
  ASSUME NEW S, NEW r, NEW w, NEW v, WalkInv(S, r, w), Returns(r, w, v),
         NEW m \in Nat \ {0}, m + 1 = Depth(w)
  PROVE  Ordered(r, v) /\ Rooted(S, r, v) /\ LookedAt(S, v) /\ Settled(S, v)
<1> PICK F : F = Known(w)  OBVIOUS
<1> PICK top : top = Cell(w, m + 1)  OBVIOUS
<1>0. Falls(w, v, m)  BY ReturnsShape
<1>1. /\ Depth(v) = m /\ Known(v) = F /\ v.found = w.found /\ v.parent = w.parent
      /\ \A i \in 1 .. m : Cell(v, i) = Cell(w, i) /\ Left(v, i) = Left(w, i)
      /\ \A i \in 1 .. m : Behind(v, i) = Behind(w, i)
      /\ Left(w, m + 1) = {} /\ top \in F
  BY <1>0 DEF Falls
<1>2. v.clock = w.clock  BY DEF Returns
<1>3. /\ m + 1 \in 1 .. m + 1 /\ 1 \in 1 .. m
      /\ \A i \in 1 .. m : i \in 1 .. m + 1 /\ i < m + 1
      /\ \A i \in 1 .. m + 1 : i = m + 1 \/ i \in 1 .. m
      /\ \A i \in 2 .. m : i \in 2 .. m + 1 /\ i \in 1 .. m /\ i - 1 \in 1 .. m
  OBVIOUS
<1>4. /\ r \in F
      /\ \A u \in F : w.found[u] \in Nat /\ w.found[u] < w.clock /\ w.found[r] <= w.found[u]
      /\ \A u, x \in F : w.found[u] = w.found[x] => u = x
      /\ \A i \in 1 .. m + 1 : Cell(w, i) \in F
      /\ \A i, j \in 1 .. m + 1 : i < j => w.found[Cell(w, i)] < w.found[Cell(w, j)]
      /\ Cell(w, 1) = r
  BY SMTT(40) DEF WalkInv, WalkTypes, Ordered
<1>5. Ordered(r, v)  BY <1>1, <1>2, <1>3, <1>4 DEF Ordered
<1>6. Rooted(S, r, v)
  <2>1. \A i \in 2 .. m + 1 : /\ w.parent[Cell(w, i)] = Cell(w, i - 1)
                              /\ Cell(w, i) \in NeighborsIn(S, Cell(w, i - 1))
    BY DEF WalkInv, Rooted
  <2> QED  BY <1>1, <1>3, <2>1 DEF Rooted
<1>7. \A i \in 1 .. m + 1 : /\ Left(w, i) \subseteq NeighborsIn(S, Cell(w, i))
                            /\ NeighborsIn(S, Cell(w, i)) \subseteq Left(w, i) \cup F
  BY DEF WalkInv, LookedAt
<1>8. LookedAt(S, v)  BY <1>1, <1>3, <1>7 DEF LookedAt
<1>9. Settled(S, v)
  <2> SUFFICES ASSUME NEW u \in F, ~ OnPath(v, u), NEW y \in NeighborsIn(S, u)
               PROVE  y \in F /\ \A i \in 1 .. m : y \in Behind(w, i) => u \in Behind(w, i)
    BY <1>1 DEF Settled
  <2>1. CASE u = top
    <3>1. y \in F  BY <1>1, <1>3, <1>7, <2>1
    <3>2. \A i \in 1 .. m : top \in Behind(w, i)  BY <1>1, <1>3, <1>4 DEF Behind
    <3> QED  BY <2>1, <3>1, <3>2
  <2>2. CASE u # top
    <3>1. ~ OnPath(w, u)  BY <1>1, <1>3, <2>2 DEF OnPath
    <3> QED  BY <1>3, <3>1 DEF WalkInv, Settled
  <2> QED  BY <2>1, <2>2
<1> QED  BY <1>5, <1>6, <1>8, <1>9

\* A caller nobody below reaches above keeps them from the root.
LEMMA ReturnsCuts ==
  ASSUME NEW S, S \subseteq Int \X Int, NEW r, NEW w, NEW v, WalkInv(S, r, w), Returns(r, w, v),
         NEW m \in Nat \ {0}, m + 1 = Depth(w), Cell(w, m) # r,
         w.low[Cell(w, m + 1)] >= w.found[Cell(w, m)]
  PROVE  Severed(S \ {Cell(w, m)})
<1> PICK F : F = Known(w)  OBVIOUS
<1> PICK top : top = Cell(w, m + 1)  OBVIOUS
<1> PICK caller : caller = Cell(w, m)  OBVIOUS
<1> PICK X : X = Behind(w, m + 1)  OBVIOUS
<1>0. Falls(w, v, m)  BY ReturnsShape
<1>1. /\ caller \in F /\ top \in F /\ caller \notin X /\ Zone(w, m + 1) = X
      /\ w.found[caller] < w.found[top] /\ w.parent[top] = caller /\ Left(w, m + 1) = {}
  BY <1>0 DEF Falls
<1>2. m + 1 \in 1 .. m + 1 /\ \A i \in 1 .. m + 1 : i = m + 1 \/ (i \in 1 .. m + 1 /\ i <= m)
  OBVIOUS
<1>3. /\ r \in F /\ F \subseteq S
      /\ \A u \in F : w.found[u] \in Nat /\ w.low[u] \in Nat /\ w.found[r] <= w.found[u]
      /\ \A u, x \in F : w.found[u] = w.found[x] => u = x
      /\ \A i \in 1 .. m + 1 : Cell(w, i) \in F
      /\ \A i, j \in 1 .. m + 1 : i < j => w.found[Cell(w, i)] < w.found[Cell(w, j)]
  BY DEF WalkInv, WalkTypes, Ordered
<1>4. X = {u \in F : w.found[u] >= w.found[top]}  BY DEF Behind
<1>5. ASSUME NEW u \in X, NEW y \in NeighborsIn(S \ {caller}, u) PROVE y \in X
  <2>1. y \in NeighborsIn(S, u) /\ y # caller /\ y \in S /\ u \in S
    BY <1>3, <1>4 DEF NeighborsIn
  <2>2. y \in SeenFrom(S, w, m + 1)  BY <1>1, <2>1 DEF SeenFrom
  <2>3. y \in F  BY <1>2, <2>2, SeenIsKnown
  <2>4. w.found[y] >= w.low[top]  BY <1>1, <1>2, <1>3, <2>2, <2>3 DEF WalkInv, LowIsBelow
  <2>5. w.found[y] > w.found[caller]  BY <1>1, <1>3, <2>1, <2>3, <2>4
  <2>6. CASE OnPath(w, y)
    <3>1. PICK j \in 1 .. m + 1 : y = Cell(w, j)  BY <2>6 DEF OnPath
    <3>2. j = m + 1
      <4>1. ASSUME j <= m PROVE FALSE
        <5>1. j = m \/ j < m  BY <4>1
        <5>2. m \in 1 .. m + 1  OBVIOUS
        <5>3. w.found[y] <= w.found[caller]  BY <1>3, <2>3, <3>1, <5>1, <5>2
        <5> QED  BY <1>1, <1>3, <2>3, <2>5, <5>3
      <4> QED  BY <1>2, <4>1
    <3> QED  BY <1>1, <1>3, <1>4, <3>1, <3>2
  <2>7. CASE ~ OnPath(w, y)
    <3>1. u \in NeighborsIn(S, y)  BY <2>1, NeighborsMutual
    <3>2. u \in Behind(w, m + 1) => y \in Behind(w, m + 1)
      BY <1>2, <2>3, <2>7, <3>1 DEF WalkInv, Settled
    <3> QED  BY <3>2
  <2> QED  BY <2>6, <2>7
<1>6. ClosedIn(S \ {caller}, X)  BY <1>5 DEF ClosedIn
<1>7. X \in SUBSET (S \ {caller}) /\ top \in X /\ r \in S \ {caller} /\ r \notin X
  BY <1>1, <1>3, <1>4
<1> QED  BY <1>6, <1>7 DEF Severed

\* A caller some cell below reaches above does not.
LEMMA ReturnsHolds ==
  ASSUME NEW S, S \subseteq Int \X Int, NEW r, NEW w, NEW v, WalkInv(S, r, w), Returns(r, w, v),
         NEW m \in Nat \ {0}, m + 1 = Depth(w), NEW x, x = Cell(w, m), x # r, x \notin v.cuts,
         NEW X \in SUBSET (S \ {x}), r \in X, ClosedIn(S \ {x}, X)
  PROVE  Behind(w, m + 1) \subseteq X
<1> PICK F : F = Known(w)  OBVIOUS
<1> PICK top : top = Cell(w, m + 1)  OBVIOUS
<1> PICK D : D = Behind(w, m + 1)  OBVIOUS
<1>0. Falls(w, v, m)  BY ReturnsShape
<1>1. /\ x \in F /\ top \in F /\ x \notin D /\ Zone(w, m + 1) = D
      /\ w.found[x] < w.found[top]
  BY <1>0 DEF Falls
<1>2. m + 1 \in 1 .. m + 1 /\ (m + 1) - 1 = m /\ m \in 1 .. m + 1
      /\ \A i \in 1 .. m : i = m \/ (i \in 1 .. m + 1 /\ i < m)
  OBVIOUS
<1>3. /\ F \subseteq S
      /\ \A u \in F : w.found[u] \in Nat /\ w.low[u] \in Nat
      /\ \A i, j \in 1 .. m + 1 : i < j => w.found[Cell(w, i)] < w.found[Cell(w, j)]
      /\ \A i \in 1 .. m + 1 : Cell(w, i) \in F
  BY DEF WalkInv, WalkTypes, Ordered
<1>4. D = {u \in F : w.found[u] >= w.found[top]}  BY DEF Behind
<1>5. w.low[top] < w.found[x] /\ x \notin w.cuts
  <2>1. v.cuts = w.cuts \cup (IF x # r /\ w.low[top] >= w.found[x] THEN {x} ELSE {})
    BY <1>2 DEF Returns
  <2> QED  BY <1>1, <1>3, <2>1
<1>6. PICK y \in SeenFrom(S, w, m + 1) : w.found[y] = w.low[top]
  <2>1. w.low[top] # w.found[top]  BY <1>1, <1>3, <1>5
  <2> QED  BY <1>2, <2>1 DEF WalkInv, LowIsReached
<1>7. y \in F /\ y # x /\ y \notin D
  <2>1. y \in F  BY <1>2, <1>6, SeenIsKnown
  <2> QED  BY <1>1, <1>3, <1>4, <1>5, <1>6, <2>1
<1>8. PICK z \in D : y \in NeighborsIn(S, z)  BY <1>1 DEF SeenFrom
<1>9. y \in X
  <2>1. y \in X \/ \E i \in 1 .. m : x = Cell(w, i) /\ y \in Behind(w, i + 1)
    BY <1>1, <1>2, <1>5, <1>7 DEF WalkInv, OthersHold
  <2>2. ASSUME NEW i \in 1 .. m, x = Cell(w, i), y \in Behind(w, i + 1) PROVE FALSE
    <3>1. i = m
      <4>1. ASSUME i < m PROVE FALSE
        <5>1. i \in 1 .. m + 1  BY <1>2
        <5>2. w.found[Cell(w, i)] < w.found[Cell(w, m)]  BY <1>2, <1>3, <4>1, <5>1
        <5>3. w.found[x] < w.found[x] /\ w.found[x] \in Nat  BY <1>1, <1>3, <2>2, <5>2
        <5> QED  BY <5>3
      <4> QED  BY <1>2, <4>1
    <3> QED  BY <1>7, <2>2, <3>1
  <2> QED  BY <2>1, <2>2
<1>10. z \in X
  <2>1. z \in S /\ z # x  BY <1>1, <1>3, <1>4
  <2>2. z \in NeighborsIn(S, y)  BY <1>8, <2>1, NeighborsMutual
  <2>3. z \in NeighborsIn(S \ {x}, y)  BY <2>1, <2>2 DEF NeighborsIn
  <2> QED  BY <1>9, <2>3 DEF ClosedIn
<1>11. D \subseteq S \ {x} /\ top \in D /\ HangsAt(D, top)
  BY <1>1, <1>2, <1>3, <1>4 DEF WalkInv, Hanging
<1>12. S \ {x} \subseteq Int \X Int  OBVIOUS
<1> QED  BY <1>10, <1>11, <1>12, HangsTogether

\* So returning keeps the invariant.
LEMMA ReturnsKeeps ==
  ASSUME NEW S, S \subseteq Int \X Int, NEW r, NEW w, NEW v, WalkInv(S, r, w),
         WalkTypes(S, r, v), Returns(r, w, v), NEW m \in Nat \ {0}, m + 1 = Depth(w)
  PROVE  WalkInv(S, r, v)
<1> PICK F : F = Known(w)  OBVIOUS
<1>0. Falls(w, v, m)  BY ReturnsShape
<1>1. /\ Depth(v) = m /\ Known(v) = F /\ Cell(w, m + 1) \in F
      /\ \A i \in 1 .. m : Cell(v, i) = Cell(w, i)
      /\ \A i \in 1 .. m : Behind(v, i) = Behind(w, i)
      /\ Cell(w, m) \notin Behind(w, m + 1)
      /\ w.found[Cell(w, m)] < w.found[Cell(w, m + 1)]
  BY <1>0 DEF Falls
<1>2. /\ \A i \in 1 .. m : i \in 1 .. m + 1 /\ (i = m \/ i \in 1 .. m - 1)
      /\ \A i \in 1 .. m - 1 : i \in 1 .. m /\ i + 1 \in 1 .. m
      /\ m + 1 \in 1 .. m + 1 /\ (m + 1) - 1 = m /\ m \in 1 .. m
  OBVIOUS
<1>3. /\ v.kids = w.kids
      /\ v.cuts = w.cuts \cup
           (IF Cell(w, m) # r /\ w.low[Cell(w, m + 1)] >= w.found[Cell(w, m)]
            THEN {Cell(w, m)} ELSE {})
  BY <1>2 DEF Returns
<1>4. Ordered(r, v) /\ Rooted(S, r, v) /\ LookedAt(S, v) /\ Settled(S, v)  BY ReturnsKeepsPath
<1>5. LowIsBelow(S, v) /\ LowIsReached(S, v)  BY ReturnsKeepsLow
<1>6. Hanging(v)  BY <1>1, <1>2 DEF WalkInv, Hanging
<1>7. CutsSever(S, r, v)
  <2> SUFFICES ASSUME NEW c \in v.cuts PROVE c # r /\ Severed(S \ {c})
    BY DEF CutsSever
  <2>1. CASE c \in w.cuts  BY <2>1 DEF WalkInv, CutsSever
  <2>2. CASE c \notin w.cuts
    <3>1. c = Cell(w, m) /\ c # r /\ w.low[Cell(w, m + 1)] >= w.found[Cell(w, m)]
      BY <1>3, <2>2
    <3> QED  BY <3>1, ReturnsCuts
  <2> QED  BY <2>1, <2>2
<1>8. OthersHold(S, r, v)
  <2> SUFFICES ASSUME NEW x \in F \ v.cuts, x # r,
                      NEW X \in SUBSET (S \ {x}), r \in X, ClosedIn(S \ {x}, X),
                      NEW u \in F \ {x}, u \notin X
               PROVE  \E i \in 1 .. m - 1 : x = Cell(v, i) /\ u \in Behind(v, i + 1)
    BY <1>1 DEF OthersHold
  <2>1. x \notin w.cuts  BY <1>3
  <2>2. PICK i \in 1 .. m : x = Cell(w, i) /\ u \in Behind(w, i + 1)
    BY <1>2, <2>1 DEF WalkInv, OthersHold
  <2>3. i # m
    <3>1. ASSUME i = m PROVE FALSE
      <4>1. x = Cell(w, m) /\ u \in Behind(w, m + 1)  BY <2>2, <3>1
      <4>2. Behind(w, m + 1) \subseteq X  BY <4>1, ReturnsHolds
      <4> QED  BY <4>1, <4>2
    <3> QED  BY <3>1
  <2> QED  BY <1>1, <1>2, <2>2, <2>3
<1>9. RootCounts(S, r, v)
  <2>1. /\ w.kids = 0 => F = {r}
        /\ w.kids >= 1 => F # {r}
        /\ w.kids >= 2 => Severed(S \ {r})
        /\ w.kids = 1 => F \ {r} \subseteq Behind(w, 2)
    BY DEF WalkInv, RootCounts
  <2>2. m >= 2 => 2 \in 1 .. m  OBVIOUS
  <2>3. ASSUME w.kids = 1, m <= 1 PROVE \E k \in F \ {r} : HangsAt(F \ {r}, k)
    <3>1. m = 1 /\ m + 1 = 2  BY <2>3
    <3>2. Cell(w, 1) = r  BY <3>1 DEF WalkInv, Ordered
    <3>3. Behind(w, 2) \subseteq F \ {r}  BY <1>1, <3>1, <3>2 DEF Behind
    <3>4. F \ {r} = Behind(w, 2)  BY <2>1, <2>3, <3>3
    <3>5. HangsAt(Behind(w, 2), Cell(w, 2))  BY <1>2, <3>1 DEF WalkInv, Hanging
    <3>6. Cell(w, 2) # r
      <4>1. \A x \in F : w.found[x] \in Nat  BY DEF WalkInv, WalkTypes
      <4> QED  BY <1>1, <3>1, <3>2, <4>1
    <3> QED  BY <1>1, <3>1, <3>4, <3>5, <3>6
  <2> QED  BY <1>1, <1>3, <2>1, <2>2, <2>3 DEF RootCounts
<1> QED  BY <1>4, <1>5, <1>6, <1>7, <1>8, <1>9 DEF WalkInv

\* Every visit looks along one more edge or leaves one more cell.
Marks(S) == {p \in S \X S : p[2] = p[1] \/ p[2] \in NeighborsIn(S, p[1])}
Marked(S, w) ==
  {p \in Marks(S) :
     /\ p[1] \in Known(w)
     /\ p[2] = p[1] => ~ OnPath(w, p[1])
     /\ p[2] # p[1] => \A i \in 1 .. Depth(w) : p[1] = Cell(w, i) => p[2] \notin Left(w, i)}
Progress(S, w, v) ==
  Marked(S, w) \subseteq Marked(S, v) /\ \E p \in Marked(S, v) : p \notin Marked(S, w)

\* A cell is on the path once.
LEMMA PathIsOnce ==
  ASSUME NEW S, NEW r, NEW w, WalkInv(S, r, w), Depth(w) \in Nat,
         NEW i \in 1 .. Depth(w), NEW j \in 1 .. Depth(w), Cell(w, i) = Cell(w, j)
  PROVE  i = j
<1>1. /\ \A x \in Known(w) : w.found[x] \in Nat
      /\ \A k \in 1 .. Depth(w) : Cell(w, k) \in Known(w)
      /\ \A k, l \in 1 .. Depth(w) : k < l => w.found[Cell(w, k)] < w.found[Cell(w, l)]
  BY DEF WalkInv, WalkTypes, Ordered
<1>2. ~ (i < j) /\ ~ (j < i)  BY <1>1
<1> QED  BY <1>2

\* Entering looks along one more edge.
LEMMA EntersMarks ==
  ASSUME NEW S, S \subseteq Int \X Int, NEW r, NEW w, NEW v, NEW c, WalkInv(S, r, w),
         Enters(S, r, w, v, c), NEW n \in Nat \ {0}, n = Depth(w)
  PROVE  Progress(S, w, v)
<1> PICK top : top = Cell(w, n)  OBVIOUS
<1>1. /\ c \in S /\ c \in Left(w, n) /\ c \notin Known(w) /\ Known(v) = Known(w) \cup {c}
      /\ Depth(v) = n + 1 /\ Cell(v, n + 1) = c
      /\ \A i \in 1 .. n : Cell(v, i) = Cell(w, i)
      /\ \A i \in 1 .. n - 1 : Left(v, i) = Left(w, i)
      /\ Left(v, n) = Left(w, n) \ {c}
  BY DEF Enters
<1>2. /\ n \in 1 .. n /\ \A i \in 1 .. n : i = n \/ i \in 1 .. n - 1
      /\ \A i \in 1 .. n + 1 : i \in 1 .. n \/ i = n + 1
      /\ \A i \in 1 .. n : i \in 1 .. n + 1
  OBVIOUS
<1>3. top \in Known(w) /\ top \in S /\ c \in NeighborsIn(S, top) /\ top # c
  BY <1>1, <1>2 DEF WalkInv, WalkTypes, Ordered, LookedAt
<1> PICK p : p = <<top, c>>  OBVIOUS
<1>4. p \in Marks(S) /\ p \notin Marked(S, w)  BY <1>1, <1>2, <1>3 DEF Marks, Marked
<1>5. ASSUME NEW i \in 1 .. n + 1, top = Cell(v, i) PROVE c \notin Left(v, i)
  <2>1. i \in 1 .. n /\ Cell(w, i) = Cell(w, n)  BY <1>1, <1>2, <1>3, <1>5
  <2>2. i = n  BY <1>2, <2>1, PathIsOnce
  <2> QED  BY <1>1, <2>2
<1>6. p \in Marked(S, v)  BY <1>1, <1>3, <1>4, <1>5 DEF Marked
<1>7. ASSUME NEW q \in Marked(S, w) PROVE q \in Marked(S, v)
  <2>1. /\ q \in Marks(S) /\ q[1] \in Known(w)
        /\ q[2] = q[1] => ~ OnPath(w, q[1])
        /\ q[2] # q[1] => \A i \in 1 .. n : q[1] = Cell(w, i) => q[2] \notin Left(w, i)
    BY DEF Marked
  <2>2. q[2] = q[1] => ~ OnPath(v, q[1])  BY <1>1, <1>2, <2>1 DEF OnPath
  <2>3. \A i \in 1 .. n : Left(v, i) \subseteq Left(w, i)  BY <1>1, <1>2
  <2>4. q[2] # q[1] => \A i \in 1 .. n + 1 : q[1] = Cell(v, i) => q[2] \notin Left(v, i)
    BY <1>1, <1>2, <2>1, <2>3
  <2> QED  BY <1>1, <2>1, <2>2, <2>4 DEF Marked
<1> QED  BY <1>4, <1>6, <1>7 DEF Progress

\* Looking back does, too.
LEMMA LooksBackMarks ==
  ASSUME NEW S, S \subseteq Int \X Int, NEW r, NEW w, NEW v, NEW c, WalkInv(S, r, w),
         LooksBack(w, v, c), NEW n \in Nat \ {0}, n = Depth(w)
  PROVE  Progress(S, w, v)
<1> PICK top : top = Cell(w, n)  OBVIOUS
<1>0. c \in Known(w) /\ c \in Left(w, n) /\ v.found = w.found  BY DEF LooksBack
<1>1. /\ c \in S /\ Known(v) = Known(w) /\ Depth(v) = n
      /\ \A i \in 1 .. n : Cell(v, i) = Cell(w, i)
      /\ \A i \in 1 .. n - 1 : Left(v, i) = Left(w, i)
      /\ Left(v, n) = Left(w, n) \ {c}
  BY <1>0 DEF LooksBack, Known, WalkInv, WalkTypes
<1>2. n \in 1 .. n /\ \A i \in 1 .. n : i = n \/ i \in 1 .. n - 1
  OBVIOUS
<1>3. top \in Known(w) /\ top \in S /\ c \in NeighborsIn(S, top)
  BY <1>0, <1>2 DEF WalkInv, WalkTypes, Ordered, LookedAt
<1>31. top # c  BY <1>3, NeighborsMutual
<1> PICK p : p = <<top, c>>  OBVIOUS
<1>4. p \in Marks(S) /\ p \notin Marked(S, w)  BY <1>0, <1>1, <1>2, <1>3, <1>31 DEF Marks, Marked
<1>5. ASSUME NEW i \in 1 .. n, top = Cell(v, i) PROVE c \notin Left(v, i)
  <2>1. Cell(w, i) = Cell(w, n)  BY <1>1, <1>2, <1>5
  <2>2. i = n  BY <1>2, <2>1, PathIsOnce
  <2> QED  BY <1>1, <2>2
<1>6. p \in Marked(S, v)  BY <1>1, <1>3, <1>31, <1>4, <1>5 DEF Marked
<1>7. ASSUME NEW q \in Marked(S, w) PROVE q \in Marked(S, v)
  <2>1. /\ q \in Marks(S) /\ q[1] \in Known(w)
        /\ q[2] = q[1] => ~ OnPath(w, q[1])
        /\ q[2] # q[1] => \A i \in 1 .. n : q[1] = Cell(w, i) => q[2] \notin Left(w, i)
    BY DEF Marked
  <2>2. q[2] = q[1] => ~ OnPath(v, q[1])  BY <1>1, <1>2, <2>1 DEF OnPath
  <2>3. \A i \in 1 .. n : Left(v, i) \subseteq Left(w, i)  BY <1>1, <1>2
  <2>4. q[2] # q[1] => \A i \in 1 .. n : q[1] = Cell(v, i) => q[2] \notin Left(v, i)
    BY <1>1, <1>2, <2>1, <2>3
  <2> QED  BY <1>1, <2>1, <2>2, <2>4 DEF Marked
<1> QED  BY <1>4, <1>6, <1>7 DEF Progress

\* A top left behind, by a return or by the end.
LEMMA LeavingMarks ==
  ASSUME NEW S, S \subseteq Int \X Int, NEW r, NEW w, NEW v, WalkInv(S, r, w),
         NEW m \in Nat, m + 1 = Depth(w), Depth(v) = m, Known(v) = Known(w),
         \A i \in 1 .. m : Cell(v, i) = Cell(w, i) /\ Left(v, i) = Left(w, i)
  PROVE  Progress(S, w, v)
<1> PICK top : top = Cell(w, m + 1)  OBVIOUS
<1>1. m + 1 \in 1 .. m + 1 /\ \A i \in 1 .. m : i \in 1 .. m + 1 /\ i # m + 1
  OBVIOUS
<1>2. top \in Known(w) /\ top \in S  BY <1>1 DEF WalkInv, WalkTypes, Ordered
<1> PICK p : p = <<top, top>>  OBVIOUS
<1>3. p \in Marks(S) /\ p \notin Marked(S, w)
  <2>1. OnPath(w, top)  BY <1>1 DEF OnPath
  <2> QED  BY <1>2, <2>1 DEF Marks, Marked
<1>4. ~ OnPath(v, top)
  <2>1. ASSUME NEW i \in 1 .. m, top = Cell(v, i) PROVE FALSE
    <3>1. i \in 1 .. m + 1 /\ i # m + 1 /\ Cell(w, i) = Cell(w, m + 1)  BY <1>1, <2>1
    <3> QED  BY <1>1, <3>1, PathIsOnce
  <2> QED  BY <2>1 DEF OnPath
<1>5. p \in Marked(S, v)  BY <1>2, <1>3, <1>4 DEF Marked
<1>6. ASSUME NEW q \in Marked(S, w) PROVE q \in Marked(S, v)
  <2>1. /\ q \in Marks(S) /\ q[1] \in Known(w)
        /\ q[2] = q[1] => ~ OnPath(w, q[1])
        /\ q[2] # q[1] => \A i \in 1 .. m + 1 : q[1] = Cell(w, i) => q[2] \notin Left(w, i)
    BY DEF Marked
  <2>2. q[2] = q[1] => ~ OnPath(v, q[1])  BY <1>1, <2>1 DEF OnPath
  <2>3. q[2] # q[1] => \A i \in 1 .. m : q[1] = Cell(v, i) => q[2] \notin Left(v, i)
    BY <1>1, <2>1
  <2> QED  BY <2>1, <2>2, <2>3 DEF Marked
<1> QED  BY <1>3, <1>5, <1>6 DEF Progress

\* The end of the walk keeps the invariant.
LEMMA EndsKeeps ==
  ASSUME NEW S, NEW r, NEW w, NEW v, WalkInv(S, r, w), WalkTypes(S, r, v), Ends(w, v)
  PROVE  WalkInv(S, r, v)
<1>1. /\ Depth(w) = 1 /\ Left(w, 1) = {} /\ Depth(v) = 0
      /\ v.found = w.found /\ v.kids = w.kids /\ v.cuts = w.cuts /\ v.clock = w.clock
      /\ Known(v) = Known(w)
  BY DEF Ends, Known
<1>2. 1 .. 0 = {} /\ 2 .. 0 = {} /\ 1 .. 0 - 1 = {} /\ 1 .. 1 - 1 = {} /\ 1 .. 1 = {1}
  OBVIOUS
<1>3. Ordered(r, v)  BY <1>1, <1>2 DEF WalkInv, Ordered
<1>4. Rooted(S, r, v) /\ LookedAt(S, v) /\ LowIsBelow(S, v) /\ LowIsReached(S, v) /\ Hanging(v)
  BY <1>1, <1>2 DEF Rooted, LookedAt, LowIsBelow, LowIsReached, Hanging
<1>5. Settled(S, v)
  <2> SUFFICES ASSUME NEW u \in Known(w), NEW y \in NeighborsIn(S, u) PROVE y \in Known(w)
    BY <1>1, <1>2 DEF Settled
  <2>1. CASE u = Cell(w, 1)  BY <1>1, <1>2, <2>1 DEF WalkInv, LookedAt
  <2>2. CASE u # Cell(w, 1)
    <3>1. ~ OnPath(w, u)  BY <1>1, <1>2, <2>2 DEF OnPath
    <3> QED  BY <3>1 DEF WalkInv, Settled
  <2> QED  BY <2>1, <2>2
<1>6. CutsSever(S, r, v)  BY <1>1 DEF WalkInv, CutsSever
<1>7. OthersHold(S, r, v)
  <2>1. OthersHold(S, r, w)  BY DEF WalkInv
  <2> QED  BY <1>1, <1>2, <2>1 DEF OthersHold
<1>8. RootCounts(S, r, v)  BY <1>1 DEF WalkInv, RootCounts
<1> QED  BY <1>3, <1>4, <1>5, <1>6, <1>7, <1>8 DEF WalkInv

\* The stack is empty at depth zero only.
LEMMA DepthIs ==
  ASSUME NEW S, NEW r, NEW w, WalkTypes(S, r, w)
  PROVE  Depth(w) \in Nat /\ (w.stack = << >> <=> Depth(w) = 0)
<1> PICK s : s = w.stack  OBVIOUS
<1>1. s \in Seq(Frames(S))  BY DEF WalkTypes
<1>2. Len(s) \in Nat /\ (s = << >> <=> Len(s) = 0)  BY <1>1
<1> QED  BY <1>2 DEF Depth

\* Every visit keeps the invariant, and makes progress until the stack is empty.
LEMMA VisitKeeps ==
  ASSUME NEW S, IsFiniteSet(S), S \subseteq Int \X Int, NEW r, NEW w, WalkInv(S, r, w)
  PROVE  /\ WalkInv(S, r, Visit(S, w))
         /\ w.stack = << >> => Visit(S, w) = w
         /\ w.stack # << >> => Progress(S, w, Visit(S, w))
<1> PICK v : v = Visit(S, w)  OBVIOUS
<1> PICK n : n = Depth(w)  OBVIOUS
<1>0. WalkTypes(S, r, w)  BY DEF WalkInv
<1>1. n \in Nat /\ (w.stack = << >> <=> n = 0)  BY <1>0, DepthIs
<1>2. CASE w.stack = << >>  BY <1>2 DEF Visit
<1>3. CASE w.stack # << >> /\ Top(w).ahead # << >> /\ Head(Top(w).ahead) \notin Known(w)
  <2>1. WalkTypes(S, r, v) /\ Enters(S, r, w, v, Head(Top(w).ahead))  BY <1>0, <1>3, EntersIs
  <2>2. n \in Nat \ {0}  BY <1>1, <1>3
  <2>3. WalkInv(S, r, v)  BY <2>1, <2>2, EntersKeeps
  <2>4. Progress(S, w, v)  BY <2>1, <2>2, EntersMarks
  <2> QED  BY <1>3, <2>3, <2>4
<1>4. CASE w.stack # << >> /\ Top(w).ahead # << >> /\ Head(Top(w).ahead) \in Known(w)
  <2>1. n \in Nat \ {0} /\ n \in 1 .. n  BY <1>1, <1>4
  <2>2. Cell(w, n) \in Known(w)  BY <2>1 DEF WalkInv, Ordered
  <2>3. WalkTypes(S, r, v) /\ LooksBack(w, v, Head(Top(w).ahead))
    BY <1>0, <1>4, <2>2, LooksBackIs
  <2>4. WalkInv(S, r, v)  BY <2>1, <2>3, LooksBackKeeps
  <2>5. Progress(S, w, v)  BY <2>1, <2>3, LooksBackMarks
  <2> QED  BY <1>4, <2>4, <2>5
<1>5. CASE w.stack # << >> /\ Top(w).ahead = << >> /\ n >= 2
  <2> PICK m : m = n - 1  OBVIOUS
  <2>1. m \in Nat \ {0} /\ m + 1 = n /\ n \in 1 .. n /\ n - 1 \in 1 .. n  BY <1>1, <1>5
  <2>2. Cell(w, n) \in Known(w) /\ Cell(w, n - 1) \in Known(w)  BY <2>1 DEF WalkInv, Ordered
  <2>3. WalkTypes(S, r, v) /\ Returns(r, w, v)  BY <1>0, <1>5, <2>2, ReturnsIs
  <2>4. WalkInv(S, r, v)  BY <2>1, <2>3, ReturnsKeeps
  <2>5. /\ Depth(v) = m /\ Known(v) = Known(w)
        /\ \A i \in 1 .. m : Cell(v, i) = Cell(w, i) /\ Left(v, i) = Left(w, i)
    BY <2>3 DEF Returns, Known
  <2>6. Progress(S, w, v)  BY <2>1, <2>5, LeavingMarks
  <2> QED  BY <1>5, <2>4, <2>6
<1>6. CASE w.stack # << >> /\ Top(w).ahead = << >> /\ n = 1
  <2>1. WalkTypes(S, r, v) /\ Ends(w, v)  BY <1>0, <1>6, EndsIs
  <2>2. WalkInv(S, r, v)  BY <2>1, EndsKeeps
  <2>3. 0 + 1 = Depth(w) /\ 0 \in Nat /\ 1 .. 0 = {}  BY <1>6
  <2>4. Depth(v) = 0 /\ Known(v) = Known(w)  BY <2>1 DEF Ends, Known
  <2>5. Progress(S, w, v)  BY <2>3, <2>4, LeavingMarks
  <2> QED  BY <1>6, <2>2, <2>5
<1>7. n = 0 \/ n = 1 \/ n >= 2  BY <1>1
<1> QED  BY <1>1, <1>2, <1>3, <1>4, <1>5, <1>6, <1>7

\* There are at most five marks a cell: its four edges and the leaving.
LEMMA MarksAreFew ==
  ASSUME NEW S, IsFiniteSet(S), S \subseteq Int \X Int
  PROVE  /\ IsFiniteSet(Marks(S)) /\ Cardinality(Marks(S)) \in Nat /\ VisitBound(S) \in Nat
         /\ Cardinality(Marks(S)) <= VisitBound(S)
<1> PICK K : K = Cardinality(S)  OBVIOUS
<1>1. K \in Nat  BY FS_CardinalityType
<1> DEFINE End(c, k) == IF k = 1 THEN c ELSE IF k = 2 THEN <<c[1] - 1, c[2]>>
                        ELSE IF k = 3 THEN <<c[1] + 1, c[2]>>
                        ELSE IF k = 4 THEN <<c[1], c[2] - 1>> ELSE <<c[1], c[2] + 1>>
<1> PICK A : A = S \X (1 .. 5)  OBVIOUS
<1>2. IsFiniteSet(A) /\ Cardinality(A) = 5 * K
  <2> PICK five : five = 5  OBVIOUS
  <2>3. 1 \in Int /\ five \in Int /\ ~ (1 > five) /\ five - 1 + 1 = 5  OBVIOUS
  <2>4. IsFiniteSet(1 .. five) /\ Cardinality(1 .. five) = five - 1 + 1
    BY <2>3, FS_Interval
  <2>1. IsFiniteSet(1 .. 5) /\ Cardinality(1 .. 5) = 5  BY <2>3, <2>4
  <2>2. IsFiniteSet(A) /\ Cardinality(A) = K * 5  BY <2>1, FS_Product
  <2> QED  BY <1>1, <2>2
<1> PICK f : f = [a \in A |-> <<a[1], End(a[1], a[2])>>]  OBVIOUS
<1> PICK R : R = {f[a] : a \in A}  OBVIOUS
<1>3. f \in Surjection(A, R)  BY DEF Surjection
<1>4. IsFiniteSet(R) /\ Cardinality(R) <= Cardinality(A)  BY <1>2, <1>3, FS_Surjection
<1>5. Marks(S) \subseteq R
  <2> SUFFICES ASSUME NEW p \in Marks(S) PROVE p \in R  OBVIOUS
  <2>1. p \in S \X S /\ (p[2] = p[1] \/ p[2] \in Around(p[1]))  BY DEF Marks, NeighborsIn
  <2> PICK c : c = p[1]  OBVIOUS
  <2>2. c \in S /\ p = <<c, p[2]>>  BY <2>1
  <2>3. \E k \in 1 .. 5 : p[2] = End(c, k)
    <3>1. p[2] = c \/ p[2] = <<c[1] - 1, c[2]>> \/ p[2] = <<c[1] + 1, c[2]>>
          \/ p[2] = <<c[1], c[2] - 1>> \/ p[2] = <<c[1], c[2] + 1>>
      BY <2>1 DEF Around
    <3>2. CASE p[2] = c  BY <3>2
    <3>3. CASE p[2] = <<c[1] - 1, c[2]>>
      <4>1. p[2] = End(c, 2)  BY <3>3
      <4> QED  BY <4>1
    <3>4. CASE p[2] = <<c[1] + 1, c[2]>>
      <4>1. p[2] = End(c, 3)  BY <3>4
      <4> QED  BY <4>1
    <3>5. CASE p[2] = <<c[1], c[2] - 1>>
      <4>1. p[2] = End(c, 4)  BY <3>5
      <4> QED  BY <4>1
    <3>6. CASE p[2] = <<c[1], c[2] + 1>>
      <4>1. p[2] = End(c, 5)  BY <3>6
      <4> QED  BY <4>1
    <3> QED  BY <3>1, <3>2, <3>3, <3>4, <3>5, <3>6
  <2> HIDE DEF End
  <2>4. PICK k \in 1 .. 5 : p[2] = End(c, k)  BY <2>3
  <2> PICK a : a = <<c, k>>  OBVIOUS
  <2>5. a \in A /\ a[1] = c /\ a[2] = k  BY <2>2, <2>4
  <2>6. f[a] = <<c, End(c, k)>>  BY <2>5
  <2> QED  BY <2>2, <2>4, <2>5, <2>6
<1>6. /\ IsFiniteSet(Marks(S)) /\ Cardinality(Marks(S)) <= Cardinality(R)
      /\ Cardinality(R) \in Nat /\ Cardinality(Marks(S)) \in Nat
  BY <1>4, <1>5, FS_Subset, FS_CardinalityType
<1>7. VisitBound(S) = 5 * K  BY DEF VisitBound
<1> PICK m, a, rr, b : /\ m = Cardinality(Marks(S)) /\ a = Cardinality(A)
                       /\ rr = Cardinality(R) /\ b = VisitBound(S)
  OBVIOUS
<1>8. /\ m \in Nat /\ rr \in Nat /\ K \in Nat /\ a = 5 * K /\ b = 5 * K /\ m <= rr /\ rr <= a
  BY <1>1, <1>2, <1>4, <1>6, <1>7, Zenon
<1>9. b \in Nat /\ m <= b  BY ONLY <1>8
<1> QED  BY <1>6, <1>9, Zenon

\* The visits of one walk, as the recursive function that WalkFrom defines.
StepsFrom(S, start) ==
  LET steps[n \in 0 .. VisitBound(S)] == IF n = 0 THEN start ELSE Visit(S, steps[n - 1])
  IN  steps

\* That function exists: it is what it says of itself.
LEMMA StepsAre ==
  ASSUME NEW S, NEW start, VisitBound(S) \in Nat
  PROVE  /\ StepsFrom(S, start)[0] = start
         /\ \A n \in 0 .. VisitBound(S) - 1 :
              StepsFrom(S, start)[n + 1] = Visit(S, StepsFrom(S, start)[n])
<1> PICK K \in Nat : K = VisitBound(S)  OBVIOUS
<1> DEFINE Fits(g, k) == g = [n \in 0 .. k |-> IF n = 0 THEN start ELSE Visit(S, g[n - 1])]
           Good == {k \in Nat : \E g : Fits(g, k)}
<1>1. 0 \in Good
  <2>1. PICK g : g = [n \in 0 .. 0 |-> start]  OBVIOUS
  <2>2. Fits(g, 0)  BY <2>1
  <2> HIDE DEF Fits
  <2> QED  BY <2>2
<1>2. ASSUME NEW k \in 0 .. K - 1, k \in Good PROVE k + 1 \in Good
  <2>1. PICK g : Fits(g, k)  BY <1>2
  <2>2. DOMAIN g = 0 .. k /\ \A n \in 0 .. k : g[n] = IF n = 0 THEN start ELSE Visit(S, g[n - 1])
    BY <2>1
  <2>3. PICK h : h = [n \in 0 .. k + 1 |-> IF n = k + 1 THEN Visit(S, g[k]) ELSE g[n]]  OBVIOUS
  <2>4. \A n \in 0 .. k + 1 : h[n] = IF n = 0 THEN start ELSE Visit(S, h[n - 1])
    <3> TAKE n \in 0 .. k + 1
    <3>1. CASE n = k + 1
      <4>1. h[n] = Visit(S, g[k]) /\ h[n - 1] = g[k]  BY <2>3, <3>1
      <4> QED  BY <3>1, <4>1
    <3>2. CASE n \in 0 .. k
      <4>1. h[n] = g[n] /\ (n # 0 => h[n - 1] = g[n - 1])  BY <2>3, <3>2
      <4>2. g[n] = IF n = 0 THEN start ELSE Visit(S, g[n - 1])  BY <2>2, <3>2
      <4> QED  BY <4>1, <4>2
    <3> QED  BY <3>1, <3>2
  <2>5. h = [n \in 0 .. k + 1 |-> h[n]]  BY <2>3
  <2>6. Fits(h, k + 1)  BY <2>4, <2>5
  <2> HIDE DEF Fits
  <2> QED  BY <2>6
<1>3. K \in Good
  <2> HIDE DEF Good
  <2> QED  BY <1>1, <1>2, UpToBound
<1>4. \E g : Fits(g, K)  BY <1>3
<1>5. StepsFrom(S, start) = CHOOSE g : Fits(g, K)  BY DEF StepsFrom
<1>6. Fits(StepsFrom(S, start), K)
  <2> HIDE DEF Fits
  <2> QED  BY <1>4, <1>5
<1>7. \A n \in 0 .. K : StepsFrom(S, start)[n] = IF n = 0 THEN start ELSE Visit(S, StepsFrom(S, start)[n - 1])
  BY <1>6
<1>8. 0 \in 0 .. K /\ \A n \in 0 .. K - 1 : n + 1 \in 0 .. K /\ n + 1 # 0 /\ (n + 1) - 1 = n
  OBVIOUS
<1> QED  BY <1>7, <1>8

\* A walk starts in the invariant.
LEMMA WalkStarts ==
  ASSUME NEW S, IsFiniteSet(S), S \subseteq Int \X Int, NEW r \in S, NEW w,
         WalkTypes(S, r, w), Known(w) = {}, Depth(w) = 0, w.kids = 0, w.cuts = {}
  PROVE  WalkInv(S, r, Discover(S, w, r, None))
<1> PICK v : v = Discover(S, w, r, None)  OBVIOUS
<1>1. WalkTypes(S, r, v) /\ Entered(S, w, v, r, None)  BY DiscoverIs
<1>2. /\ Known(v) = {r} /\ v.found[r] = w.clock /\ v.low[r] = w.clock
      /\ v.clock = w.clock + 1 /\ v.cuts = {} /\ v.kids = 0 /\ w.clock \in Nat
      /\ Depth(v) = 1 /\ Cell(v, 1) = r /\ Left(v, 1) = NeighborsIn(S, r)
  BY <1>1 DEF Entered, WalkTypes
<1>3. 1 .. 1 = {1} /\ 2 .. 1 = {} /\ 1 \in 1 .. 1 /\ 1 .. 1 - 1 = {}  OBVIOUS
<1>4. Ordered(r, v)  BY <1>2, <1>3 DEF Ordered
<1>5. Rooted(S, r, v)  BY <1>2, <1>3 DEF Rooted
<1>6. LookedAt(S, v)  BY <1>2, <1>3 DEF LookedAt
<1>7. Settled(S, v)  BY <1>2, <1>3 DEF Settled, OnPath
<1>8. Behind(v, 1) = {r} /\ Zone(v, 1) = {r} /\ SeenFrom(S, v, 1) = {}
  <2>1. Behind(v, 1) = {r}  BY <1>2 DEF Behind
  <2>2. Zone(v, 1) = {r}  BY <1>2, <2>1 DEF Zone
  <2> QED  BY <1>2, <2>1, <2>2 DEF SeenFrom
<1>9. LowIsBelow(S, v) /\ LowIsReached(S, v)  BY <1>2, <1>3, <1>8 DEF LowIsBelow, LowIsReached
<1>10. Hanging(v)  BY <1>2, <1>3, <1>8, HangsAlone DEF Hanging
<1>11. CutsSever(S, r, v) /\ OthersHold(S, r, v)  BY <1>2 DEF CutsSever, OthersHold
<1>12. RootCounts(S, r, v)  BY <1>2 DEF RootCounts
<1> QED  BY <1>1, <1>4, <1>5, <1>6, <1>7, <1>9, <1>10, <1>11, <1>12 DEF WalkInv

\* The bound is never what ends a walk.
LEMMA WalkEnds ==
  ASSUME NEW S, IsFiniteSet(S), S \subseteq Int \X Int, NEW r, NEW start, WalkInv(S, r, start)
  PROVE  LET done == StepsFrom(S, start)[VisitBound(S)]
         IN  WalkInv(S, r, done) /\ Depth(done) = 0
<1> PICK K : K = VisitBound(S)  OBVIOUS
<1> PICK W : W = StepsFrom(S, start)  OBVIOUS
<1> PICK M : M = Marks(S)  OBVIOUS
<1>0. IsFiniteSet(M) /\ Cardinality(M) \in Nat /\ K \in Nat /\ Cardinality(M) <= K
  BY MarksAreFew
<1>1. W[0] = start /\ \A n \in 0 .. K - 1 : W[n + 1] = Visit(S, W[n])  BY <1>0, StepsAre
<1>2. \A w : /\ Marked(S, w) \subseteq M /\ IsFiniteSet(Marked(S, w))
             /\ Cardinality(Marked(S, w)) \in Nat /\ Cardinality(Marked(S, w)) <= Cardinality(M)
  <2> TAKE w
  <2>1. Marked(S, w) \subseteq M  BY DEF Marked
  <2> QED  BY <1>0, <2>1, FS_Subset, FS_CardinalityType
<1> DEFINE Right(n) == /\ WalkInv(S, r, W[n])
                       /\ W[n].stack # << >> => Cardinality(Marked(S, W[n])) >= n
           Good == {n \in 0 .. K : Right(n)}
<1>3. 0 \in Good  BY <1>0, <1>1, <1>2
<1>4. ASSUME NEW n \in 0 .. K - 1, n \in Good PROVE n + 1 \in Good
  <2> PICK w : w = W[n]  OBVIOUS
  <2> PICK v : v = W[n + 1]  OBVIOUS
  <2>1. WalkInv(S, r, w) /\ (w.stack # << >> => Cardinality(Marked(S, w)) >= n)  BY <1>4
  <2>2. v = Visit(S, w)  BY <1>1
  <2>3. /\ WalkInv(S, r, v) /\ (w.stack = << >> => v = w)
        /\ w.stack # << >> => Progress(S, w, v)
    BY <2>1, <2>2, VisitKeeps
  <2>4. v.stack # << >> => Cardinality(Marked(S, v)) >= n + 1
    <3> SUFFICES ASSUME v.stack # << >> PROVE Cardinality(Marked(S, v)) >= n + 1  OBVIOUS
    <3>1. w.stack # << >>  BY <2>3
    <3>2. Cardinality(Marked(S, w)) >= n /\ Progress(S, w, v)  BY <2>1, <2>3, <3>1
    <3>3. Cardinality(Marked(S, w)) < Cardinality(Marked(S, v))
      <4>1. Marked(S, w) \subseteq Marked(S, v) /\ Marked(S, w) # Marked(S, v)
        BY <3>2 DEF Progress
      <4>2. /\ Cardinality(Marked(S, w)) <= Cardinality(Marked(S, v))
            /\ Cardinality(Marked(S, v)) # Cardinality(Marked(S, w))
        BY <1>2, <4>1, FS_Subset
      <4> QED  BY <1>2, <4>2
    <3> QED  BY <1>2, <3>2, <3>3
  <2>5. n + 1 \in 0 .. K  BY <1>0
  <2> QED  BY <2>3, <2>4, <2>5
<1>5. K \in Good
  <2>1. K \in 0 .. K  BY <1>0
  <2> HIDE DEF Good
  <2> QED  BY <1>0, <1>3, <1>4, <2>1, UpToBound
<1> PICK w : w = W[K]  OBVIOUS
<1>6. WalkInv(S, r, w) /\ (w.stack # << >> => Cardinality(Marked(S, w)) >= K)  BY <1>5
<1>7. WalkTypes(S, r, w)  BY <1>6 DEF WalkInv
<1> PICK n : n = Depth(w)  OBVIOUS
<1>8. n \in Nat /\ (w.stack = << >> <=> n = 0)  BY <1>7, DepthIs
<1>9. ASSUME n # 0 PROVE FALSE
  <2>1. n \in 1 .. n  BY <1>8, <1>9
  <2> PICK top : top = Cell(w, n)  OBVIOUS
  <2>2. top \in Known(w) /\ top \in S /\ OnPath(w, top)
    BY <1>6, <2>1 DEF WalkInv, WalkTypes, Ordered, OnPath
  <2>3. <<top, top>> \in M /\ <<top, top>> \notin Marked(S, w)
    BY <2>2 DEF Marks, Marked
  <2>4. Cardinality(Marked(S, w)) = Cardinality(M)  BY <1>0, <1>2, <1>6, <1>8, <1>9
  <2>5. Marked(S, w) = M  BY <1>0, <1>2, <2>4, FS_Subset
  <2> QED  BY <2>3, <2>5
<1> QED  BY <1>6, <1>9

\* Cells that all hang at one of them do not fall apart.
LEMMA HangingHolds ==
  ASSUME NEW T, T \subseteq Int \X Int, NEW k \in T, HangsAt(T, k)
  PROVE  ~ Severed(T)
<1> SUFFICES ASSUME NEW X \in SUBSET T, X # {}, X # T, ClosedIn(T, X) PROVE FALSE
  BY DEF Severed
<1>1. PICK z \in X : z \in X \cap T  OBVIOUS
<1>2. T \subseteq X  BY <1>1, HangsTogether
<1> QED  BY <1>2

\* A walk that is over has found its cells and cut exactly where they fall apart.
LEMMA WalkTells ==
  ASSUME NEW S, S \subseteq Int \X Int, ~ Severed(S), NEW r, NEW w, WalkInv(S, r, w), Depth(w) = 0
  PROVE  /\ Known(w) = S
         /\ \A c \in S : c \in w.cuts \cup (IF w.kids >= 2 THEN {r} ELSE {}) <=> Severed(S \ {c})
<1> PICK F : F = Known(w)  OBVIOUS
<1>1. /\ r \in F /\ F \subseteq S /\ w.kids \in Nat /\ w.cuts \subseteq S
  BY DEF WalkInv, WalkTypes, Ordered
<1>2. 1 .. 0 = {} /\ 1 .. 0 - 1 = {}  OBVIOUS
<1>3. F = S
  <2>1. ClosedIn(S, F)
    <3> SUFFICES ASSUME NEW u \in F, NEW y \in NeighborsIn(S, u) PROVE y \in F
      BY DEF ClosedIn
    <3>1. ~ OnPath(w, u)  BY <1>2 DEF OnPath
    <3> QED  BY <3>1 DEF WalkInv, Settled
  <2> QED  BY <1>1, <2>1 DEF Severed
<1>4. \A c \in w.cuts : c # r /\ Severed(S \ {c})  BY DEF WalkInv, CutsSever
<1>5. ASSUME NEW c \in S, c \notin w.cuts, c # r PROVE ~ Severed(S \ {c})
  <2>1. HangsAt(S \ {c}, r)
    <3> SUFFICES ASSUME NEW X \in SUBSET (S \ {c}), r \in X, ClosedIn(S \ {c}, X)
                 PROVE  X = S \ {c}
      BY DEF HangsAt
    <3>1. \A u \in F \ {c} : u \in X  BY <1>2, <1>3, <1>5 DEF WalkInv, OthersHold
    <3> QED  BY <1>3, <3>1
  <2>2. r \in S \ {c} /\ S \ {c} \subseteq Int \X Int  BY <1>1, <1>5
  <2> QED  BY <2>1, <2>2, HangingHolds
<1>6. w.kids >= 2 <=> Severed(S \ {r})
  <2>1. /\ w.kids = 0 => F = {r}
        /\ w.kids >= 2 => Severed(S \ {r})
        /\ w.kids = 1 => \E k \in F \ {r} : HangsAt(F \ {r}, k)
    BY DEF WalkInv, RootCounts
  <2>2. ASSUME w.kids = 0 PROVE ~ Severed(S \ {r})
    <3>1. S \ {r} = {}  BY <1>3, <2>1, <2>2
    <3> QED  BY <3>1 DEF Severed
  <2>3. ASSUME w.kids = 1 PROVE ~ Severed(S \ {r})
    <3>1. PICK k \in S \ {r} : HangsAt(S \ {r}, k)  BY <1>3, <2>1, <2>3
    <3>2. S \ {r} \subseteq Int \X Int  OBVIOUS
    <3> QED  BY <3>1, <3>2, HangingHolds
  <2>4. w.kids = 0 \/ w.kids = 1 \/ w.kids >= 2  BY <1>1
  <2> QED  BY <2>1, <2>2, <2>3, <2>4
<1>7. r \notin w.cuts  BY <1>4
<1> QED  BY <1>3, <1>4, <1>5, <1>6, <1>7

\* One piece, or more than one.
LEMMA PiecesAre ==
  ASSUME NEW T, IsFiniteSet(T), T \subseteq Int \X Int
  PROVE  /\ IsFiniteSet(Pieces(T)) /\ Cardinality(Pieces(T)) \in Nat
         /\ T = {} => Cardinality(Pieces(T)) = 0
         /\ T # {} => Cardinality(Pieces(T)) >= 1
         /\ Severed(T) <=> Cardinality(Pieces(T)) > 1
<1> PICK C : C = [c \in T |-> ComponentOf(T, c)]  OBVIOUS
<1> PICK P : P = Pieces(T)  OBVIOUS
<1>1. P = {C[c] : c \in T}  BY DEF Pieces
<1>2. \A c \in T : /\ c \in C[c] /\ C[c] \subseteq T /\ ClosedIn(T, C[c])
                   /\ \A X : c \in X /\ ClosedIn(T, X) => C[c] \subseteq X
  <2> SUFFICES ASSUME NEW c \in T
               PROVE  /\ c \in C[c] /\ C[c] \subseteq T /\ ClosedIn(T, C[c])
                      /\ \A X : c \in X /\ ClosedIn(T, X) => C[c] \subseteq X
    OBVIOUS
  <2> PICK hops : hops = Distances(T, c)  OBVIOUS
  <2>1. /\ c \in DOMAIN hops /\ DOMAIN hops \subseteq T
        /\ \A X : c \in X /\ ClosedIn(T, X) => DOMAIN hops \subseteq X
    BY DistancesAreHops
  <2>2. DOMAIN hops = ComponentOf(T, c)  BY HopsAre
  <2>3. ClosedIn(T, ComponentOf(T, c))  BY SearchEnds
  <2> QED  BY <2>1, <2>2, <2>3
<1>3. IsFiniteSet(P) /\ Cardinality(P) \in Nat
  <2>1. C \in Surjection(T, P)  BY <1>1 DEF Surjection
  <2> QED  BY <2>1, FS_Surjection, FS_CardinalityType
<1>4. T = {} => Cardinality(P) = 0
  <2>1. T = {} => P = {}  BY <1>1
  <2> QED  BY <2>1, FS_EmptySet
<1>5. T # {} => Cardinality(P) >= 1
  <2>1. T # {} => P # {}  BY <1>1
  <2>2. P # {} => Cardinality(P) # 0  BY <1>3, FS_EmptySet
  <2> QED  BY <1>3, <2>1, <2>2
<1>6. ASSUME Severed(T) PROVE Cardinality(P) > 1
  <2>1. PICK X \in SUBSET T : X # {} /\ X # T /\ ClosedIn(T, X)  BY <1>6 DEF Severed
  <2>2. PICK x \in X, y \in T : y \notin X  BY <2>1
  <2>3. C[x] # C[y]  BY <1>2, <2>1, <2>2
  <2>4. {C[x], C[y]} \subseteq P  BY <1>1, <2>2
  <2>5. Cardinality({C[x]}) = 1 /\ IsFiniteSet({C[x]})  BY FS_Singleton
  <2>9. C[y] \notin {C[x]}  BY <2>3
  <2>10. Cardinality({C[x]} \cup {C[y]}) = Cardinality({C[x]}) + 1
    BY <2>5, <2>9, FS_AddElement
  <2>6. Cardinality({C[x]} \cup {C[y]}) = 2  BY <2>5, <2>10
  <2>7. {C[x]} \cup {C[y]} \subseteq P  BY <2>4
  <2>8. Cardinality({C[x]} \cup {C[y]}) <= Cardinality(P)  BY <1>3, <2>7, FS_Subset
  <2> QED  BY <1>3, <2>6, <2>8
<1>7. ASSUME ~ Severed(T), T # {} PROVE Cardinality(P) = 1
  <2>1. \A c \in T : C[c] = T  BY <1>2, <1>7 DEF Severed
  <2>2. P = {T}  BY <1>1, <1>7, <2>1
  <2> QED  BY <2>2, FS_Singleton
<1>8. ~ Severed(T) => ~ (Cardinality(P) > 1)
  <2>1. CASE T = {}  BY <1>4, <2>1
  <2>2. CASE T # {}  BY <1>7, <2>2
  <2> QED  BY <2>1, <2>2
<1> QED  BY <1>3, <1>4, <1>5, <1>6, <1>8

\* A cell cuts, by the number of pieces, exactly where its loss severs the rest.
LEMMA CutsAre ==
  ASSUME NEW S, IsFiniteSet(S), S \subseteq Int \X Int, ~ Severed(S), NEW c \in S
  PROVE  Cuts(S, c) <=> Severed(S \ {c})
<1> PICK R : R = S \ {c}  OBVIOUS
<1>1. IsFiniteSet(R) /\ R \subseteq Int \X Int  BY FS_Subset
<1>2. /\ Cardinality(Pieces(R)) \in Nat /\ (Severed(R) <=> Cardinality(Pieces(R)) > 1)
  BY <1>1, PiecesAre
<1>3. Cardinality(Pieces(S)) \in Nat /\ Cardinality(Pieces(S)) = 1
  <2>1. S # {}  OBVIOUS
  <2>2. /\ Cardinality(Pieces(S)) \in Nat /\ Cardinality(Pieces(S)) >= 1
        /\ ~ (Cardinality(Pieces(S)) > 1)
    BY <2>1, PiecesAre
  <2> QED  BY <2>2
<1> QED  BY <1>2, <1>3 DEF Cuts

\* The walks from each root in turn, as ArticulationPoints defines them.
FreshWalk == [found |-> << >>, low |-> << >>, parent |-> << >>, root |-> None,
              kids |-> 0, cuts |-> {}, clock |-> 0, stack |-> << >>]

WalksOver(S) ==
  LET roots == Sorted(S)
      walks[n \in 0 .. Len(roots)] ==
        IF n = 0 THEN FreshWalk ELSE WalkFrom(S, walks[n - 1], roots[n])
  IN  walks

\* That function exists too.
LEMMA WalksAre ==
  ASSUME NEW S, NEW K \in Nat, K = Len(Sorted(S))
  PROVE  /\ WalksOver(S)[0] = FreshWalk
         /\ \A n \in 0 .. K - 1 :
              WalksOver(S)[n + 1] = WalkFrom(S, WalksOver(S)[n], Sorted(S)[n + 1])
<1> PICK roots : roots = Sorted(S)  OBVIOUS
<1> PICK fresh : fresh = FreshWalk  OBVIOUS
<1> DEFINE Fits(g, k) ==
             g = [n \in 0 .. k |-> IF n = 0 THEN fresh ELSE WalkFrom(S, g[n - 1], roots[n])]
           Good == {k \in Nat : \E g : Fits(g, k)}
<1>1. 0 \in Good
  <2>1. PICK g : g = [n \in 0 .. 0 |-> fresh]  OBVIOUS
  <2>2. Fits(g, 0)  BY <2>1
  <2> HIDE DEF Fits
  <2> QED  BY <2>2
<1>2. ASSUME NEW k \in 0 .. K - 1, k \in Good PROVE k + 1 \in Good
  <2>1. PICK g : Fits(g, k)  BY <1>2
  <2>2. DOMAIN g = 0 .. k
        /\ \A n \in 0 .. k : g[n] = IF n = 0 THEN fresh ELSE WalkFrom(S, g[n - 1], roots[n])
    BY <2>1
  <2>3. PICK h : h = [n \in 0 .. k + 1 |->
                        IF n = k + 1 THEN WalkFrom(S, g[k], roots[k + 1]) ELSE g[n]]
    OBVIOUS
  <2>4. \A n \in 0 .. k + 1 : h[n] = IF n = 0 THEN fresh ELSE WalkFrom(S, h[n - 1], roots[n])
    <3> TAKE n \in 0 .. k + 1
    <3>1. CASE n = k + 1
      <4>1. h[n] = WalkFrom(S, g[k], roots[n]) /\ h[n - 1] = g[k]  BY <2>3, <3>1
      <4> QED  BY <3>1, <4>1
    <3>2. CASE n \in 0 .. k
      <4>1. h[n] = g[n] /\ (n # 0 => h[n - 1] = g[n - 1])  BY <2>3, <3>2
      <4>2. g[n] = IF n = 0 THEN fresh ELSE WalkFrom(S, g[n - 1], roots[n])  BY <2>2, <3>2
      <4> QED  BY <4>1, <4>2
    <3> QED  BY <3>1, <3>2
  <2>5. h = [n \in 0 .. k + 1 |-> h[n]]  BY <2>3
  <2>6. Fits(h, k + 1)  BY <2>4, <2>5
  <2> HIDE DEF Fits
  <2> QED  BY <2>6
<1>3. K \in Good
  <2> HIDE DEF Good
  <2> QED  BY <1>1, <1>2, UpToBound
<1>4. \E g : Fits(g, K)  BY <1>3
<1>5. WalksOver(S) = CHOOSE g : Fits(g, K)  BY DEF WalksOver
<1>6. Fits(WalksOver(S), K)
  <2> HIDE DEF Fits
  <2> QED  BY <1>4, <1>5
<1>7. \A n \in 0 .. K : WalksOver(S)[n] = IF n = 0 THEN fresh
                                          ELSE WalkFrom(S, WalksOver(S)[n - 1], roots[n])
  BY <1>6
<1>8. 0 \in 0 .. K /\ \A n \in 0 .. K - 1 : n + 1 \in 0 .. K /\ n + 1 # 0 /\ (n + 1) - 1 = n
  OBVIOUS
<1> QED  BY <1>7, <1>8

\* A walk from a cell not yet found.
LEMMA WalkFromIs ==
  ASSUME NEW S, NEW walk, NEW r, r \notin DOMAIN walk.found
  PROVE  WalkFrom(S, walk, r) =
           LET start == Discover(S, [walk EXCEPT !.root = r, !.kids = 0], r, None)
               done  == StepsFrom(S, start)[VisitBound(S)]
           IN  [done EXCEPT !.cuts = @ \cup (IF done.kids >= 2 THEN {r} ELSE {})]
BY Zenon DEF WalkFrom, StepsFrom

\* The first root's walk over cells that hang together.
LEMMA FirstWalk ==
  ASSUME NEW S, IsFiniteSet(S), S \subseteq Int \X Int, ~ Severed(S), NEW r \in S
  PROVE  LET w == WalkFrom(S, FreshWalk, r)
         IN  Known(w) = S /\ w.cuts \subseteq S /\ \A c \in S : c \in w.cuts <=> Severed(S \ {c})
<1> PICK w : w = [FreshWalk EXCEPT !.root = r, !.kids = 0]  OBVIOUS
<1>1. /\ w.found = << >> /\ w.low = << >> /\ w.parent = << >> /\ w.root = r
      /\ w.kids = 0 /\ w.cuts = {} /\ w.clock = 0 /\ w.stack = << >> /\ IsWalk(w)
  BY DEF FreshWalk, Books, IsWalk
<1>2. DOMAIN << >> = {} /\ << >> \in Seq(Frames(S)) /\ Len(<< >>) = 0
  OBVIOUS
<1>3. << >> \in [{} -> Nat] /\ << >> \in [{} -> S \cup {None}]
  OBVIOUS
<1>4. WalkTypes(S, r, w) /\ Known(w) = {} /\ Depth(w) = 0
  <2>1. Known(w) = {}  BY <1>1, <1>2 DEF Known
  <2>2. Depth(w) = 0  BY <1>1, <1>2 DEF Depth
  <2>3. w.stack \in Seq(Frames(S))  BY <1>1, <1>2
  <2>4. w.found \in [Known(w) -> Nat] /\ w.low \in [Known(w) -> Nat]
        /\ w.parent \in [Known(w) -> S \cup {None}]
    BY <1>1, <1>3, <2>1
  <2>5. w.kids \in Nat /\ w.clock \in Nat  BY <1>1
  <2> QED  BY <1>1, <2>1, <2>2, <2>3, <2>4, <2>5 DEF WalkTypes
<1> PICK start : start = Discover(S, w, r, None)  OBVIOUS
<1>5. WalkInv(S, r, start)  BY <1>1, <1>4, WalkStarts
<1> PICK done : done = StepsFrom(S, start)[VisitBound(S)]  OBVIOUS
<1>6. WalkInv(S, r, done) /\ Depth(done) = 0  BY <1>5, WalkEnds
<1> PICK cu : cu = done.cuts \cup (IF done.kids >= 2 THEN {r} ELSE {})  OBVIOUS
<1>71. cu \subseteq S  BY <1>6 DEF WalkInv, WalkTypes
<1>7. Known(done) = S /\ \A c \in S : c \in cu <=> Severed(S \ {c})  BY <1>6, WalkTells
<1> PICK v : v = WalkFrom(S, FreshWalk, r)  OBVIOUS
<1>8. v = [done EXCEPT !.cuts = cu]
  <2>1. r \notin DOMAIN FreshWalk.found  BY <1>2 DEF FreshWalk
  <2>2. DOMAIN done = Books  BY <1>6 DEF WalkInv, WalkTypes, IsWalk
  <2>3. v = [done EXCEPT !.cuts = @ \cup (IF done.kids >= 2 THEN {r} ELSE {})]
    BY <2>1, WalkFromIs, Zenon
  <2> QED  BY <2>2, <2>3 DEF Books
<1>9. v.found = done.found /\ v.cuts = cu
  <2>1. DOMAIN done = Books  BY <1>6 DEF WalkInv, WalkTypes, IsWalk
  <2> QED  BY <1>8, <2>1 DEF Books
<1> QED  BY <1>7, <1>71, <1>9 DEF Known

\* components.articulation_points on cells that hang together.
LEMMA ArticulationIsExact ==
  ASSUME NEW S, IsFiniteSet(S), S \subseteq Int \X Int, ~ Severed(S)
  PROVE  ArticulationPoints(S) = {c \in S : Cuts(S, c)}
<1> PICK roots : roots = Sorted(S)  OBVIOUS
<1> PICK K : K = Len(roots)  OBVIOUS
<1>1. roots \in Seq(S) /\ K \in Nat  BY SortedLists DEF Lists
<1> PICK W : W = WalksOver(S)  OBVIOUS
<1>2. ArticulationPoints(S) = W[K].cuts
  BY DEF ArticulationPoints, WalksOver, FreshWalk
<1>3. W[0] = FreshWalk /\ \A n \in 0 .. K - 1 : W[n + 1] = WalkFrom(S, W[n], roots[n + 1])
  BY <1>1, WalksAre
<1>4. CASE S = {}
  <2>1. K = 0
    <3>1. ASSUME K # 0 PROVE FALSE
      <4>1. 1 \in 1 .. K  BY <1>1, <3>1
      <4> QED  BY <1>1, <1>4, <4>1
    <3> QED  BY <3>1
  <2>2. W[K].cuts = {}  BY <1>3, <2>1 DEF FreshWalk
  <2> QED  BY <1>2, <1>4, <2>2
<1>5. CASE S # {}
  <2>1. K # 0
    <3>1. Listed(roots) = S  BY SortedLists
    <3>2. ASSUME K = 0 PROVE FALSE
      <4>1. Listed(roots) = {}  BY <3>2 DEF Listed
      <4> QED  BY <1>5, <3>1, <4>1
    <3> QED  BY <3>2
  <2>2. \A n \in 1 .. K : roots[n] \in S  BY <1>1
  <2> PICK w : w = WalkFrom(S, FreshWalk, roots[1])  OBVIOUS
  <2>3. Known(w) = S /\ w.cuts \subseteq S /\ \A c \in S : c \in w.cuts <=> Severed(S \ {c})
    <3>1. roots[1] \in S  BY <1>1, <2>1, <2>2
    <3> QED  BY <3>1, FirstWalk
  <2> PICK Good : Good = {n \in 0 .. K : n = 0 \/ W[n] = w}  OBVIOUS
  <2>4. 0 \in Good  BY <1>1
  <2>5. ASSUME NEW n \in 0 .. K - 1, n \in Good PROVE n + 1 \in Good
    <3>1. n + 1 \in 0 .. K /\ n + 1 \in 1 .. K /\ W[n + 1] = WalkFrom(S, W[n], roots[n + 1])
      BY <1>1, <1>3
    <3>2. CASE n = 0  BY <1>3, <3>1, <3>2
    <3>3. CASE n # 0
      <4>1. W[n] = w  BY <2>5, <3>3
      <4>2. roots[n + 1] \in DOMAIN w.found  BY <2>2, <2>3, <3>1 DEF Known
      <4>3. WalkFrom(S, w, roots[n + 1]) = w  BY <4>2 DEF WalkFrom
      <4> QED  BY <3>1, <4>1, <4>3
    <3> QED  BY <3>2, <3>3
  <2>6. W[K] = w
    <3>1. K \in 0 .. K  BY <1>1
    <3>2. K \in Good  BY <1>1, <2>4, <2>5, <3>1, UpToBound
    <3> QED  BY <2>1, <3>2
  <2>7. ArticulationPoints(S) \subseteq S /\ \A c \in S : c \in ArticulationPoints(S) <=> Severed(S \ {c})  BY <1>2, <2>3, <2>6
  <2> QED  BY <2>7, CutsAre
<1> QED  BY <1>4, <1>5

\* Every edge as two steps, there and back.
Steps(T) == {e \in T \X T : e[2] \in Around(e[1])}

\* They are finitely many.
LEMMA StepsFinite ==
  ASSUME NEW T, IsFiniteSet(T)
  PROVE  IsFiniteSet(Steps(T)) /\ Cardinality(Steps(T)) \in Nat
<1>1. IsFiniteSet(T \X T)  BY FS_Product
<1>2. Steps(T) \subseteq T \X T  BY DEF Steps
<1> QED  BY <1>1, <1>2, FS_Subset, FS_CardinalityType

\* Two steps more, there and back.
LEMMA TwoMore ==
  ASSUME NEW E, IsFiniteSet(E), NEW a, NEW b, a # b, a \notin E, b \notin E
  PROVE  IsFiniteSet(E \cup {a, b}) /\ Cardinality(E \cup {a, b}) = Cardinality(E) + 2
<1> PICK D : D = E \cup {a}  OBVIOUS
<1>1. IsFiniteSet(D) /\ Cardinality(D) = Cardinality(E) + 1  BY FS_AddElement
<1>2. b \notin D  OBVIOUS
<1>3. IsFiniteSet(D \cup {b}) /\ Cardinality(D \cup {b}) = Cardinality(D) + 1
  BY <1>1, <1>2, FS_AddElement
<1>4. D \cup {b} = E \cup {a, b}  OBVIOUS
<1>5. Cardinality(E) \in Nat  BY FS_CardinalityType
<1> QED  BY <1>1, <1>3, <1>4, <1>5

\* Two are two.
LEMMA PairIsTwo ==
  ASSUME NEW a, NEW b, a # b
  PROVE  IsFiniteSet({a, b}) /\ Cardinality({a, b}) = 2
<1> PICK E : E = {}  OBVIOUS
<1>1. IsFiniteSet(E) /\ Cardinality(E) = 0 /\ a \notin E /\ b \notin E  BY FS_EmptySet
<1> PICK D : D = E \cup {a, b}  OBVIOUS
<1>2. IsFiniteSet(D) /\ Cardinality(D) = Cardinality(E) + 2  BY <1>1, TwoMore
<1>3. Cardinality(D) = 2  BY ONLY <1>1, <1>2
<1>4. D = {a, b}  OBVIOUS
<1> QED  BY <1>2, <1>3, <1>4, Zenon

\* Cells that hang together: each one more brings a step there and one back.
LEMMA TogetherGrows ==
  ASSUME NEW S, IsFiniteSet(S), S \subseteq Int \X Int, ~ Severed(S), NEW A \in SUBSET S, A # {}
  PROVE  Cardinality(Steps(S)) >= Cardinality(Steps(A)) + 2 * (Cardinality(S) - Cardinality(A))
<1> PICK K : K = Cardinality(S)  OBVIOUS
<1> DEFINE d(B) == Cardinality(Steps(B))
           Enough(B) == d(B) >= d(A) + 2 * (Cardinality(B) - Cardinality(A))
           T == {K - Cardinality(B) : B \in {B \in SUBSET S : A \subseteq B /\ Enough(B)}}
<1>1. K \in Nat /\ \A B \in SUBSET S : /\ IsFiniteSet(B) /\ Cardinality(B) \in Nat /\ d(B) \in Nat
                                       /\ Cardinality(B) <= K
  BY FS_Subset, FS_CardinalityType, StepsFinite
<1>2. T \in SUBSET Nat
  <2> SUFFICES ASSUME NEW B \in SUBSET S PROVE K - Cardinality(B) \in Nat  OBVIOUS
  <2> HIDE DEF d
  <2> QED  BY <1>1
<1>3. T # {}
  <2>1. Enough(A)
    <3> HIDE DEF d
    <3> QED  BY <1>1
  <2>2. K - Cardinality(A) \in T
    <3> HIDE DEF Enough
    <3> QED  BY <2>1
  <2> QED  BY <2>2
<1>4. PICK t \in T : \A u \in T : t <= u
  <2> HIDE DEF T
  <2> QED  BY <1>2, <1>3, LeastNatural
<1>5. PICK B \in SUBSET S : A \subseteq B /\ Enough(B) /\ t = K - Cardinality(B)
  <2> HIDE DEF Enough
  <2> QED  BY <1>4
<1>6. ASSUME B # S PROVE FALSE
  <2>0. PICK x \in B : \E y \in NeighborsIn(S, x) : y \notin B
    BY <1>5, <1>6 DEF Severed, ClosedIn
  <2>1. PICK y \in NeighborsIn(S, x) : y \notin B  BY <2>0
  <2>2. x \in S /\ y \in S /\ x # y /\ y \in Around(x) /\ x \in Around(y)
    BY <1>5, <2>1, NeighborsMutual DEF NeighborsIn
  <2> PICK C : C = B \cup {y}  OBVIOUS
  <2>3. C \in SUBSET S /\ A \subseteq C /\ Cardinality(C) = Cardinality(B) + 1
    BY <1>1, <1>5, <2>1, <2>2, FS_AddElement
  <2>4. d(C) >= d(B) + 2
    <3> PICK E : E = Steps(B)  OBVIOUS
    <3>1. IsFiniteSet(E) /\ Cardinality(E) \in Nat  BY <1>1, StepsFinite
    <3>2. <<x, y>> # <<y, x>> /\ <<x, y>> \notin E /\ <<y, x>> \notin E
      BY <2>1, <2>2 DEF Steps
    <3>3. Cardinality(E \cup {<<x, y>>, <<y, x>>}) = Cardinality(E) + 2
      BY <3>1, <3>2, TwoMore
    <3>4. E \cup {<<x, y>>, <<y, x>>} \subseteq Steps(C)  BY <2>1, <2>2 DEF Steps
    <3>5. IsFiniteSet(Steps(C)) /\ Cardinality(Steps(C)) \in Nat  BY <1>1, <2>3, StepsFinite
    <3>6. Cardinality(E \cup {<<x, y>>, <<y, x>>}) <= Cardinality(Steps(C))
      BY <3>4, <3>5, FS_Subset
    <3> QED  BY <3>1, <3>3, <3>5, <3>6
  <2>5. Enough(C)
    <3>1. d(A) \in Nat /\ d(B) \in Nat /\ d(C) \in Nat /\ Cardinality(A) \in Nat /\ Cardinality(B) \in Nat
      BY <1>1, <2>3
    <3> HIDE DEF d
    <3> QED  BY <1>5, <2>3, <2>4, <3>1
  <2>6. K - Cardinality(C) \in T
    <3> HIDE DEF Enough
    <3> QED  BY <2>3, <2>5
  <2>7. t <= K - Cardinality(C)
    <3> HIDE DEF T
    <3> QED  BY <1>4, <2>6
  <2> QED  BY <1>1, <1>5, <2>3, <2>7
<1> QED  BY <1>5, <1>6

\* Where every cell has two neighbours there are two steps a cell.
LEMMA CoreSteps ==
  ASSUME NEW A, IsFiniteSet(A), \A x \in A : Degree(A, x) >= 2
  PROVE  Cardinality(Steps(A)) >= 2 * Cardinality(A)
<1>1. ASSUME NEW x \in A
      PROVE  \E p \in A \X A : /\ p[1] # p[2] /\ p[1] \in NeighborsIn(A, x)
                               /\ p[2] \in NeighborsIn(A, x)
  <2> PICK N : N = NeighborsIn(A, x)  OBVIOUS
  <2>1. N \subseteq A  BY DEF NeighborsIn
  <2>2. IsFiniteSet(N) /\ Cardinality(N) >= 2  BY <2>1, FS_Subset DEF Degree
  <2>3. N # {}  BY <2>2, FS_EmptySet
  <2>4. PICK y : y \in N  BY <2>3
  <2>5. ASSUME N = {y} PROVE FALSE
    <3>1. Cardinality({y}) = 1  BY FS_Singleton
    <3> QED  BY <2>2, <2>5, <3>1
  <2>6. PICK z \in N : z # y  BY <2>4, <2>5
  <2> PICK p : p = <<y, z>>  OBVIOUS
  <2> QED  BY <2>1, <2>4, <2>6
<1>2. PICK two \in [A -> A \X A] :
        \A x \in A : /\ two[x][1] # two[x][2]
                     /\ two[x][1] \in NeighborsIn(A, x) /\ two[x][2] \in NeighborsIn(A, x)
  <2> DEFINE Two(x, p) == /\ p[1] # p[2] /\ p[1] \in NeighborsIn(A, x)
                          /\ p[2] \in NeighborsIn(A, x)
  <2>1. \A x \in A : \E p \in A \X A : Two(x, p)  BY <1>1
  <2> PICK f : f = [x \in A |-> CHOOSE p \in A \X A : Two(x, p)]  OBVIOUS
  <2>2. \A x \in A : f[x] \in A \X A /\ Two(x, f[x])
    <3> HIDE DEF Two
    <3> QED  BY <2>1
  <2>3. f \in [A -> A \X A]  BY <2>2
  <2> QED  BY <2>2, <2>3
<1> PICK P : P = A \X {1, 2}  OBVIOUS
<1> PICK g : g = [q \in P |-> <<q[1], IF q[2] = 1 THEN two[q[1]][1] ELSE two[q[1]][2]>>]  OBVIOUS
<1>3. \A x \in A : \A k \in {1, 2} :
        /\ <<x, k>> \in P
        /\ g[<<x, k>>] = <<x, IF k = 1 THEN two[x][1] ELSE two[x][2]>>
  OBVIOUS
<1>4. \A q \in P : q[1] \in A /\ q[2] \in {1, 2} /\ q = <<q[1], q[2]>>  OBVIOUS
<1>5. g \in [P -> Steps(A)]
  <2>1. DOMAIN g = P /\ g = [q \in P |-> g[q]]  OBVIOUS
  <2>2. ASSUME NEW q \in P PROVE g[q] \in Steps(A)
    <3> PICK x, k : x = q[1] /\ k = q[2]  OBVIOUS
    <3>1. x \in A /\ k \in {1, 2} /\ q = <<x, k>>  BY <1>4
    <3>2. g[q] = <<x, IF k = 1 THEN two[x][1] ELSE two[x][2]>>  BY <1>3, <3>1
    <3>3. two[x][1] \in NeighborsIn(A, x) /\ two[x][2] \in NeighborsIn(A, x)  BY <1>2, <3>1
    <3> QED  BY <3>1, <3>2, <3>3 DEF Steps, NeighborsIn
  <2> QED  BY <2>1, <2>2
<1>6. ASSUME NEW q \in P, NEW s \in P, g[q] = g[s] PROVE q = s
  <2> PICK x, k, y, l : x = q[1] /\ k = q[2] /\ y = s[1] /\ l = s[2]  OBVIOUS
  <2>1. x \in A /\ k \in {1, 2} /\ q = <<x, k>> /\ y \in A /\ l \in {1, 2} /\ s = <<y, l>>
    BY <1>4
  <2>2. /\ g[q] = <<x, IF k = 1 THEN two[x][1] ELSE two[x][2]>>
        /\ g[s] = <<y, IF l = 1 THEN two[y][1] ELSE two[y][2]>>
    BY <1>3, <2>1
  <2>3. x = y /\ (IF k = 1 THEN two[x][1] ELSE two[x][2]) = (IF l = 1 THEN two[x][1] ELSE two[x][2])
    BY <1>6, <2>2
  <2>4. two[x][1] # two[x][2]  BY <1>2, <2>1
  <2>5. k = l  BY <2>1, <2>3, <2>4
  <2> QED  BY <2>1, <2>3, <2>5
<1>12. \A q, s \in P : g[q] = g[s] => q = s  BY <1>6
<1>7. g \in Injection(P, Steps(A))
  <2> PICK Q, R : Q = P /\ R = Steps(A)  OBVIOUS
  <2>1. g \in [Q -> R] /\ \A q, s \in Q : g[q] = g[s] => q = s  BY <1>5, <1>12, ZenonT(40)
  <2>2. g \in Injection(Q, R)  BY ONLY <2>1 DEF Injection, IsInjective
  <2> QED  BY <2>2
<1>8. IsFiniteSet(Steps(A)) /\ Cardinality(Steps(A)) \in Nat  BY StepsFinite
<1>9. Cardinality(P) <= Cardinality(Steps(A))  BY <1>7, <1>8, FS_Injection
<1>10. Cardinality(P) = 2 * Cardinality(A)
  <2>1. 1 # 2  OBVIOUS
  <2>5. IsFiniteSet({1, 2}) /\ Cardinality({1, 2}) = 2  BY ONLY <2>1, PairIsTwo
  <2>6. Cardinality(P) = Cardinality(A) * Cardinality({1, 2})  BY <2>5, FS_Product
  <2>7. Cardinality(A) \in Nat  BY FS_CardinalityType
  <2> QED  BY <2>5, <2>6, <2>7
<1>11. Cardinality(A) \in Nat  BY FS_CardinalityType
<1> QED  BY <1>8, <1>9, <1>10, <1>11

\* The stages of pruning, as HasCycle defines them.
Pruning(S) ==
  LET pruned[n \in 0 .. Cardinality(S)] == IF n = 0 THEN S ELSE Prune(pruned[n - 1])
  IN  pruned

\* That function exists too.
LEMMA PruningIs ==
  ASSUME NEW S, Cardinality(S) \in Nat
  PROVE  /\ Pruning(S)[0] = S
         /\ \A n \in 0 .. Cardinality(S) - 1 : Pruning(S)[n + 1] = Prune(Pruning(S)[n])
<1> PICK K \in Nat : K = Cardinality(S)  OBVIOUS
<1> DEFINE Fits(g, k) == g = [n \in 0 .. k |-> IF n = 0 THEN S ELSE Prune(g[n - 1])]
           Good == {k \in Nat : \E g : Fits(g, k)}
<1>1. 0 \in Good
  <2>1. PICK g : g = [n \in 0 .. 0 |-> S]  OBVIOUS
  <2>2. Fits(g, 0)  BY <2>1
  <2> HIDE DEF Fits
  <2> QED  BY <2>2
<1>2. ASSUME NEW k \in 0 .. K - 1, k \in Good PROVE k + 1 \in Good
  <2>1. PICK g : Fits(g, k)  BY <1>2
  <2>2. DOMAIN g = 0 .. k /\ \A n \in 0 .. k : g[n] = IF n = 0 THEN S ELSE Prune(g[n - 1])
    BY <2>1
  <2>3. PICK h : h = [n \in 0 .. k + 1 |-> IF n = k + 1 THEN Prune(g[k]) ELSE g[n]]  OBVIOUS
  <2>4. \A n \in 0 .. k + 1 : h[n] = IF n = 0 THEN S ELSE Prune(h[n - 1])
    <3> TAKE n \in 0 .. k + 1
    <3>1. CASE n = k + 1
      <4>1. h[n] = Prune(g[k]) /\ h[n - 1] = g[k]  BY <2>3, <3>1
      <4> QED  BY <3>1, <4>1
    <3>2. CASE n \in 0 .. k
      <4>1. h[n] = g[n] /\ (n # 0 => h[n - 1] = g[n - 1])  BY <2>3, <3>2
      <4>2. g[n] = IF n = 0 THEN S ELSE Prune(g[n - 1])  BY <2>2, <3>2
      <4> QED  BY <4>1, <4>2
    <3> QED  BY <3>1, <3>2
  <2>5. h = [n \in 0 .. k + 1 |-> h[n]]  BY <2>3
  <2>6. Fits(h, k + 1)  BY <2>4, <2>5
  <2> HIDE DEF Fits
  <2> QED  BY <2>6
<1>3. K \in Good
  <2> HIDE DEF Good
  <2> QED  BY <1>1, <1>2, UpToBound
<1>4. \E g : Fits(g, K)  BY <1>3
<1>5. Pruning(S) = CHOOSE g : Fits(g, K)  BY DEF Pruning
<1>6. Fits(Pruning(S), K)
  <2> HIDE DEF Fits
  <2> QED  BY <1>4, <1>5
<1>7. \A n \in 0 .. K : Pruning(S)[n] = IF n = 0 THEN S ELSE Prune(Pruning(S)[n - 1])
  BY <1>6
<1>8. 0 \in 0 .. K /\ \A n \in 0 .. K - 1 : n + 1 \in 0 .. K /\ n + 1 # 0 /\ (n + 1) - 1 = n
  OBVIOUS
<1> QED  BY <1>7, <1>8

\* Cells of which each has two neighbours among the rest: what pruning leaves.
Core(A) == A # {} /\ \A x \in A : Degree(A, x) >= 2

\* A cell has no fewer neighbours among more cells.
LEMMA DegreeGrows ==
  ASSUME NEW S, IsFiniteSet(S), NEW A \in SUBSET S, NEW x \in A
  PROVE  Degree(A, x) <= Degree(S, x) /\ Degree(A, x) \in Nat /\ Degree(S, x) \in Nat
<1> PICK N, M : N = NeighborsIn(A, x) /\ M = NeighborsIn(S, x)  OBVIOUS
<1>1. N \subseteq M /\ M \subseteq S  BY DEF NeighborsIn
<1>2. IsFiniteSet(M) /\ IsFiniteSet(N) /\ Cardinality(N) \in Nat /\ Cardinality(M) \in Nat
      /\ Cardinality(N) <= Cardinality(M)
  BY <1>1, FS_Subset, FS_CardinalityType
<1> QED  BY <1>2 DEF Degree

\* There is a cycle exactly where there is a core.
LEMMA CycleIsCore ==
  ASSUME NEW S, IsFiniteSet(S)
  PROVE  HasCycle(S) <=> \E A \in SUBSET S : Core(A)
<1> PICK K : K = Cardinality(S)  OBVIOUS
<1> PICK P : P = Pruning(S)  OBVIOUS
<1>1. K \in Nat  BY FS_CardinalityType
<1>2. P[0] = S /\ \A n \in 0 .. K - 1 : P[n + 1] = Prune(P[n])  BY <1>1, PruningIs
<1>3. HasCycle(S) <=> P[K] # {}  BY DEF HasCycle, Pruning
<1>4. \A n \in 0 .. K : P[n] \subseteq S
  <2> PICK Good : Good = {n \in 0 .. K : P[n] \subseteq S}  OBVIOUS
  <2>1. 0 \in Good  BY <1>1, <1>2
  <2>2. \A n \in 0 .. K - 1 : n \in Good => n + 1 \in Good  BY <1>1, <1>2 DEF Prune
  <2> QED  BY <1>1, <2>1, <2>2, UpToBound
<1>5. ASSUME NEW A \in SUBSET S, Core(A) PROVE P[K] # {}
  <2> PICK Good : Good = {n \in 0 .. K : A \subseteq P[n]}  OBVIOUS
  <2>1. 0 \in Good  BY <1>1, <1>2
  <2>2. ASSUME NEW n \in 0 .. K - 1, n \in Good PROVE n + 1 \in Good
    <3> PICK B : B = P[n]  OBVIOUS
    <3>1. A \subseteq B /\ B \subseteq S /\ n + 1 \in 0 .. K /\ P[n + 1] = Prune(B)
      BY <1>1, <1>2, <1>4, <2>2
    <3>2. IsFiniteSet(B)  BY <3>1, FS_Subset
    <3>3. ASSUME NEW x \in A PROVE x \in Prune(B)
      <4>1. Degree(A, x) >= 2  BY <1>5 DEF Core
      <4>2. Degree(A, x) <= Degree(B, x) /\ Degree(A, x) \in Nat /\ Degree(B, x) \in Nat
        BY <3>1, <3>2, DegreeGrows
      <4> QED  BY <3>1, <4>1, <4>2 DEF Prune
    <3> QED  BY <3>1, <3>3
  <2>3. K \in 0 .. K  BY <1>1
  <2>4. K \in Good  BY <1>1, <2>1, <2>2, <2>3, UpToBound
  <2> QED  BY <1>5, <2>4 DEF Core
<1>6. ASSUME P[K] # {} PROVE \E A \in SUBSET S : Core(A)
  <2> DEFINE Same(n) == \E A \in SUBSET S : P[n] \subseteq A /\ Prune(A) = A
             Few(n) == Cardinality(P[n]) + n <= K
  <2> PICK Good : Good = {n \in 0 .. K : Same(n) \/ Few(n)}  OBVIOUS
  <2>0. \A n \in 0 .. K : IsFiniteSet(P[n]) /\ Cardinality(P[n]) \in Nat
    BY <1>4, FS_Subset, FS_CardinalityType
  <2>1. 0 \in Good  BY <1>1, <1>2
  <2>2. ASSUME NEW n \in 0 .. K - 1, n \in Good PROVE n + 1 \in Good
    <3>1. n \in 0 .. K /\ n + 1 \in 0 .. K /\ P[n + 1] = Prune(P[n]) /\ P[n + 1] \subseteq P[n]
      BY <1>1, <1>2 DEF Prune
    <3>2. CASE Same(n)
      <4>1. Same(n + 1)  BY <3>1, <3>2
      <4> QED  BY <3>1, <4>1
    <3>3. CASE P[n + 1] = P[n]
      <4>1. Same(n + 1)  BY <1>4, <3>1, <3>3
      <4> QED  BY <3>1, <4>1
    <3>4. CASE P[n + 1] # P[n] /\ Few(n)
      <4>1. Cardinality(P[n + 1]) < Cardinality(P[n])
        BY <2>0, <3>1, <3>4, FS_Subset
      <4>2. Few(n + 1)  BY <1>1, <2>0, <3>1, <3>4, <4>1
      <4> QED  BY <3>1, <4>2
    <3> QED  BY <2>2, <3>2, <3>3, <3>4
  <2>3. K \in 0 .. K  BY <1>1
  <2>4. K \in Good  BY <1>1, <2>1, <2>2, <2>3, UpToBound
  <2>5. ~ Few(K)
    <3>1. Cardinality(P[K]) # 0  BY <1>6, <2>0, <2>3, FS_EmptySet
    <3> QED  BY <1>1, <2>0, <2>3, <3>1
  <2>6. PICK A \in SUBSET S : P[K] \subseteq A /\ Prune(A) = A  BY <2>4, <2>5
  <2>7. Core(A)  BY <1>6, <2>6 DEF Core, Prune
  <2> QED  BY <2>7
<1> QED  BY <1>3, <1>5, <1>6

\* At most one more.
LEMMA OneMore ==
  ASSUME NEW E, IsFiniteSet(E), NEW p
  PROVE  /\ IsFiniteSet(E \cup {p}) /\ Cardinality(E \cup {p}) \in Nat
         /\ Cardinality(E \cup {p}) <= Cardinality(E) + 1
<1> PICK n : n = Cardinality(E)  OBVIOUS
<1>1. n \in Nat /\ n <= n + 1  BY FS_CardinalityType
<1>2. CASE p \in E
  <2>1. E \cup {p} = E  BY <1>2
  <2>2. Cardinality(E \cup {p}) = n /\ IsFiniteSet(E \cup {p})  BY <2>1, Zenon
  <2> QED  BY <1>1, <2>2, Zenon
<1>3. CASE p \notin E  BY <1>1, <1>3, FS_AddElement
<1> QED  BY <1>2, <1>3

\* Without a core there are at most as many edges as cells but one.
LEMMA CorelessSteps ==
  ASSUME NEW S, IsFiniteSet(S), S \subseteq Int \X Int, S # {}, ~ \E A \in SUBSET S : Core(A)
  PROVE  Cardinality(Steps(S)) <= 2 * Cardinality(S) - 2
<1> DEFINE d(B) == Cardinality(Steps(B))
           Few(B) == d(B) <= 2 * Cardinality(B) - 2
           T == {Cardinality(B) : B \in {B \in SUBSET S : B # {} /\ ~ Few(B)}}
<1>1. \A B \in SUBSET S : IsFiniteSet(B) /\ Cardinality(B) \in Nat /\ d(B) \in Nat
  BY FS_Subset, FS_CardinalityType, StepsFinite
<1>2. ASSUME T # {} PROVE FALSE
  <2>1. T \in SUBSET Nat
    <3> HIDE DEF Few
    <3> QED  BY <1>1
  <2>2. PICK t \in T : \A u \in T : t <= u
    <3> HIDE DEF T
    <3> QED  BY <1>2, <2>1, LeastNatural
  <2>3. PICK B \in SUBSET S : B # {} /\ ~ Few(B) /\ t = Cardinality(B)
    <3> HIDE DEF Few
    <3> QED  BY <2>2
  <2>4. PICK x \in B : ~ (Degree(B, x) >= 2)  BY <2>3 DEF Core
  <2> PICK N : N = NeighborsIn(B, x)  OBVIOUS
  <2>5. /\ N \subseteq B /\ IsFiniteSet(N) /\ Cardinality(N) \in Nat
        /\ ~ (Cardinality(N) >= 2)
    BY <1>1, <2>4, FS_Subset, FS_CardinalityType DEF NeighborsIn, Degree
  <2>6. \E y : N \subseteq {y}
    <3>1. CASE N = {}  BY <3>1
    <3>2. CASE N # {}
      <4> PICK y : y \in N  BY <3>2
      <4>1. ASSUME N # {y} PROVE FALSE
        <5>1. {y} \subseteq N /\ Cardinality({y}) = 1  BY FS_Singleton
        <5>2. Cardinality({y}) < Cardinality(N)  BY <2>5, <4>1, <5>1, FS_Subset
        <5> QED  BY <2>5, <5>1, <5>2
      <4> QED  BY <4>1
    <3> QED  BY <3>1, <3>2
  <2>7. PICK y : N \subseteq {y}  BY <2>6
  <2> PICK C : C = B \ {x}  OBVIOUS
  <2>8. C \in SUBSET S /\ IsFiniteSet(C) /\ Cardinality(C) = Cardinality(B) - 1
    BY <1>1, <2>3, FS_RemoveElement
  <2>9. Steps(B) \subseteq Steps(C) \cup {<<x, y>>, <<y, x>>}
    <3> SUFFICES ASSUME NEW e \in Steps(B), e \notin Steps(C)
                 PROVE  e \in {<<x, y>>, <<y, x>>}
      OBVIOUS
    <3>1. PICK a \in B, b \in B : e = <<a, b>> /\ b \in Around(a)  BY DEF Steps
    <3>2. a = x \/ b = x  BY <3>1 DEF Steps
    <3>3. CASE a = x
      <4>1. b \in N  BY <3>1, <3>3 DEF NeighborsIn
      <4> QED  BY <2>7, <3>1, <3>3, <4>1
    <3>4. CASE b = x
      <4>1. a \in Int \X Int /\ a \in Around(b)  BY <2>3, <3>1, AroundIsMutual
      <4>2. a \in N  BY <3>1, <3>4, <4>1 DEF NeighborsIn
      <4> QED  BY <2>7, <3>1, <3>4, <4>2
    <3> QED  BY <3>2, <3>3, <3>4
  <2>10. CASE C = {}
    <3>1. B = {x} /\ N \subseteq {x}  BY <2>5, <2>10
    <3>2. x \notin N
      <4>1. ASSUME x \in N PROVE FALSE  BY <2>3, <4>1, NeighborsMutual
      <4> QED  BY <4>1
    <3>3. Steps(B) = {}  BY <3>1, <3>2 DEF Steps, NeighborsIn
    <3>4. d(B) = 0 /\ Cardinality(B) = 1  BY <3>1, <3>3, FS_EmptySet, FS_Singleton
    <3> QED  BY <2>3, <3>4
  <2>11. CASE C # {}
    <3>1. Few(C)
      <4>1. ASSUME ~ Few(C) PROVE FALSE
        <5>1. Cardinality(C) \in T
          <6> HIDE DEF Few
          <6> QED  BY <2>8, <2>11, <4>1
        <5>2. t <= Cardinality(C)
          <6> HIDE DEF T
          <6> QED  BY <2>2, <5>1
        <5> QED  BY <1>1, <2>3, <2>8, <5>2
      <4> QED  BY <4>1
    <3>2. d(B) <= d(C) + 2
      <4> PICK E : E = Steps(C)  OBVIOUS
      <4> PICK p, q : p = <<x, y>> /\ q = <<y, x>>  OBVIOUS
      <4>1. IsFiniteSet(E) /\ Cardinality(E) \in Nat  BY <2>8, StepsFinite
      <4>2. IsFiniteSet(E \cup {p}) /\ Cardinality(E \cup {p}) \in Nat
            /\ Cardinality(E \cup {p}) <= Cardinality(E) + 1
        BY <4>1, OneMore
      <4> PICK F : F = E \cup {p}  OBVIOUS
      <4>3. IsFiniteSet(F \cup {q}) /\ Cardinality(F \cup {q}) \in Nat
            /\ Cardinality(F \cup {q}) <= Cardinality(F) + 1
        BY <4>2, OneMore
      <4>4. Steps(B) \subseteq F \cup {q}  BY <2>9
      <4>5. Cardinality(Steps(B)) <= Cardinality(F \cup {q})  BY <4>3, <4>4, FS_Subset
      <4>6. Cardinality(Steps(B)) \in Nat  BY <1>1
      <4> PICK e, f, g, h : /\ e = Cardinality(E) /\ f = Cardinality(F)
                            /\ g = Cardinality(F \cup {q}) /\ h = Cardinality(Steps(B))
        OBVIOUS
      <4>7. h \in Nat /\ e \in Nat /\ f \in Nat /\ g \in Nat /\ f <= e + 1 /\ g <= f + 1 /\ h <= g
        BY <4>1, <4>2, <4>3, <4>5, <4>6
      <4>8. h <= e + 2  BY ONLY <4>7
      <4> QED  BY <4>8
    <3>3. d(B) \in Nat /\ d(C) \in Nat /\ Cardinality(B) \in Nat /\ Cardinality(C) \in Nat
      BY <1>1, <2>8
    <3>4. Few(B)
      <4> HIDE DEF d
      <4> QED  BY <2>8, <3>1, <3>2, <3>3
    <3> QED  BY <2>3, <3>4
  <2> QED  BY <2>10, <2>11
<1>3. Few(S)
  <2>1. ASSUME ~ Few(S) PROVE FALSE
    <3>1. Cardinality(S) \in T
      <4> HIDE DEF Few
      <4> QED  BY <2>1
    <3> HIDE DEF T
    <3> QED  BY <1>2, <3>1
  <2> QED  BY <2>1
<1> QED  BY <1>3

\* Cells that hang together are counted a forest exactly where no cycle can be walked.
LEMMA ForestIsAcyclic ==
  ASSUME NEW S, IsFiniteSet(S), S \subseteq Int \X Int, ~ Severed(S)
  PROVE  IsForest(S) <=> ~ HasCycle(S)
<1> PICK n, e : n = Cardinality(S) /\ e = Cardinality(Steps(S))  OBVIOUS
<1>1. n \in Nat /\ e \in Nat  BY FS_CardinalityType, StepsFinite
<1>2. EdgeCount(S) = e \div 2  BY DEF EdgeCount, Steps
<1>3. CASE S = {}
  <2>1. IsForest(S)  BY <1>3 DEF IsForest, CycleRank
  <2>2. ~ \E A \in SUBSET S : Core(A)  BY <1>3 DEF Core
  <2> QED  BY <2>1, <2>2, CycleIsCore
<1>4. CASE S # {}
  <2>1. n # 0  BY <1>4, FS_EmptySet
  <2>2. IsForest(S) <=> (e \div 2) - n + 1 = 0  BY <1>2, <1>4 DEF IsForest, CycleRank
  <2>3. CASE HasCycle(S)
    <3>1. PICK A \in SUBSET S : Core(A)  BY <2>3, CycleIsCore
    <3> PICK a, k : a = Cardinality(A) /\ k = Cardinality(Steps(A))  OBVIOUS
    <3>2. IsFiniteSet(A) /\ a \in Nat  BY FS_Subset, FS_CardinalityType
    <3>3. k \in Nat  BY <3>2, StepsFinite
    <3>4. k >= 2 * a  BY <3>1, <3>2, CoreSteps DEF Core
    <3>5. e >= k + 2 * (n - a)  BY <3>1, TogetherGrows DEF Core
    <3>6. e >= 2 * n  BY <1>1, <3>2, <3>3, <3>4, <3>5
    <3>7. e \div 2 >= n  BY <1>1, <3>6
    <3>8. (e \div 2) - n + 1 # 0  BY <1>1, <3>7
    <3> QED  BY <2>2, <2>3, <3>8
  <2>4. CASE ~ HasCycle(S)
    <3>1. ~ \E A \in SUBSET S : Core(A)  BY <2>4, CycleIsCore
    <3>2. e <= 2 * n - 2  BY <1>4, <3>1, CorelessSteps
    <3> PICK x : x \in S  BY <1>4
    <3> PICK A : A = {x}  OBVIOUS
    <3> PICK k : k = Cardinality(Steps(A))  OBVIOUS
    <3>3. IsFiniteSet(A) /\ Cardinality(A) = 1  BY FS_Singleton
    <3>4. k \in Nat  BY <3>3, StepsFinite
    <3>5. e >= k + 2 * (n - 1)
      <4>1. A \in SUBSET S /\ A # {}  OBVIOUS
      <4> QED  BY <3>3, <4>1, TogetherGrows
    <3>6. e = 2 * n - 2  BY <1>1, <3>2, <3>4, <3>5
    <3>7. e \div 2 = n - 1  BY <1>1, <2>1, <3>6
    <3> QED  BY <1>1, <2>2, <2>4, <3>7
  <2> QED  BY <2>3, <2>4
<1> QED  BY <1>3, <1>4

\* components.articulation_points and cycles.is_forest, on any finite set of cells
\* that does not fall apart: the one answers with exactly the cells whose loss breaks
\* it up, the other says forest exactly where no cycle can be walked.
THEOREM MeasuresAreExact ==
  ASSUME NEW S, IsFiniteSet(S), S \subseteq Int \X Int, ~ Severed(S)
  PROVE  MeasuresHold(S)
BY ArticulationIsExact, ForestIsAcyclic DEF MeasuresHold

\* What a search finds hangs together.
LEMMA ComponentHangs ==
  ASSUME NEW cells, IsFiniteSet(cells), cells \subseteq Int \X Int, NEW start \in cells
  PROVE  /\ ComponentOf(cells, start) \subseteq cells
         /\ ~ Severed(ComponentOf(cells, start))
<1> PICK C : C = ComponentOf(cells, start)  OBVIOUS
<1> PICK K : K = Cardinality(cells)  OBVIOUS
<1>1. K \in Nat \ {0} /\ \A n \in 0 .. K : Layers(cells, start)[n] \subseteq cells
  BY LayersGrow
<1>2. C = Layers(cells, start)[K]  BY DEF ComponentOf
<1>31. C \subseteq cells
  <2>1. K \in 0 .. K  BY <1>1
  <2> QED  BY <1>1, <1>2, <2>1
<1>32. ClosedIn(cells, C)  BY SearchEnds
<1>3. C \subseteq cells /\ ClosedIn(cells, C)  BY <1>31, <1>32
<1>4. \A X : start \in X /\ ClosedIn(cells, X) => C \subseteq X
  BY <1>1, <1>2, SearchFindsNoMore
<1>5. ASSUME NEW X \in SUBSET C, ClosedIn(C, X) PROVE ClosedIn(cells, X)
  <2>1. \A x \in X : NeighborsIn(cells, x) \subseteq C  BY <1>3 DEF ClosedIn
  <2> QED  BY <1>3, <1>5, <2>1 DEF ClosedIn, NeighborsIn
<1>6. ASSUME NEW X \in SUBSET C, ClosedIn(C, X) PROVE ClosedIn(C, C \ X)
  <2> SUFFICES ASSUME NEW x \in C \ X, NEW y \in NeighborsIn(C, x), y \in X PROVE FALSE
    BY DEF ClosedIn, NeighborsIn
  <2>1. C \subseteq Int \X Int  BY <1>3
  <2>2. x \in NeighborsIn(C, y)  BY <2>1, NeighborsMutual
  <2> QED  BY <1>6, <2>2 DEF ClosedIn
<1>7. ASSUME NEW X \in SUBSET C, X # {}, X # C, ClosedIn(C, X) PROVE FALSE
  <2>1. CASE start \in X  BY <1>4, <1>5, <1>7, <2>1
  <2>2. CASE start \notin X
    <3>1. start \in C
      <4>1. C \in SUBSET C /\ ClosedIn(C, C)  BY DEF ClosedIn, NeighborsIn
      <4>2. start \in Layers(cells, start)[0]  BY LayersGrow
      <4>3. 0 \in 0 .. K  BY <1>1
      <4> QED  BY <1>2, <4>2, <4>3, LayersNest
    <3> PICK Y : Y = C \ X  OBVIOUS
    <3>2. ClosedIn(C, Y) /\ start \in Y /\ Y \in SUBSET C  BY <1>6, <1>7, <2>2, <3>1
    <3> QED  BY <1>4, <1>5, <1>7, <3>2
  <2> QED  BY <2>1, <2>2
<1> QED  BY <1>3, <1>7 DEF Severed

\* What the brains measure is what the board is, on a board of any size: wherever the
\* thief stands and whatever has been sealed, the search of Hopcroft and Tarjan names
\* exactly the cells whose loss breaks the thief's region up, and counting cells and
\* edges tells a region without a cycle from one with (strategy/graph/components.py:
\* 87-141, cycles.py:23-40).
THEOREM MeasuresAreTrue == Spec => []FeaturesDescribeTheBoard
<1>1. BoardInv => FeaturesDescribeTheBoard
  <2> SUFFICES ASSUME BoardInv, Open
               PROVE  ThiefRegion(board["police"]) \in Measured
    BY DEF FeaturesDescribeTheBoard
  <2> PICK s : s = board["police"]  OBVIOUS
  <2>1. s \in GameState  BY DEF BoardInv, EnginesAgree, Playable
  <2> PICK free : free = Passable(s.barriers)  OBVIOUS
  <2>2. free \subseteq Cells /\ IsFiniteSet(free) /\ free \subseteq Int \X Int
    BY CellsAreFinite, CellsAre, FS_Subset DEF Passable
  <2> PICK R : R = ThiefRegion(s)  OBVIOUS
  <2>3. R \subseteq free /\ ~ Severed(R)
    <3>1. CASE s.thief \in free
      <4>1. R = ComponentOf(free, s.thief)  BY <3>1 DEF ThiefRegion
      <4> QED  BY <2>2, <3>1, <4>1, ComponentHangs
    <3>2. CASE s.thief \notin free
      <4>1. R = {}  BY <3>2 DEF ThiefRegion
      <4> QED  BY <4>1 DEF Severed
    <3> QED  BY <3>1, <3>2
  <2>4. IsFiniteSet(R) /\ R \subseteq Int \X Int  BY <2>2, <2>3, FS_Subset
  <2>5. MeasuresHold(R)  BY <2>3, <2>4, MeasuresAreExact
  <2> QED  BY <2>2, <2>3, <2>5 DEF Measured
<1> QED  BY <1>1, BoardInvariance, PTL
=============================================================================
