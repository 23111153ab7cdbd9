----------------------------- MODULE BoardGame -----------------------------
(***************************************************************************)
(* A game as the two copies of the board see it.  Each peer chooses an     *)
(* action on its own copy, puts it into words, decodes the other's words   *)
(* on its own copy, and resolves (take_my_turn, await_opponent_turn,       *)
(* maybe_resolve).  Which await runs when is CommitReveal's business: the  *)
(* exchange it proves hands each side the other's one sealed action, so a  *)
(* turn is one step here.  Beside the boards: the frames the replay viewer *)
(* rebuilds from the two sealed logs (services/reporting/replay_board.py). *)
(***************************************************************************)
EXTENDS Strategy

VARIABLES
  board,      \* board[p]: p's copy, ctx.state
  out,        \* out[p]: the outcome p computed, None while the game is open
  rules,      \* rules[p]: p's resolution.json, not part of the handshake digest
  rejected,   \* a revealed action was refused by its receiver
  replay,     \* replay[p]: the viewer's tracks after the records read so far
  raced       \* a thief has been held in front of a seal

gameVars == <<board, out, rules, rejected, replay, raced>>

Peers == {"police", "thief"}
EngineRole(p) == IF p = "police" THEN "cop" ELSE "thief"
Foe(p) == IF p = "police" THEN "thief" ELSE "police"
CellOf(p, s) == IF p = "police" THEN s.cop ELSE s.thief

-----------------------------------------------------------------------------
(* The viewer.  It has the start cells, the own positions that were sealed, *)
(* and the revealed moves; the opponent's cells it must integrate.          *)

Clamp(i) == IF i < 0 THEN 0 ELSE IF i > BoardSize - 1 THEN BoardSize - 1 ELSE i
ShiftClamped(cell, word) ==
  << Clamp(cell[1] + BaseVector[word][1]), Clamp(cell[2] + BaseVector[word][2]) >>

ReplayStart(p) ==
  [own |-> CellOf(p, MakeState), opp |-> CellOf(Foe(p), MakeState), barriers |-> {}]

\* A seal lands beside the cell of its actor, before the move half.
SealOf(cell, payload) ==
  IF payload.barrier = None THEN {} ELSE {ShiftClamped(cell, payload.barrier.word)}

\* Mutant: only the own barriers are drawn.
ReplayAdvanceOwnSeals(r, position, own, received) ==
  [own      |-> ShiftClamped(position, own.move.word),
   opp      |-> ShiftClamped(r.opp, received.move.word),
   barriers |-> r.barriers \cup SealOf(position, own)]

\* The record of a turn: the own cell sealed in it corrects the own track,
\* nothing corrects the opponent's.
ReplayAdvance(r, position, own, received) ==
  [own      |-> ShiftClamped(position, own.move.word),
   opp      |-> ShiftClamped(r.opp, received.move.word),
   barriers |-> r.barriers \cup SealOf(position, own) \cup SealOf(r.opp, received)]

-----------------------------------------------------------------------------
(* A turn.                                                                  *)

Open == \A p \in Peers : out[p] = None /\ ~ rejected

GameInit ==
  /\ board = [p \in Peers |-> MakeState]
  /\ out = [p \in Peers |-> None]
  /\ rules \in [Peers -> Rules]
  /\ rejected = FALSE
  /\ replay = [p \in Peers |-> ReplayStart(p)]
  /\ raced = FALSE

\* What each side puts on the wire for action a and move m.
Spoken(a, m) ==
  [police |-> BuildActionPayload(board["police"].cop, a),
   thief  |-> BuildActionPayload(board["thief"].thief, MoveAction(m))]

\* What p makes of the other's words, on its own copy.
Heard(p, spoken) ==
  DecodeRevealed(spoken[Foe(p)], CellOf(Foe(p), board[p]), board[p])

\* The joint action p resolves: its own, and the one it decoded.
JointAt(p, a, m, heard) ==
  IF p = "police" THEN <<a, heard[p].move>> ELSE <<RecordCop(heard[p]), m>>

Play(a, m) ==
  LET spoken == Spoken(a, m)
      heard  == [p \in Peers |-> Heard(p, spoken)]
      joint  == [p \in Peers |-> JointAt(p, a, m, heard)]
  IN  /\ Open
      /\ IF \A p \in Peers : heard[p].ok
         THEN /\ board' = [p \in Peers |-> Resolved(board[p], joint[p][1], joint[p][2])]
              /\ out' = [p \in Peers |->
                           TerminalOutcome(board[p], joint[p][1], joint[p][2], rules[p])]
              /\ replay' = [p \in Peers |->
                              ReplayAdvance(replay[p], CellOf(p, board[p]),
                                            spoken[p], spoken[Foe(p)])]
              /\ raced' = (raced \/ Raced(board["police"], a, m))
              /\ UNCHANGED rejected
         ELSE /\ rejected' = TRUE
              /\ UNCHANGED <<board, out, replay, raced>>
      /\ UNCHANGED rules

-----------------------------------------------------------------------------
(* Properties.                                                              *)

\* A board in the middle of a game: nobody stands where the other stands,
\* the thief never stands on a seal, a seal was paid for with quota, and the
\* clock has not run out.  resolve_turn keeps it (sdk/resolve.py:29-84), its
\* six predicates end the game in every other case.
Playable(s) ==
  /\ s \in GameState
  /\ s.cop # s.thief
  /\ s.thief \notin s.barriers
  /\ Cardinality(s.barriers) = s.placed
  /\ s.turn < SurvivalThreshold

\* Two machines that share nothing but words play one game: both copies stay
\* equal through the words (rule 27: no coordinate travels), an action chosen
\* legally is never refused by the other side, an open game is playable, and
\* the two engines call a turn differently only where nothing was agreed:
\* resolution.json is compared by nobody before the game
\* (shared/resolution.py:8-12), so a barrier race or a swap may end the game
\* on one machine alone (sdk/terminal.py:65-88).
EnginesAgree ==
  /\ ~ rejected
  /\ board["police"] = board["thief"]
  /\ Open => Playable(board["police"])
  /\ out["police"] # out["thief"] =>
       \/ raced /\ rules["police"].race # rules["thief"].race
       \/ rules["police"].swap # rules["thief"].swap

\* A thief beside the cop is lost while quota remains: some seal captures it
\* wherever it goes, by the book's rules alone (strategy/features.py:100-114,
\* the forced-capture leaf).
KillRangeIsForced ==
  LET s == board["police"]
  IN  Open /\ KillRange(s) =>
        \E a \in CopActions(s) : \A m \in ThiefActions(s) :
          TerminalOutcome(s, a, m, BookOnly) = "capture"

\* What the brains measure is what the board is, for every region a thief can
\* be in: a chokepoint is a cell whose loss breaks the region up, and a region
\* counts as a forest exactly when no cycle can be walked in it
\* (strategy/graph/components.py:87-141, cycles.py:23-40).
Measured == { cells \in SUBSET Cells : MeasuresHold(cells) }
FeaturesDescribeTheBoard ==
  LET s == board["police"] IN Open => ThiefRegion(s) \in Measured

\* The viewer's frames are the positions of the game (services/reporting/
\* replay_board.py:66-68).
Exact(p) ==
  replay[p] = [own |-> CellOf(p, board[p]), opp |-> CellOf(Foe(p), board[p]),
               barriers |-> board[p].barriers]
ReplayShowsTheGame == \A p \in Peers : Exact(p)

\* ... and they are, in both logs, until a thief was held in front of a seal:
\* resolve_turn holds it, the viewer moves it.
ReplayExactUntilRace == ~ raced => ReplayShowsTheGame

\* "Where it exists, the pure maximin pair IS the equilibrium": no row beats
\* the value against the column the solver returns (strategy/equilibrium.py:
\* 28-33).  On the last turn before the threshold the leaves are the two
\* outcomes alone.
SaddleIsSafe ==
  LET s == board["police"]
      M == PayoffMatrix(s)
      saddle == PureSaddle(M)
  IN  Open /\ s.turn = SurvivalThreshold - 1 /\ saddle # None =>
        ColMax(M, saddle[2]) = Upper(M)
=============================================================================
