------------------------------- MODULE Board -------------------------------
(***************************************************************************)
(* The rules of the game: the legal actions of a joint turn, its           *)
(* resolution, its terminal predicates, and the words an action travels    *)
(* in.  Source: shared/board.py, sdk/actions.py, sdk/resolve.py,           *)
(* sdk/terminal.py, shared/outcome.py, network/move_payload.py and the     *)
(* codec half of network/turn_resolve.py.  Everything here is pure; a      *)
(* board is the record GameState and a cell is <<row, column>>.            *)
(***************************************************************************)
EXTENDS Integers

CONSTANTS
  None,                \* Python's None
  BoardSize,           \* game_params.json, Table 13: the two peers agree on
  BarrierQuota,        \* all five before the game (the handshake digest)
  SurvivalThreshold,
  CopStart,
  ThiefStart

Cells == (0 .. BoardSize - 1) \X (0 .. BoardSize - 1)

\* What the negotiated parameters satisfy in every agreed file; the loader
\* itself checks presence and type only.
ASSUME BoardAssumption ==
  /\ BoardSize \in Nat /\ BarrierQuota \in Nat
  /\ SurvivalThreshold \in Nat \ {0}
  /\ CopStart \in Cells /\ ThiefStart \in Cells /\ CopStart # ThiefStart

OnBoard(cell) == cell \in Cells

GameState == [cop : Cells, thief : Cells, barriers : SUBSET Cells,
              placed : 0 .. BarrierQuota, turn : Nat]

MakeState == [cop |-> CopStart, thief |-> ThiefStart, barriers |-> {},
              placed |-> 0, turn |-> 0]

-----------------------------------------------------------------------------
(* Headings.  A negative sign mirrors an axis for another agreed origin.    *)

Words == {"north", "south", "east", "west", "stay"}
Origins == {"top-left", "bottom-left", "top-right", "bottom-right"}
DefaultOrigin == "top-left"

BaseVector == [north |-> <<-1, 0>>, south |-> <<1, 0>>, east |-> <<0, 1>>,
               west |-> <<0, -1>>, stay |-> <<0, 0>>]

AxisSigns(origin) ==
  << IF origin \in {"bottom-left", "bottom-right"} THEN -1 ELSE 1,
     IF origin \in {"top-right", "bottom-right"} THEN -1 ELSE 1 >>

VectorFor(word, origin) ==
  << BaseVector[word][1] * AxisSigns(origin)[1],
     BaseVector[word][2] * AxisSigns(origin)[2] >>

Shift(cell, word, origin) ==
  << cell[1] + VectorFor(word, origin)[1], cell[2] + VectorFor(word, origin)[2] >>

\* The four orthogonal neighbours of a cell, on the board or not.
Around(cell) ==
  { <<cell[1] - 1, cell[2]>>, <<cell[1] + 1, cell[2]>>,
    <<cell[1], cell[2] - 1>>, <<cell[1], cell[2] + 1>> }

-----------------------------------------------------------------------------
(* Actions.  A cop action is a move XOR a barrier.                          *)

LegalMoves(s, pos) ==
  {pos} \cup { c \in Around(pos) : OnBoard(c) /\ c \notin s.barriers }

ThiefActions(s) == LegalMoves(s, s.thief)

BarrierCells(s) ==
  { c \in {s.cop} \cup Around(s.cop) :
      /\ s.placed < BarrierQuota
      /\ OnBoard(c) /\ c \notin s.barriers }

MoveAction(cell)    == [kind |-> "move", cell |-> cell]
BarrierAction(cell) == [kind |-> "barrier", cell |-> cell]

CopActions(s) ==
  { MoveAction(c) : c \in LegalMoves(s, s.cop) }
    \cup { BarrierAction(c) : c \in BarrierCells(s) }

\* CopAction.destination: unchanged when placing.
Destination(s, a) == IF a.kind = "barrier" THEN s.cop ELSE a.cell

-----------------------------------------------------------------------------
(* One joint turn.                                                          *)

Seals(a, cell) == a.kind = "barrier" /\ a.cell = cell

\* The thief chose the very cell being sealed: it is held where it was.
Raced(s, a, move) == Seals(a, move) /\ move # s.thief

Resolved(s, a, move) ==
  [cop      |-> Destination(s, a),
   thief    |-> IF Raced(s, a, move) THEN s.thief ELSE move,
   barriers |-> s.barriers \cup (IF a.kind = "barrier" THEN {a.cell} ELSE {}),
   placed   |-> s.placed + (IF a.kind = "barrier" THEN 1 ELSE 0),
   turn     |-> s.turn + 1]

\* The two predicates the book leaves open; BookOnly when nothing was agreed.
Rules    == [race : BOOLEAN, swap : BOOLEAN]
BookOnly == [race |-> FALSE, swap |-> FALSE]

IsWalledIn(cell, barriers) ==
  \A c \in Around(cell) : OnBoard(c) => c \in barriers

\* Mutant: a seal captures only the thief that ends on it.
CapturedWhereItLands(pre, a, move, post, rules) ==
  \/ rules.race /\ Raced(pre, a, move)
  \/ post.cop = post.thief
  \/ rules.swap /\ post.cop = pre.thief /\ post.thief = pre.cop
  \/ IsWalledIn(post.thief, post.barriers)

Captured(pre, a, move, post, rules) ==
  \/ Seals(a, pre.thief)
  \/ rules.race /\ Raced(pre, a, move)
  \/ post.cop = post.thief
  \/ rules.swap /\ post.cop = pre.thief /\ post.thief = pre.cop
  \/ IsWalledIn(post.thief, post.barriers)

\* A capture on the last turn is a capture, not a survival.
TerminalOutcome(pre, a, move, rules) ==
  LET post == Resolved(pre, a, move)
  IN  IF Captured(pre, a, move, post, rules) THEN "capture"
      ELSE IF post.turn >= SurvivalThreshold THEN "survival"
      ELSE None

\* resolve_turn raises on an illegal action instead of absorbing it.
Valid(s, a, move) == move \in ThiefActions(s) /\ a \in CopActions(s)

-----------------------------------------------------------------------------
(* The words on the wire.  Encode names a target by the heading from the    *)
(* mover's own cell; Decode answers Rejected for what leaves the board and  *)
(* for anything that is neither a heading nor a legacy coordinate pair one  *)
(* step away.                                                              *)

Rejected == [ok |-> FALSE, cell |-> None, kind |-> None]

WordFor(pre, post, origin) ==
  LET fitting == { w \in Words : Shift(pre, w, origin) = post }
  IN  IF fitting = {} THEN None ELSE CHOOSE w \in fitting : TRUE

Encode(pre, post, kind, origin) ==
  [kind |-> kind, word |-> WordFor(pre, post, origin)]

\* Python's None is no cell, no heading and no encoded half.
ASSUME NoneIsApart ==
  /\ None \notin Cells /\ None \notin Words
  /\ None \notin [kind : {"move", "barrier"}, word : Words]
  /\ None \notin {"capture", "survival"}

\* A payload is [kind, word], or the legacy [x, y], which is always a move.
Legacy(payload) == "x" \in DOMAIN payload
WordIn(payload, pre, origin) ==
  IF Legacy(payload) THEN WordFor(pre, <<payload.x, payload.y>>, origin)
                     ELSE payload.word
KindIn(payload) == IF Legacy(payload) THEN "move" ELSE payload.kind

Decode(payload, pre, origin) ==
  LET word == WordIn(payload, pre, origin)
  IN  IF word \notin Words \/ ~ OnBoard(Shift(pre, word, origin))
      THEN Rejected
      ELSE [ok |-> TRUE, cell |-> Shift(pre, word, origin), kind |-> KindIn(payload)]

\* A mover is known by the cell it stands on: nobody else can be there.
IsLegal(pre, resolved, s) ==
  /\ resolved.ok
  /\ IF resolved.kind = "barrier"
     THEN pre = s.cop /\ resolved.cell \in BarrierCells(s)
     ELSE \/ pre = s.cop   /\ resolved.cell \in LegalMoves(s, s.cop)
          \/ pre # s.cop /\ pre = s.thief /\ resolved.cell \in ThiefActions(s)

\* The action dictionary that is sealed and revealed: "move" is always there,
\* a "stay" when a barrier is placed.
BuildActionPayload(pre, a) ==
  [move    |-> Encode(pre, IF a.kind = "barrier" THEN pre ELSE a.cell, "move", DefaultOrigin),
   barrier |-> IF a.kind = "barrier" THEN Encode(pre, a.cell, "barrier", DefaultOrigin)
                                     ELSE None]

\* Mutant: the barrier half of a revealed action is not read.
DecodeRevealedMoveOnly(payload, pre, s) ==
  LET move == Decode(payload.move, pre, DefaultOrigin)
  IN  IF IsLegal(pre, move, s) THEN [ok |-> TRUE, move |-> move.cell, barrier |-> None]
                               ELSE [ok |-> FALSE]

\* Both halves must be legal, or the whole turn is rejected for its sender.
DecodeRevealed(payload, pre, s) ==
  LET move == Decode(payload.move, pre, DefaultOrigin)
      seal == Decode(payload.barrier, pre, DefaultOrigin)
  IN  IF ~ IsLegal(pre, move, s) THEN [ok |-> FALSE]
      ELSE IF payload.barrier = None
           THEN [ok |-> TRUE, move |-> move.cell, barrier |-> None]
      ELSE IF ~ IsLegal(pre, seal, s) THEN [ok |-> FALSE]
      ELSE [ok |-> TRUE, move |-> move.cell, barrier |-> seal.cell]

\* record_action: the barrier, when there is one, is the whole cop action.
RecordCop(decoded) ==
  IF decoded.barrier # None THEN BarrierAction(decoded.barrier)
                            ELSE MoveAction(decoded.move)

=============================================================================
