------------------------------ MODULE Strategy ------------------------------
(***************************************************************************)
(* The brains that choose an action on a (believed) board.  Source:        *)
(* strategy/features.py, matrix.py, equilibrium.py, valuebrain.py and      *)
(* naive.py.  A brain is the set of actions it may choose.                 *)
(*                                                                         *)
(* Numbers: a feature is counted in Units, a weight in hundredths.  The    *)
(* code squashes a linear value with tanh; the solver only compares leaves,*)
(* so a leaf stays unsquashed here and the two terminal values, which tanh *)
(* never reaches, are the two ends of the scale.                           *)
(***************************************************************************)
EXTENDS BoardGraph

CONSTANTS
  Weights,       \* fifteen hundredths: the prior, or a trained vector
  Unit,          \* one, for a feature: every denominator below divides it
  LeafMode,      \* strategy.json: "stock", "cautious" or "adaptive"
  RelaxTurn

LeafModes == {"stock", "cautious", "adaptive"}

\* The loader refuses another mode and a vector of another length.
ASSUME StrategyAssumption ==
  /\ LeafMode \in LeafModes /\ RelaxTurn \in Nat
  /\ Weights \in [1 .. 15 -> Int]
  /\ Unit \in Nat \ {0}

-----------------------------------------------------------------------------
(* Features.                                                                *)

Share(n, of) == n * (Unit \div of)
Flag(b) == IF b THEN Unit ELSE 0

Gap(s) == LET d(i, j) == IF i < j THEN j - i ELSE i - j
          IN  d(s.cop[1], s.thief[1]) + d(s.cop[2], s.thief[2])

BarriersLeft(s) == BarrierQuota - s.placed
TurnsLeft(s) == IF s.turn < SurvivalThreshold THEN SurvivalThreshold - s.turn ELSE 0

KillRange(s) == BarriersLeft(s) > 0 /\ Gap(s) = 1

Parity(s) == (s.cop[1] + s.cop[2] + s.thief[1] + s.thief[2]) % 2 = 0

ThiefRegion(s) ==
  LET free == Passable(s.barriers)
  IN  IF s.thief \in free THEN ComponentOf(free, s.thief) ELSE {}

Phi(s) ==
  LET free    == Passable(s.barriers)
      copFree == PassableForCop(s.barriers, s.cop)
      area    == ThiefRegion(s)
      hops    == Distances(copFree, s.cop)
      far     == s.thief \notin DOMAIN hops
      sides   == Territory(free, s.cop, s.thief)
      cuts    == ArticulationPoints(area)
      total   == BoardSize * BoardSize
      loops   == (BoardSize - 1) * (BoardSize - 1)
      around(cells, c) == Cardinality(NeighborsIn(cells, c))
  IN  << Unit,
         IF far THEN -Unit ELSE Share(-hops[s.thief], 2 * BoardSize),
         IF far THEN -Unit ELSE 0,
         Share(-around(free, s.thief), 4),
         Share(sides[1] - sides[2], total),
         Share(-Cardinality(area), total),
         Share(-CycleRank(area), loops),
         Flag(area # {} /\ IsForest(area)),
         IF area = {} THEN 0 ELSE Share(Cardinality(cuts), Cardinality(area)),
         Flag(s.thief \in cuts),
         Share(BarriersLeft(s), BarrierQuota),
         Share(TurnsLeft(s), SurvivalThreshold),
         Flag(Parity(s)),
         Share(around(copFree, s.cop), 4),
         Flag(KillRange(s)) >>

LinearValue(s) ==
  LET feature == Phi(s)
  IN  MapThenSumSet(LAMBDA i : Weights[i] * feature[i], 1 .. 15)

-----------------------------------------------------------------------------
(* The payoff matrix of a joint turn, from the cop's side.                  *)

Scale == 100 * Unit
CaptureValue  == 1000 * Scale
SurvivalValue == -1000 * Scale
\* 0.98, unsquashed: 2.2975... of the scale.
ForcedCaptureValue == 2 * Scale + (Scale * 297) \div 1000

LeafValue(s, outcome, forced) ==
  IF outcome = "capture" THEN CaptureValue
  ELSE IF outcome = "survival" THEN SurvivalValue
  ELSE IF forced /\ KillRange(s) THEN ForcedCaptureValue
  ELSE LinearValue(s)

ForcedLeaf(s) ==
  \/ LeafMode = "cautious"
  \/ LeafMode = "adaptive" /\ (s.placed > 0 \/ s.turn < RelaxTurn)

\* The order in which actions are tried is the order of the indices, and of
\* the tie-breaks.
North(c) == <<c[1] - 1, c[2]>>
South(c) == <<c[1] + 1, c[2]>>
East(c)  == <<c[1], c[2] + 1>>
West(c)  == <<c[1], c[2] - 1>>
MovesInOrder(s, c) ==
  SelectSeq(<<North(c), South(c), East(c), West(c), c>>, LAMBDA x : x \in LegalMoves(s, c))
SealsInOrder(s) ==
  LET c == s.cop
  IN  SelectSeq(<<c, North(c), South(c), West(c), East(c)>>, LAMBDA x : x \in BarrierCells(s))

Columns(s) == MovesInOrder(s, s.thief)
Rows(s) ==
  LET moves == MovesInOrder(s, s.cop)
      seals == SealsInOrder(s)
  IN  [i \in 1 .. Len(moves) |-> MoveAction(moves[i])]
        \o [i \in 1 .. Len(seals) |-> BarrierAction(seals[i])]

\* The brain's own rules: a race captures, a swap does not, whatever
\* resolution.json says.
Preferred == [race |-> TRUE, swap |-> FALSE]

PayoffMatrix(s) ==
  LET rows == Rows(s)
      cols == Columns(s)
      forced == ForcedLeaf(s)
  IN  [i \in DOMAIN rows |-> [j \in DOMAIN cols |->
         LeafValue(Resolved(s, rows[i], cols[j]),
                   TerminalOutcome(s, rows[i], cols[j], Preferred), forced)]]

-----------------------------------------------------------------------------
(* The solver.                                                              *)

RowMin(M, i) == Min({ M[i][j] : j \in DOMAIN M[i] })
ColMax(M, j) == Max({ M[i][j] : i \in DOMAIN M })
Lower(M) == Max({ RowMin(M, i) : i \in DOMAIN M })
Upper(M) == Min({ ColMax(M, j) : j \in DOMAIN M[1] })

\* A saddle where the bounds meet: the first row that attains the lower one,
\* and the first column that is least in that row.
PureSaddle(M) ==
  LET row == Min({ i \in DOMAIN M : RowMin(M, i) = Lower(M) })
  IN  IF Lower(M) # Upper(M) THEN None
      ELSE << row, Min({ j \in DOMAIN M[row] : M[row][j] = RowMin(M, row) }) >>

\* Regret matching averages from the uniform strategy on: no action ever has
\* probability zero.
Solve(M) ==
  LET saddle == PureSaddle(M)
  IN  IF saddle = None THEN [rows |-> DOMAIN M, cols |-> DOMAIN M[1]]
      ELSE [rows |-> {saddle[1]}, cols |-> {saddle[2]}]

-----------------------------------------------------------------------------
(* The brains.                                                              *)

ValueSearch(s, role) ==
  LET solved == Solve(PayoffMatrix(s))
  IN  IF role = "cop" THEN { Rows(s)[i] : i \in solved.rows }
                      ELSE { Columns(s)[j] : j \in solved.cols }

Far == BoardSize * BoardSize
ReachFrom(s, cell, to) ==
  LET hops == Distances(Passable(s.barriers), cell)
  IN  IF to \in DOMAIN hops THEN hops[to] ELSE Far

\* One step along a shortest way; or, half of the time, a seal on the thief's
\* cell or beside it.
Chase(s) ==
  { MoveAction(c) : c \in { c \in LegalMoves(s, s.cop) :
      \A d \in LegalMoves(s, s.cop) : ReachFrom(s, s.thief, c) <= ReachFrom(s, s.thief, d) } }
ChaserCop(s) ==
  Chase(s) \cup { BarrierAction(c) : c \in { c \in BarrierCells(s) : ReachFrom(s, s.thief, c) <= 1 } }

GreedyEvader(s) ==
  { c \in ThiefActions(s) :
      \A d \in ThiefActions(s) : ReachFrom(s, s.cop, c) >= ReachFrom(s, s.cop, d) }

Chosen(s, role) ==
  ValueSearch(s, role) \cup (IF role = "cop" THEN ChaserCop(s) ELSE GreedyEvader(s))
=============================================================================
