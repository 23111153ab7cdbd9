----------------------------- MODULE BeliefGame -----------------------------
(***************************************************************************)
(* The game with the belief layer that chooses the actions and feeds the   *)
(* live views: strategy/belief.py, belief_motion.py, belief_hint.py,       *)
(* belief_scent.py, beliefadapter.py, display_belief.py,                   *)
(* network/turn_language.py and the belief panel of sdk/view_builder.py.   *)
(* A probability grid is abstracted to its support, the set of cells with  *)
(* positive mass: products and convex mixtures of grids act on supports by *)
(* intersection and union, and what a view may give away is a question of  *)
(* support.  The solver (strategy/valuebrain.py) may choose any row of its *)
(* matrix, so a choice is any action of the believed board.                *)
(***************************************************************************)
EXTENDS BoardGame, LocalView

CONSTANT MinSupport       \* belief.json, display.min_support_cells
ASSUME MinSupportAssumption == MinSupport \in Nat

VARIABLES
  strat,         \* strat[p]: support of p's strategy belief about its opponent
  display,       \* display[p]: support of the belief kept for the views
  contaminated   \* contaminated[p]: p's strategy belief has seen an exact cell

beliefVars == <<strat, display, contaminated>>
vars == <<gameVars, beliefVars>>

-----------------------------------------------------------------------------
(* One map.                                                                 *)

\* Motion: hypothesise the role on every credited cell, the rest of the board
\* as it is.  A barrier placed leaves the cop where it stands.
Hypothesis(s, role, h) == IF role = "cop" THEN [s EXCEPT !.cop = h]
                                          ELSE [s EXCEPT !.thief = h]
Destinations(s, role) ==
  IF role = "thief" THEN ThiefActions(s)
                    ELSE { Destination(s, a) : a \in CopActions(s) }
Spread(S, role, s) == UNION { Destinations(Hypothesis(s, role, h), role) : h \in S }

\* Sealed cells lose their mass first; when nothing is left, the open cells
\* share it, and a board without open cells goes back to uniform.
ClipBarriers(S, barriers) ==
  IF S \ barriers # {} THEN S \ barriers
  ELSE IF Cells \ barriers # {} THEN Cells \ barriers
  ELSE Cells

\* Mutant: no motion is predicted, the opponent is taken to stand still.
PredictStill(S, role, s) == ClipBarriers(S, s.barriers)

Predict(S, role, s) == Spread(ClipBarriers(S, s.barriers), role, s)

\* A reading that explains nothing leaves the map as it was.
Update(S, positive) == IF S \cap positive = {} THEN S ELSE S \cap positive

\* The scent reading adds to a neutral 1.0, and a decoded hint is mixed with
\* uniform: both are positive everywhere.  (A hint without confidence is zero
\* everywhere, and explains nothing.)
ScentReading == Cells
HintReading  == Cells

-----------------------------------------------------------------------------
(* A turn of the adapter.                                                   *)

\* known_opponent_cell: the initiator knows the last revealed move; the
\* responder decides when only a hash has arrived, so it never knows one.
KnownCell(p) ==
  IF p = "police" /\ board[p].turn > 0 THEN board[p].thief ELSE None

Observed(p) == IF KnownCell(p) = None THEN strat[p] ELSE {KnownCell(p)}

Believed(p) ==
  Update(Update(Predict(Observed(p), EngineRole(Foe(p)), board[p]), ScentReading),
         HintReading)

Displayed(p) ==
  Update(Predict(display[p], EngineRole(Foe(p)), board[p]), HintReading)

\* The board handed to the brain has the opponent on a sampled cell, on which
\* no legal action of one's own depends.
Available(p) == IF p = "police" THEN CopActions(board[p]) ELSE ThiefActions(board[p])

\* Both brains observe, predict and correct before they decide.
Observe ==
  /\ strat' = [p \in Peers |-> Believed(p)]
  /\ display' = [p \in Peers |-> Displayed(p)]
  /\ contaminated' = [p \in Peers |-> contaminated[p] \/ KnownCell(p) # None]

Init ==
  /\ GameInit
  /\ strat = [p \in Peers |-> Cells]
  /\ display = [p \in Peers |-> Cells]
  /\ contaminated = [p \in Peers |-> FALSE]

Next ==
  /\ Open
  /\ Observe
  /\ \E a \in Available("police"), m \in Available("thief") : Play(a, m)

Spec == Init /\ [][Next]_vars

-----------------------------------------------------------------------------
(* What a view publishes, after the turn resolved (publish_view).           *)

Publishable(p) == Cardinality(display[p]) >= MinSupport

\* Mutant: the strategy map is published on every seat.
PublishedStrategy(p) == strat[p]

Published(p) ==
  IF ~ contaminated[p] THEN strat[p]
  ELSE IF Publishable(p) THEN display[p]
  ELSE None

\* The opponent's trail: laid on every credited cell each turn, so present
\* everywhere from the first turn on; blank when its map is not publishable.
PublishedScent(p) ==
  IF contaminated[p] /\ ~ Publishable(p) THEN {} ELSE Cells

\* A map of support S at its sharpest: nearly all of the mass on one cell.
SharpMass == 100
Sharp(S, peak) == [c \in Cells |-> IF c \notin S THEN 0 ELSE IF c = peak THEN SharpMass ELSE 1]

PublishView(p, peak) ==
  SnapshotPayload(
    BuildView(p, board[p],
              IF Published(p) = None THEN None ELSE Sharp(Published(p), peak),
              [own |-> << >>, opponent |-> Sharp(PublishedScent(p), peak)],
              << >>, None))

-----------------------------------------------------------------------------
(* Properties.                                                              *)

Free(p) == Cells \ board[p].barriers

Standing(p) == CellOf(Foe(p), board[p])

\* Rule 9: a live view is the same wherever the opponent stands.  After a turn
\* the panels of the viewer's process, painted from the snapshot it reads, light
\* either every free cell or none, even when nearly all the mass is on the true
\* cell; the sidebar counts no fewer; and the board panel shows no more than the
\* own cell and the declared barriers (strategy/display_belief.py:1-39: the leak
\* it ends was a map of five cells around the true one; sdk/view_render.py:
\* 75-85, whose lowest shade is not the background).
AllOrNothing(colours, free) == LitCells(colours) = {} \/ free \subseteq LitCells(colours)
DrawnHidesTheCell ==
  \A p \in Peers :
    LET screen == Refresh(None, PublishView(p, Standing(p)), Unreadable)
        panels == PanelGrids(screen)
        free   == Free(p)
    IN  /\ AllOrNothing(panels[2], free) /\ AllOrNothing(panels[4], free)
        /\ BeliefLines(screen) \in {None} \cup (Cardinality(free) .. BoardSize * BoardSize)
        /\ \A c \in Cells : panels[1][c] = "barrier" => c \notin free

\* The maps never lose the thief, and lose the cop only on a seal of its own:
\* at the end of a turn the true cell is credited (strategy/belief.py:1-11).
OnlyASealHidesTheCop ==
  \A p \in Peers : Standing(p) \notin board[p].barriers =>
                      Standing(p) \in strat[p] /\ Standing(p) \in display[p]
=============================================================================
