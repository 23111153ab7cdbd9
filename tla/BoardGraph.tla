----------------------------- MODULE BoardGraph -----------------------------
(***************************************************************************)
(* The board as a graph: what the strategy layer measures.  Source:        *)
(* strategy/graph/components.py, cycles.py, territory.py and               *)
(* strategy/graphcache.py, whose caches return what a call would compute.  *)
(* The cut vertices are computed by the code's own iterative depth-first   *)
(* search, one Visit per turn of its inner loop.                           *)
(***************************************************************************)
EXTENDS Board, FiniteSets, Sequences, SequencesExt

Passable(barriers) == Cells \ barriers
\* A cop on its own seal still stands somewhere.
PassableForCop(barriers, cop) == Passable(barriers) \cup {cop}

NeighborsIn(cells, cell) == Around(cell) \cap cells
Degree(cells, cell) == IF cell \in cells THEN Cardinality(NeighborsIn(cells, cell)) ELSE 0
EdgeCount(cells) ==
  Cardinality({ e \in cells \X cells : e[2] \in Around(e[1]) }) \div 2

-----------------------------------------------------------------------------
(* Breadth first.                                                           *)

\* Layers(cells, start)[n]: what is reached in at most n steps.
Layers(cells, start) ==
  LET more(S) == S \cup UNION { NeighborsIn(cells, c) : c \in S }
      within[n \in 0 .. Cardinality(cells)] ==
        IF n = 0 THEN {start} \cap cells ELSE more(within[n - 1])
  IN  within

ComponentOf(cells, start) == Layers(cells, start)[Cardinality(cells)]

\* distances: the hops from source, for the cells it reaches and no other.
Distances(cells, source) ==
  LET within == Layers(cells, source)
  IN  [c \in within[Cardinality(cells)] |->
         CHOOSE n \in DOMAIN within : c \in within[n] /\ \A k \in 0 .. n - 1 : c \notin within[k]]

Nearer(here, there, c) ==
  c \in DOMAIN here /\ (c \in DOMAIN there => here[c] < there[c])

\* A cell as far from one as from the other belongs to neither.
VoronoiSplit(cells, first, second) ==
  LET a == Distances(cells, first)
      b == Distances(cells, second)
  IN  << {c \in cells : Nearer(a, b, c)}, {c \in cells : Nearer(b, a, c)} >>

Territory(cells, cop, thief) ==
  LET sides == VoronoiSplit(cells, cop, thief)
  IN  << Cardinality(sides[1]), Cardinality(sides[2]) >>

TerritoryDiff(cells, first, second) ==
  LET sides == VoronoiSplit(cells, first, second)
  IN  << Cardinality(sides[1]) - Cardinality(sides[2]),
         EdgeCount(sides[1]) - EdgeCount(sides[2]) >>

-----------------------------------------------------------------------------
(* Cycles.  The rank is that of a connected set of cells: no caller passes  *)
(* another.                                                                 *)

CycleRank(cells) ==
  IF cells = {} THEN 0 ELSE EdgeCount(cells) - Cardinality(cells) + 1
IsForest(cells) == CycleRank(cells) = 0
ReductionValue(cells, cell) == Degree(cells, cell) - 1

-----------------------------------------------------------------------------
(* Hopcroft and Tarjan, iteratively.  A walk has found, with its clock, the *)
(* cells of found; a frame of its stack is a cell and the neighbours it has *)
(* still to look at.                                                        *)

\* The order of Python's pairs.
Before(c, d) == c[1] < d[1] \/ (c[1] = d[1] /\ c[2] < d[2])
Sorted(cells) ==
  LET place == [c \in cells |-> Cardinality({ d \in cells : Before(d, c) }) + 1]
  IN  [i \in 1 .. Cardinality(cells) |-> CHOOSE c \in cells : place[c] = i]

Lesser(i, j) == IF i < j THEN i ELSE j
Top(walk) == walk.stack[Len(walk.stack)]
Popped(walk) == SubSeq(walk.stack, 1, Len(walk.stack) - 1)

\* A dictionary with one key more.
With(dict, key, value) == [k \in DOMAIN dict \cup {key} |-> IF k = key THEN value ELSE dict[k]]

Discover(cells, walk, cell, from) ==
  [walk EXCEPT !.found  = With(@, cell, walk.clock),
               !.low    = With(@, cell, walk.clock),
               !.parent = With(@, cell, from),
               !.clock  = @ + 1,
               !.stack  = Append(@, [cell |-> cell, ahead |-> Sorted(NeighborsIn(cells, cell))])]

\* A cell with nothing ahead: its low link is its caller's too, and the caller
\* cuts when the cell cannot reach above it.
Retreat(walk) ==
  LET node   == Top(walk).cell
      caller == walk.stack[Len(walk.stack) - 1].cell
  IN  IF Len(walk.stack) = 1 THEN [walk EXCEPT !.stack = << >>]
      ELSE [walk EXCEPT
              !.stack = Popped(walk),
              !.low[caller] = Lesser(@, walk.low[node]),
              !.cuts = @ \cup (IF caller # walk.root /\ walk.low[node] >= walk.found[caller]
                               THEN {caller} ELSE {})]

\* One neighbour of the top is taken off its list.
Looked(walk) ==
  [walk EXCEPT !.stack[Len(walk.stack)] =
     [cell |-> Top(walk).cell, ahead |-> Tail(Top(walk).ahead)]]

\* Mutant: a cell already found is passed over.
AdvanceTreeOnly(cells, walk) ==
  LET node == Top(walk).cell
      next == Head(Top(walk).ahead)
      seen == Looked(walk)
  IN  IF next \in DOMAIN walk.found THEN seen
      ELSE Discover(cells, [seen EXCEPT !.kids = @ + (IF node = walk.root THEN 1 ELSE 0)],
                    next, node)

\* The next neighbour: a new cell is entered, an old one other than the parent
\* lowers the link.
Advance(cells, walk) ==
  LET node == Top(walk).cell
      next == Head(Top(walk).ahead)
      seen == Looked(walk)
  IN  IF next \notin DOMAIN walk.found
      THEN Discover(cells, [seen EXCEPT !.kids = @ + (IF node = walk.root THEN 1 ELSE 0)],
                    next, node)
      ELSE IF next # walk.parent[node]
      THEN [seen EXCEPT !.low[node] = Lesser(@, walk.found[next])]
      ELSE seen

Visit(cells, walk) ==
  IF walk.stack = << >> THEN walk
  ELSE IF Top(walk).ahead = << >> THEN Retreat(walk) ELSE Advance(cells, walk)

\* A frame is left once and looks at each neighbour once.
VisitBound(cells) == 5 * Cardinality(cells)

\* The root cuts when the search left it twice.
WalkFrom(cells, walk, root) ==
  LET start == Discover(cells, [walk EXCEPT !.root = root, !.kids = 0], root, None)
      steps[n \in 0 .. VisitBound(cells)] ==
        IF n = 0 THEN start ELSE Visit(cells, steps[n - 1])
      done  == steps[VisitBound(cells)]
  IN  IF root \in DOMAIN walk.found THEN walk
      ELSE [done EXCEPT !.cuts = @ \cup (IF done.kids >= 2 THEN {root} ELSE {})]

ArticulationPoints(cells) ==
  LET fresh == [found |-> << >>, low |-> << >>, parent |-> << >>, root |-> None,
                kids |-> 0, cuts |-> {}, clock |-> 0, stack |-> << >>]
      roots == Sorted(cells)
      walks[n \in 0 .. Len(roots)] ==
        IF n = 0 THEN fresh ELSE WalkFrom(cells, walks[n - 1], roots[n])
  IN  walks[Len(roots)].cuts

-----------------------------------------------------------------------------
(* What the measures mean.                                                  *)

\* The number of pieces a set of cells falls into.
Pieces(cells) == { ComponentOf(cells, c) : c \in cells }
Cuts(cells, cell) ==
  Cardinality(Pieces(cells \ {cell})) > Cardinality(Pieces(cells))

\* A cycle can be walked exactly where some cells can be pruned no further:
\* taking away cells of degree below two, again and again, leaves one.
Prune(cells) == { c \in cells : Degree(cells, c) >= 2 }
HasCycle(cells) ==
  LET pruned[n \in 0 .. Cardinality(cells)] ==
        IF n = 0 THEN cells ELSE Prune(pruned[n - 1])
  IN  pruned[Cardinality(cells)] # {}

\* Both measures, for one connected set of cells.
MeasuresHold(cells) ==
  /\ ArticulationPoints(cells) = { c \in cells : Cuts(cells, c) }
  /\ IsForest(cells) <=> ~ HasCycle(cells)
=============================================================================
