----------------------------- MODULE LocalView -----------------------------
(***************************************************************************)
(* What one seat shows of its game: the view record, the snapshot it is    *)
(* published in, its reading by the viewer's process, and the colours the  *)
(* panels paint.  Source: sdk/view_builder.py, local_view.py,              *)
(* view_publish.py, view_snapshot.py, view_render.py, view_text.py and     *)
(* gui/live_app.py.  A grid is its rows; a mass is a natural number, since *)
(* a panel shows only its share of the peak.  A wording is abstracted to   *)
(* the values it prints, and the order in which a view lists the barriers  *)
(* is left out.                                                            *)
(***************************************************************************)
EXTENDS Board, FiniteSets, Sequences

CONSTANT Unreadable       \* a file or a value that no conversion accepts

\* A grid stored by cell, an absent cell having no mass, as rows.
Dense(mass) ==
  [i \in 1 .. BoardSize |-> [j \in 1 .. BoardSize |->
     LET c == <<i - 1, j - 1>> IN IF c \in DOMAIN mass THEN mass[c] ELSE 0]]

At(grid, cell) == grid[cell[1] + 1][cell[2] + 1]

Grid == [1 .. BoardSize -> [1 .. BoardSize -> Nat]]

-----------------------------------------------------------------------------
(* The hint log.  history.latest[s] is the last hint of sender s.           *)

Intents == {"truth", "lie"}
NoHistory == [entries |-> << >>, latest |-> << >>]

Keep(history, hint) ==
  IF hint.sender \in DOMAIN history.latest /\ history.latest[hint.sender] = hint
  THEN history
  ELSE [entries |-> Append(history.entries, hint),
        latest  |-> [s \in DOMAIN history.latest \cup {hint.sender} |->
                       IF s = hint.sender THEN hint ELSE history.latest[s]]]

Stamp(value)  == IF value \in Int THEN value ELSE None
Intent(value) == IF value \in Intents THEN value ELSE None

\* The peer's payload is its own word: what is not a hint with a text is
\* passed over, what is not a turn or an intent is shown as none.
IsHint(payload) == payload # Unreadable /\ payload.text # Unreadable
IncomingHint(sender, payload) ==
  [sender |-> sender, turn |-> Stamp(payload.turn), text |-> payload.text,
   intent |-> Intent(payload.intent)]

\* incoming[s]: the last payload buffered from sender s, read on every publish.
ObserveHints(history, incoming, senders) ==
  LET next[n \in 0 .. Len(senders)] ==
        IF n = 0 THEN history
        ELSE LET s == senders[n]
             IN  IF s \in DOMAIN incoming /\ IsHint(incoming[s])
                 THEN Keep(next[n - 1], IncomingHint(s, incoming[s]))
                 ELSE next[n - 1]
  IN  next[Len(senders)]

RecordOutgoing(history, turn, text, intent) ==
  Keep(history, [sender |-> "self", turn |-> Stamp(turn), text |-> text,
                 intent |-> Intent(intent)])

-----------------------------------------------------------------------------
(* The view.                                                                *)

\* belief and scent are given as grids by cell, or None.
BuildView(role, s, belief, scent, hints, idle) ==
  [role |-> role, size |-> BoardSize, turn |-> s.turn,
   own |-> IF role = "police" THEN s.cop ELSE s.thief,
   barriers |-> s.barriers,
   placed |-> s.placed,
   belief |-> IF belief = None THEN None ELSE [rows |-> Dense(belief)],
   scent  |-> IF scent = None THEN None
              ELSE [own |-> Dense(scent.own), opponent |-> Dense(scent.opponent)],
   hints |-> hints, idle |-> idle]

\* What a seat can show, but for the wording of its hints.
View(Hint) ==
  [role : {"police", "thief"}, size : Nat, turn : Nat, own : Cells,
   barriers : SUBSET Cells, placed : Nat, belief : {None} \cup [rows : Grid],
   scent : {None} \cup [own : Grid, opponent : Grid], hints : Seq(Hint),
   idle : Nat \cup {None}]

\* Nothing that stands in a view, and no view, is a marker of absence.
ASSUME MarkersAreNoViews ==
  /\ None # Unreadable
  /\ \A u \in {None, Unreadable} :
       /\ u \notin {"police", "thief"} /\ u \notin Nat /\ u \notin Cells
       /\ \A cells \in SUBSET Cells : u # cells
       /\ u \notin [Cells -> Nat] /\ u \notin Seq({})
       /\ u \notin [own : Seq({}), opponent : [Cells -> Nat]]
       /\ u \notin [rows : Grid] /\ u \notin [own : Grid, opponent : Grid]
       /\ u \notin View({})

IdleReading(value) == IF value \in Nat THEN value ELSE None

-----------------------------------------------------------------------------
(* The snapshot, read by another process.  A payload that is no object, has *)
(* a name missing, or a value that cannot be converted, is no view.         *)

Fields == {"role", "size", "turn", "own", "barriers", "placed", "belief",
           "scent", "hints", "idle"}

\* asdict: the record by its field names, nested ones too.
SnapshotPayload(view) == [f \in Fields |-> view[f]]

DecodeView(payload) ==
  IF /\ payload # None /\ payload # Unreadable
     /\ Fields \subseteq DOMAIN payload
     /\ \A f \in Fields : payload[f] # Unreadable
  THEN [f \in Fields |-> payload[f]]
  ELSE None

\* The newest file that can be read: a torn one falls back to the previous.
ReadSnapshot(file, previous) ==
  DecodeView(IF file # Unreadable THEN file ELSE previous)

\* LiveDashboard.show: a snapshot that cannot be read leaves the screen as it
\* is until the next refresh.
Refresh(screen, file, previous) ==
  LET view == ReadSnapshot(file, previous) IN IF view = None THEN screen ELSE view

-----------------------------------------------------------------------------
(* The panels.                                                              *)

Background == 0
HeatRamp == 6

GridPeak(grid) ==
  LET masses == { At(grid, c) : c \in Cells }
  IN  CHOOSE m \in masses : \A k \in masses : k <= m

Ceiling(n, d) == (n + d - 1) \div d
Between(low, n, high) == IF n < low THEN low ELSE IF n > high THEN high ELSE n

\* A mass, however small, is never painted like no mass at all.
Shade(value, peak) ==
  IF value <= 0 \/ peak <= 0 THEN Background
  ELSE Between(1, Ceiling(value * HeatRamp, peak), HeatRamp)

ShadedGrid(grid) ==
  LET peak == GridPeak(grid) IN [c \in Cells |-> Shade(At(grid, c), peak)]
LitCells(colours) == { c \in Cells : colours[c] # Background }
BlankGrid == [c \in Cells |-> Background]

BoardColours(view) ==
  [c \in Cells |-> IF c = view.own THEN "own"
                   ELSE IF c \in view.barriers THEN "barrier" ELSE "empty"]

BeliefColours(view) == IF view.belief = None THEN BlankGrid ELSE ShadedGrid(view.belief.rows)
ScentColours(view) ==
  IF view.scent = None THEN <<BlankGrid, BlankGrid>>
  ELSE <<ShadedGrid(view.scent.own), ShadedGrid(view.scent.opponent)>>

PanelGrids(view) ==
  <<BoardColours(view), BeliefColours(view)>> \o ScentColours(view)

\* The sidebar: what it prints of the belief is the number of lit cells (and
\* figures of the same published map), of the hints their stamps.
BeliefLines(view) ==
  IF view.belief = None THEN None ELSE Cardinality(LitCells(BeliefColours(view)))
HintLines(view) ==
  [i \in DOMAIN view.hints |-> [turn |-> view.hints[i].turn, intent |-> view.hints[i].intent]]
TimerLine(view) == view.idle
SidebarBlocks(view) ==
  << [role |-> view.role, turn |-> view.turn, own |-> view.own, placed |-> view.placed,
      declared |-> Cardinality(view.barriers), idle |-> TimerLine(view)],
     BeliefLines(view), HintLines(view) >>
=============================================================================
