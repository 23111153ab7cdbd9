---------------------------- MODULE MCBoardGame ----------------------------
(* BeliefGame on a board of nine cells: the smallest with an inner cell, a *)
(* corridor and a wall-in.                                                 *)
EXTENDS BeliefGame, Deception

MCCopStart   == <<0, 0>>
MCThiefStart == <<2, 1>>

\* strategy/weights.py, the prior: hundredths.
MCWeights == <<60, 100, 200, 50, 80, 90, 120, 150, 40, 30, 25, 35, 0, 20, 300>>
\* Every number from one to nine divides it.
MCUnit == 2520

\* A hint log grows by the hints that are new: reading the same buffers again
\* adds nothing, and what is no hint is passed over.
HintPayloads ==
  [turn : {0, 1, None}, text : {"t", Unreadable}, intent : {"truth", "junk"}] \cup {Unreadable}
MCSenders == <<"police", "thief">>
ASSUME HintLogGrowsByNews ==
  \A a \in [{"police"} -> HintPayloads], b \in [{"police", "thief"} -> HintPayloads] :
    LET first == ObserveHints(NoHistory, a, MCSenders)
        second == ObserveHints(first, b, MCSenders)
    IN  /\ ObserveHints(second, b, MCSenders) = second
        /\ Len(second.entries) <= 3
        /\ \A i \in DOMAIN second.entries : second.entries[i].intent \in Intents \cup {None}
\* Wherever a peer stands, whatever its scent gives away and however near it
\* believes the other: its planner ends in a plan the constructor accepts, and a
\* lie names neither the region it stands in nor the one its scent betrays.
Sealed(cells) ==
  [MakeState EXCEPT !.barriers = cells, !.placed = Cardinality(cells)]
ASSUME ThievesPlansAreSound ==
  \A dest \in Cells, freshest \in Cells \cup {None}, distance \in 0 .. 4 :
    LET plans == PlansFor("thief", Sealed({}), dest, distance, freshest)
    IN  /\ PlansAreSound(plans)
        /\ \A plan \in plans : plan.intent = "lie" => plan.claimed # Betrayed(plan.actual, freshest)
ASSUME CopsPlansAreSound ==
  \A dest \in {<<0, 1>>, <<1, 1>>, <<2, 2>>}, cells \in {{}, {<<1, 0>>}} :
    PlansAreSound(PlansFor("cop", Sealed(cells), dest, 0, None))

\* Whatever a snapshot lacks, the screen keeps its last view.
ASSUME TornSnapshotKeepsTheScreen ==
  \A f \in Fields : Refresh("last", [g \in Fields \ {f} |-> 0], Unreadable) = "last"
=============================================================================
