--------------------------- MODULE MCCommitReveal ---------------------------
(***************************************************************************)
(* CommitReveal on a toy board: "move" is always legal; the cop may "seal" *)
(* once in a game, the thief may not "seal" twice in a row.  Sealing on    *)
(* the same turn is a capture.                                             *)
(***************************************************************************)
EXTENDS CommitRevealInv

MCAct == {"move", "seal"}

MCLegal(h, p, a) ==
  a = "seal" =>
    IF p = "police" THEN \A i \in 1 .. Len(h) : h[i][1] # "seal"
    ELSE h # <<>> => h[Len(h)][2] # "seal"

MCCapture(h) == h # <<>> /\ h[Len(h)] = <<"seal", "seal">>
=============================================================================
