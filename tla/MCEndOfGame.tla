----------------------------- MODULE MCEndOfGame -----------------------------
(***************************************************************************)
(* EndOfGame on a toy board: the police may always "seal", the thief from  *)
(* the second turn on, and sealing on the same turn is a capture.  So a    *)
(* game can end in the capture or, one turn later at most, in survival.    *)
(***************************************************************************)
EXTENDS GameLog

MCAct == {"move", "seal"}

MCLegal(h, p, a) == a = "seal" => p = "police" \/ h # <<>>

MCCapture(h) == h # <<>> /\ h[Len(h)] = <<"seal", "seal">>
=============================================================================
