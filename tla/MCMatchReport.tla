--------------------------- MODULE MCMatchReport ---------------------------
(* MatchReport with small numbers: see the .cfg file.                      *)
EXTENDS MatchReport
=============================================================================
