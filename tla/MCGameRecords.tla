---------------------------- MODULE MCGameRecords ----------------------------
(* GameRecords with small numbers: see the .cfg files.                      *)
EXTENDS GameRecords
=============================================================================
