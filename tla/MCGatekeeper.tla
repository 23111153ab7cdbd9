---------------------------- MODULE MCGatekeeper ----------------------------
(* Gatekeeper with small numbers: see the .cfg file.                        *)
EXTENDS Gatekeeper

MCOneOrTwo == {1, 2}
=============================================================================
