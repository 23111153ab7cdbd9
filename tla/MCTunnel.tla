------------------------------ MODULE MCTunnel ------------------------------
(* Tunnel with small numbers: see the .cfg files.                           *)
EXTENDS Tunnel
=============================================================================
