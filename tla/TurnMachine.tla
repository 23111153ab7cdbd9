----------------------------- MODULE TurnMachine -----------------------------
(***************************************************************************)
(* The turn state machine of one agent: network/state_machine.py.          *)
(*                                                                         *)
(* The module is pure: it gives the legal transition table, the list of    *)
(* illegal-but-benign attempts, and Attempt(s, t), the state the machine   *)
(* is in after `attempt(t)` was called in state s.  The components that    *)
(* hold a machine keep its state in a variable of their own.               *)
(***************************************************************************)

State == {"init", "handshake", "my_turn", "wait_opponent", "game_over", "error"}

Allowed ==
  [init          |-> {"handshake", "error"},
   handshake     |-> {"my_turn", "wait_opponent", "error"},
   my_turn       |-> {"wait_opponent", "game_over", "error"},
   wait_opponent |-> {"my_turn", "game_over", "error"},
   game_over     |-> {},
   error         |-> {}]

Terminal == {"game_over", "error"}

(* Mutant: only duplicate deliveries are benign.                           *)
RecoverableSelfOnly ==
  {<<s, s>> : s \in {"handshake", "my_turn", "wait_opponent", "game_over"}}

(* Duplicate deliveries, and a handshake that arrives late.                *)
Recoverable ==
  {<<s, s>> : s \in {"handshake", "my_turn", "wait_opponent", "game_over"}}
    \cup {<<"my_turn", "handshake">>, <<"wait_opponent", "handshake">>}

Accepts(s, t) == t \in Allowed[s]

(* A legal attempt moves the machine, a benign one leaves it where it is,  *)
(* any other is a protocol violation and escalates to "error".             *)
Attempt(s, t) ==
  IF Accepts(s, t) THEN t
  ELSE IF <<s, t>> \in Recoverable THEN s
  ELSE "error"
=============================================================================
