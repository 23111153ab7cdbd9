------------------------------ MODULE JointGame ------------------------------
(***************************************************************************)
(* What the turn protocol promises, without messages: a game of            *)
(* simultaneous moves.  In each turn both peers seal one legal action; the *)
(* turn is then played from the two sealed actions; the police learns the  *)
(* turn that was played before it seals again.                             *)
(***************************************************************************)
EXTENDS Integers, Sequences

CONSTANTS Act, NoAct, Legal(_, _, _), Capture(_), SurvivalTurn

Sides == {"police", "thief"}

VARIABLES
  played, \* the joint turns played, <<cop action, thief action>>
  sealed, \* sealed[p]: the action p is bound to in the present turn
  seen    \* how many joint turns the police knows

gameVars == <<played, sealed, seen>>

Open == ~Capture(played) /\ Len(played) < SurvivalTurn

GameInit ==
  /\ played = <<>>
  /\ sealed = [p \in Sides |-> NoAct]
  /\ seen = 0

(* An action is chosen against the position before the turn, known to its  *)
(* chooser, and never chosen again.                                        *)
Choose(p) ==
  /\ Open /\ sealed[p] = NoAct /\ seen = Len(played)
  /\ \E a \in Act :
       /\ Legal(played, p, a)
       /\ sealed' = [sealed EXCEPT ![p] = a]
  /\ UNCHANGED <<played, seen>>

Play ==
  /\ Open /\ seen = Len(played)
  /\ \A p \in Sides : sealed[p] # NoAct
  /\ played' = Append(played, <<sealed["police"], sealed["thief"]>>)
  /\ sealed' = [p \in Sides |-> NoAct]
  /\ UNCHANGED seen

Learn ==
  /\ seen < Len(played)
  /\ seen' = Len(played)
  /\ UNCHANGED <<played, sealed>>

GameNext == (\E p \in Sides : Choose(p)) \/ Play \/ Learn

Spec == GameInit /\ [][GameNext]_gameVars
=============================================================================
