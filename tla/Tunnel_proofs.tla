--------------------------- MODULE Tunnel_proofs ---------------------------
(***************************************************************************)
(* OneStraggler for every retry count and any number of drops.  It is not  *)
(* inductive: what bounds the connects after the stop is that no worker    *)
(* reaches a connect once the mark is set, so that at most the one that    *)
(* was already there makes it.                                             *)
(***************************************************************************)
EXTENDS Tunnel, TLAPS

\* Before the mark no connect counts; a worker that stands before a connect
\* has made none since the mark; and what is bound when all is over was bound
\* by the one that counts, or left bound by a teardown that raised.
StragglerInv ==
  /\ revived \in {0, 1}
  /\ ~stopped => revived = 0
  /\ worker = "connect" => revived = 0
  /\ main = "over" /\ stopped /\ agent = "bound" => revived = 1 \/ raised

\* The steps of the event loop leave the worker at its place, or start it at
\* the beginning of a call.
LEMMA EventLoopKeeps ==
  ASSUME StragglerInv, EventLoop \/ GameOver
  PROVE  StragglerInv'
<1>1. CASE Start
  BY <1>1 DEF StragglerInv, Start
<1>2. CASE Cancel
  BY <1>2 DEF StragglerInv, Cancel
<1>3. CASE Stop
  BY <1>3 DEF StragglerInv, Stop
<1>4. CASE Disconnect
  BY <1>4 DEF StragglerInv, Disconnect, Raises, Unbound
<1>5. CASE KillAgent
  BY <1>5 DEF StragglerInv, KillAgent, Raises
<1>6. CASE Poll
  BY <1>6 DEF StragglerInv, Poll
<1>7. CASE Probed
  BY <1>7 DEF StragglerInv, Probed
<1>8. CASE Repaired
  BY <1>8 DEF StragglerInv, Repaired
<1>9. CASE GameOver
  BY <1>9 DEF StragglerInv, GameOver
<1> QED
  BY <1>1, <1>2, <1>3, <1>4, <1>5, <1>6, <1>7, <1>8, <1>9 DEF EventLoop

\* The steps of the worker: only a test that found no mark leads to a connect,
\* and only a connect binds.
LEMMA ThreadKeeps ==
  ASSUME StragglerInv, Thread
  PROVE  StragglerInv'
<1>1. CASE Probe
  BY <1>1 DEF StragglerInv, Probe, Asked, Return, Alive
<1>2. CASE Look
  BY <1>2 DEF StragglerInv, Look, Asked, Return, Alive
<1>3. CASE Wait
  BY <1>3 DEF StragglerInv, Wait, Return
<1>4. CASE Test
  BY <1>4 DEF StragglerInv, Test, Return
<1>5. CASE Connect
  BY <1>5 DEF StragglerInv, Connect
<1>6. CASE Verify
  BY <1>6 DEF StragglerInv, Verify, Asked, Return, Alive
<1> QED
  BY <1>1, <1>2, <1>3, <1>4, <1>5, <1>6 DEF Thread

\* However many attempts a repair has left when the teardown overtakes it, it
\* makes at most one connect more, and nothing but that connect, or a call of
\* the teardown itself that raised, leaves the domain bound.
THEOREM StragglersBounded == Spec => []OneStraggler
<1>1. Init => StragglerInv
  BY DEF Init, StragglerInv
<1>2. StragglerInv /\ [Next]_vars => StragglerInv'
  <2> SUFFICES ASSUME StragglerInv, [Next]_vars
               PROVE  StragglerInv'
    OBVIOUS
  <2>1. CASE EventLoop \/ GameOver
    BY <2>1, EventLoopKeeps
  <2>2. CASE Thread
    BY <2>2, ThreadKeeps
  <2>3. CASE Drop
    BY <2>3 DEF StragglerInv, Drop
  <2>4. CASE UNCHANGED vars
    BY <2>4 DEF StragglerInv, vars
  <2>5. CASE Ended
    BY <2>4, <2>5 DEF Ended
  <2> QED
    BY <2>1, <2>2, <2>3, <2>4, <2>5 DEF Next
<1>3. StragglerInv => OneStraggler
  BY DEF StragglerInv, OneStraggler
<1> QED
  BY <1>1, <1>2, <1>3, PTL DEF Spec
=============================================================================
