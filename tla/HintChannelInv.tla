---------------------------- MODULE HintChannelInv ----------------------------
(***************************************************************************)
(* The inductive invariant of HintChannel: why one turn of lookback is     *)
(* enough, and why two buffers lose no hint.                               *)
(*                                                                         *)
(* A hint whose call was answered was put behind every message its sender  *)
(* had sent, so its receiver meets it before it can resolve another turn   *)
(* of that sender's; and the two buffers, whatever copies came by, hold    *)
(* the newest hint not yet spent and the mark of the last one that was.    *)
(***************************************************************************)
EXTENDS HintChannel, CommitRevealInv

Stamp == Nat \cup {NoHint}

HintTypes ==
  /\ late \in [Peer -> SUBSET Messages]
  /\ hints \in [Peer -> [pending : Stamp, incoming : Stamp]]
  /\ heard \in [Peer -> SUBSET (Nat \X Nat)]
  /\ decoded \in [Peer -> Seq(Nat \X Nat)]

(***************************************************************************)
(* Hints on their way.                                                     *)
(***************************************************************************)
(* A hint is of a turn its receiver has sealed.                            *)
Stamped(p) ==
  /\ \A i \in 1 .. Len(inbox[p]) : inbox[p][i].type = "hint" => inbox[p][i].turn < L(p)
  /\ \A m \in late[p] : m.type = "hint" /\ m.turn < L(p)
  /\ \A x \in heard[p] : x[1] <= N(p) /\ x[2] < L(p)

(* The call of p's hint of turn t was answered.                            *)
HintSent(p, t) ==
  \E r \in log[p] : r.dir = "sent" /\ r.msg.type = "hint" /\ r.msg.turn = t

(* The hint of turn t is at place i of s, behind no message of a later one. *)
InLine(s, t, i) ==
  /\ s[i].type = "hint" /\ s[i].turn = t
  /\ \A j \in 1 .. Len(s) : j < i /\ Protocol(s[j]) => s[j].turn <= t

(* What p was told and has not heard in time it will.                      *)
Owed(p) ==
  \A t \in Nat :
    Active(p) /\ HintSent(Other(p), t) /\ ~HeardInTime(p, t) =>
      N(p) <= t + 1 /\ \E i \in 1 .. Len(inbox[p]) : InLine(inbox[p], t, i)

(* With nothing lost, every turn below this one was hinted at.             *)
Hinted(p) ==
  IF p = "police" THEN (IF pc[p] = "wait_reveal" THEN N(p) + 1 ELSE N(p))
  ELSE IF Active(p) THEN TurnOf(p) ELSE N(p) - 1

AllTold(p) == Hints /\ faults = 0 => \A t \in Nat : t < Hinted(p) => HintSent(p, t)

(***************************************************************************)
(* The two buffers.                                                        *)
(***************************************************************************)
Newest(p) ==
  IF hints[p].incoming = NoHint THEN News(p) = {}
  ELSE hints[p].incoming \in News(p) /\ \A s \in News(p) : s <= hints[p].incoming

(* With nothing to spend, what remains in pending_hints is the mark of the *)
(* last hint spent; it is gone only after a turn in which that hint has    *)
(* left the window.                                                        *)
Marked(p) ==
  hints[p].incoming = NoHint =>
    IF hints[p].pending # NoHint THEN hints[p].pending = LastDecoded(p)
    ELSE LastDecoded(p) = NoHint \/ LastDecoded(p) < N(p) - 1

Buffers(p) ==
  Hints => (LastDecoded(p) = NoHint \/ LastDecoded(p) < N(p)) /\ Newest(p) /\ Marked(p)

HintInv ==
  /\ IInv
  /\ HintTypes
  /\ \A p \in Peer : Stamped(p)
  /\ \A p \in Peer : Owed(p)
  /\ \A p \in Peer : AllTold(p)
  /\ \A p \in Peer : Buffers(p)
  /\ HintsKeepUp
===============================================================================
