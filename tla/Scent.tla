------------------------------- MODULE Scent -------------------------------
(***************************************************************************)
(* The scent trails of one peer and the lie detector that reads them:      *)
(* strategy/scent.py, scentfield.py, scent_check.py, shared/scent_config.py*)
(* and scent_kernel.py.  A field maps the cells that smell to strengths;   *)
(* strengths and scores count in units, One of which make 1.0.             *)
(***************************************************************************)
EXTENDS Regions

CONSTANTS
  One,       \* 1.0
  Half,      \* window // 2
  Kernel,    \* strength by offset from the source, scent.json
  Retain,    \* 1 - decay
  Epsilon    \* belief.json: a weaker peak says nothing

Offset == (-Half .. Half) \X (-Half .. Half)
Source == Kernel[<<0, 0>>]

\* validated_kernel: no entry above the source, and symmetric.
ASSUME ScentAssumption ==
  /\ One \in Nat \ {0} /\ Half \in Nat /\ Epsilon \in Nat
  /\ Retain \in 1 .. One
  /\ Kernel \in [Offset -> 0 .. One] /\ Source > 0
  /\ \A o \in Offset :
       /\ Kernel[o] <= Source
       /\ Kernel[o] = Kernel[<<-o[1], o[2]>>] /\ Kernel[o] = Kernel[<<o[2], o[1]>>]

Times(x, y) == (x * y) \div One

Strength(field, c) == IF c \in DOMAIN field THEN field[c] ELSE 0

Emission(centre) ==
  LET offset(c) == <<c[1] - centre[1], c[2] - centre[2]>>
  IN  [c \in { c \in Square : offset(c) \in Offset } |-> Kernel[offset(c)]]

Merged(base, delta) ==
  [c \in DOMAIN base \cup DOMAIN delta |-> Strength(base, c) + Strength(delta, c)]

\* One turn older; what no longer smells is dropped.
Decayed(field) ==
  [c \in { c \in DOMAIN field : Times(Retain, field[c]) > 0 } |-> Times(Retain, field[c])]

EmitKnown(field, cell) == Merged(field, Emission(cell))
EmitWeighted(field, cell, weight) ==
  Merged(field, [c \in DOMAIN Emission(cell) |-> Times(Emission(cell)[c], weight)])

Freshest(field) == { c \in DOMAIN field : \A d \in DOMAIN field : field[d] <= field[c] }
ExpectedAfterOne == Times(Source, Retain)

-----------------------------------------------------------------------------
(* What a peer makes of a hint: shared/inference.py.                        *)

IsEvidence(inference) ==
  inference.confidence > 0 /\ (inference.region # "null" \/ inference.cells # {})

ClaimedCells(inference) ==
  IF inference.cells # {} THEN inference.cells ELSE RegionCells(inference.region)

Strongest(field, cells) ==
  CHOOSE m \in { Strength(field, c) : c \in cells } : \A c \in cells : Strength(field, c) <= m

AtMostOne(x) == IF x < One THEN x ELSE One

\* contradicts: how sure the trail is that the claim is false.
Contradiction(inference, field) ==
  LET peak        == Strongest(field, DOMAIN field)
      measured    == Strongest(field, ClaimedCells(inference))
      unexplained == IF measured < ExpectedAfterOne
                     THEN ((ExpectedAfterOne - measured) * One) \div ExpectedAfterOne ELSE 0
      elsewhere   == AtMostOne((peak * One) \div ExpectedAfterOne)
  IN  IF ~ IsEvidence(inference) \/ DOMAIN field = {} THEN 0
      ELSE IF peak < Epsilon THEN 0
      ELSE Times(unexplained, elsewhere)
=============================================================================
