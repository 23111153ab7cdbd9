---------------------------- MODULE MCHintChannel ----------------------------
(* HintChannel with one free action per turn: only the order counts here.  *)
(* The wording and the reading of a hint are checked beside it.            *)
EXTENDS HintChannel, HintLanguage

MCAct == {"move"}
MCLegal(h, p, a) == TRUE
MCCapture(h) == FALSE

(* config/police/scent.json, in ten-thousandths.                           *)
MCHalf == 2
MCRing == <<<<9000, 6200, 2000>>, <<6200, 4200, 1400>>, <<2000, 1400, 400>>>>
MCKernel ==
  [o \in (-2 .. 2) \X (-2 .. 2) |->
     MCRing[1 + (IF o[1] < 0 THEN -o[1] ELSE o[1])][1 + (IF o[2] < 0 THEN -o[2] ELSE o[2])]]

-----------------------------------------------------------------------------
(* The lie detector reads a trail whose freshest deposit is the cell the   *)
(* opponent left: the one it moved to is laid down after the reading.      *)
TrailOf(cell) == Decayed(EmitKnown(<<>>, cell))
Claim(region) == Inferred(region, {}, One)
Sides(c) == {<<c[1] - 1, c[2]>>, <<c[1] + 1, c[2]>>, <<c[1], c[2] - 1>>, <<c[1], c[2] + 1>>, c}
Moves == {m \in Square \X Square : m[2] \in Sides(m[1])}
Crosses(m) == RegionOf(m[1]) # RegionOf(m[2])

(* A true claim inside the region the opponent was in is never held        *)
(* against it, and a claim of a region the trail does not reach always is, *)
(* with certainty.                                                         *)
ASSUME DetectorTellsFar ==
  \A m \in Moves :
    /\ ~ Crosses(m) => Contradiction(Claim(RegionOf(m[2])), TrailOf(m[1])) = 0
    /\ \A r \in Region :
         RegionCells(r) \cap DOMAIN TrailOf(m[1]) = {} =>
           Contradiction(Claim(r), TrailOf(m[1])) = One
(* But a true claim by one who has just crossed into the region is, by the *)
(* freshness it lacks: three tenths and more of a lie.                     *)
ASSUME CrossingLooksLikeALie ==
  \A m \in Moves :
    Crosses(m) => Contradiction(Claim(RegionOf(m[2])), TrailOf(m[1])) \in 3000 .. 3200

(* Trust recovers towards the prior and never past it.                     *)
ASSUME TrustRecovers ==
  \A value \in {RMin, Prior - 7, Prior, Prior + 7, RMax} :
    LET next == Reliability(value, 0)
    IN  IF value <= Prior THEN next \in value .. Prior ELSE next \in Prior .. value

(* Over a game a bank says every phrasing once in a cycle, whatever the    *)
(* draws.                                                                  *)
Orders == {s \in [1 .. 3 -> 1 .. 3] : {s[1], s[2], s[3]} = 1 .. 3}
ASSUME BankCycles ==
  \A first \in 1 .. 3, order \in Orders, next \in Orders :
    LET e1 == Select([queue |-> <<>>, last |-> first], order)
        e2 == Select(e1, next)
        e3 == Select(e2, next)
    IN  /\ {e1.last, e2.last, e3.last} = 1 .. 3 /\ e3.queue = <<>>
        /\ e1.last # first /\ Select(e3, next).last # e3.last

(* A coordinate never leaves, whatever the model says first or second; and *)
(* what comes back from a hint's reader is on the board or nothing.        *)
MCAnswers ==
  [raised : {"no", "APITimeoutError", "other"}, json : {TRUE}, response : {"none"},
   text : [words : {0, WordLimit, WordLimit + 1}, coords : BOOLEAN]]
ASSUME NoCoordinateLeaves ==
  \A keyed \in BOOLEAN, first, second \in MCAnswers, level \in {"full", "template_only"} :
    \A t \in ComposeOutgoing("claude_api", level, ProviderReply(keyed, first, FALSE),
                      ProviderReply(keyed, second, FALSE), Budget, 1) :
      ~ BuildHintRaises(t)
MCResponses ==
  [keys : BOOLEAN, numeric : BOOLEAN, list : BOOLEAN, confidence : {-1, 0, One, One + 1},
   region : {"null", "east", "atlantis"}, direction : {"null", "stay"},
   cells : {{}, {<<0, 6>>}, {<<0, 0>>, <<7, 0>>}}]
ASSUME WhatIsReadIsUsable ==
  \A r \in MCResponses :
    LET inference == DecodeIncoming("claude_api", [string |-> TRUE, words |-> 1],
                              [ok |-> TRUE, response |-> r], Budget, 0)
    IN  IsEvidence(inference) => ClaimedCells(inference) \in {RegionCells("east"), {<<0, 6>>}}

(* A mapped reason is one the callers know.                                *)
ASSUME ReasonsAreKnown ==
  \A raised \in Exceptions :
    ProviderReply(TRUE, [raised |-> raised], TRUE).reason \in FailureReasons
=============================================================================
