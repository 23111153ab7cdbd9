----------------------------- MODULE Deception -----------------------------
(***************************************************************************)
(* What a peer decides to claim before its hint is worded: the plan, its   *)
(* validity, and the two planners.  Source: shared/deception_types.py,     *)
(* strategy/deception.py, deception_thief.py, deception_cop.py and the     *)
(* plan half of network/turn_language.py.  A random draw is a set of plans *)
(* it can end in; a probability counts in units of 1/Certain.              *)
(***************************************************************************)
EXTENDS Strategy
LOCAL INSTANCE Regions

CONSTANTS
  Certain,                \* deception.json, in the units of a probability
  TruthFloor,
  MinLie,
  DangerDistance,
  SafeDistance,
  LiePool

\* load_deception_config refuses the rest.
ASSUME DeceptionAssumption ==
  /\ Certain \in Nat /\ TruthFloor \in 1 .. Certain - 1
  /\ MinLie \in 0 .. Certain - TruthFloor
  /\ DangerDistance \in Nat /\ SafeDistance \in Nat /\ DangerDistance < SafeDistance
  /\ LiePool \in Nat \ {0}

ClaimKinds == {"location", "heading", "barrier", "capture"}
AlwaysTrueKinds == {"barrier", "capture"}

\* DeceptionPlan.__post_init__ raises on any other plan.
ValidPlan(plan) ==
  /\ plan.intent = "lie" => plan.kind \notin AlwaysTrueKinds
  /\ plan.intent = "truth" /\ plan.actual # None => plan.claimed = plan.actual

Location(intent, claimed, actual) ==
  [intent |-> intent, kind |-> "location", claimed |-> claimed, actual |-> actual]
Honest(actual) == Location("truth", actual, actual)

-----------------------------------------------------------------------------
(* The thief lies the more the nearer it believes the cop.                  *)

MaxLie == Certain - TruthFloor
LieProbability(distance) ==
  IF distance <= DangerDistance THEN MaxLie
  ELSE IF distance >= SafeDistance THEN MinLie
  ELSE MaxLie - ((distance - DangerDistance) * (MaxLie - MinLie))
                  \div (SafeDistance - DangerDistance)

\* Its own freshest scent gives a region away; without any, the true one.
Betrayed(actual, freshest) == IF freshest = None THEN actual ELSE RegionOf(freshest)

\* The claims farthest from the region given away, up to the pool's size.
SurvivableLies(actual, freshest) ==
  LET betrayed   == Betrayed(actual, freshest)
      candidates == Region \ {actual, betrayed}
      far(r)     == RegionDistance(betrayed, r)
      before(r)  == { s \in candidates : far(s) > far(r) \/ (far(s) = far(r) /\ Precedes(s, r)) }
  IN  { r \in candidates : Cardinality(before(r)) < LiePool }

\* distance is the expected distance under its belief.
ThiefClaims(s, distance, freshest) ==
  LET actual == RegionOf(s.thief)
      lie    == LieProbability(distance)
  IN  (IF lie < Certain THEN {Honest(actual)} ELSE {})
        \cup (IF lie > 0
              THEN { Location("lie", r, actual) : r \in SurvivableLies(actual, freshest) }
              ELSE {})

-----------------------------------------------------------------------------
(* The cop lies where a believing thief would walk into a better position.  *)

Least(S, Better(_, _)) == CHOOSE x \in S : \A y \in S \ {x} : Better(x, y)

BelievingStep(s, believedCop) ==
  LET at(c) == LinearValue([s EXCEPT !.cop = believedCop, !.thief = c])
      better(c, d) == at(c) < at(d) \/ (at(c) = at(d) /\ (c[1] < d[1] \/ (c[1] = d[1] /\ c[2] < d[2])))
  IN  Least(ThiefActions(s), better)

HerdedValue(region, s) ==
  LinearValue([s EXCEPT !.thief = BelievingStep(s, RegionCenter(region))])

\* A gain that a hundredth of the squashed scale may hide ends either way.
CopClaims(s) ==
  LET actual == RegionOf(s.cop)
      herd   == [r \in Region |-> HerdedValue(r, s)]
      better(q, r) == herd[q] > herd[r] \/ (herd[q] = herd[r] /\ Precedes(q, r))
      best   == Least(Region \ {actual}, better)
  IN  {Honest(actual)}
        \cup (IF herd[best] > herd[actual] THEN {Location("lie", best, actual)} ELSE {})

\* build_deception_plan: about where the peer will stand, on the board before
\* the turn.
PlansFor(role, s, dest, distance, freshest) ==
  IF role = "thief" THEN ThiefClaims([s EXCEPT !.thief = dest], distance, freshest)
                    ELSE CopClaims([s EXCEPT !.cop = dest])

\* What the planners owe: a valid plan always exists, so the draw and the
\* constructor never raise, and a lie names a region that is not the true one.
PlansAreSound(plans) ==
  /\ plans # {}
  /\ \A plan \in plans :
       /\ ValidPlan(plan)
       /\ plan.intent = "lie" => plan.claimed # plan.actual
=============================================================================
