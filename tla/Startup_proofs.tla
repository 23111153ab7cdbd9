--------------------------- MODULE Startup_proofs ---------------------------
(***************************************************************************)
(* Startup for every timing, every retry count and every pair of builds:   *)
(* the type invariant, the handshake's promise that a mismatch never       *)
(* plays, the game identity, and, where one attempt and one pause fit      *)
(* under the watchdog's threshold, that it never ends a game that is only  *)
(* waiting; and what the loaders promise of the files they accepted.       *)
(***************************************************************************)
EXTENDS Startup, AgentConfig, TLAPS

USE DEF Peer, Other

LEMMA LimitIsNat == \A s \in Opening \cup InGame : Limit(s) \in Nat
  BY TimesNat DEF Limit, Opening, InGame, Budget

LEMMA AttemptIsState ==
  ASSUME NEW s \in State, NEW t \in State
  PROVE  Attempt(s, t) \in State
  BY DEF Attempt, State

LEMMA RespondedIsState ==
  ASSUME StartTypeOK, NEW p \in Peer
  PROVE  Responded(p) \in State
  BY AttemptIsState DEF Responded, StartTypeOK, State

LEMMA NegotiatedIsPeer ==
  ASSUME NEW p \in Peer, NEW own \in Peer, NEW b
  PROVE  /\ NegotiatedGameId(p, own, b) \in Peer
         /\ Candidates(p, own, b) \in SUBSET Peer
  BY DEF NegotiatedGameId, Candidates

-----------------------------------------------------------------------------
(* Types.                                                                  *)

\* A peer that enters a stage starts it at 0, within any stage's limit.
LEMMA EnterKeepsType ==
  ASSUME StartTypeOK, NEW p \in Peer, NEW s \in Stages, Enter(p, s)
  PROVE  /\ stage' \in [Peer -> Stages]
         /\ waited' \in [Peer -> Nat]
         /\ \A q \in Peer : Timed(q)' => waited'[q] <= Limit(stage'[q])
<1>1. stage' \in [Peer -> Stages] /\ waited' \in [Peer -> Nat]
  BY DEF StartTypeOK, Enter
<1>2. ASSUME NEW q \in Peer, Timed(q)'
      PROVE  waited'[q] <= Limit(stage'[q])
  <2>1. CASE q = p
    BY <2>1, <1>2, LimitIsNat DEF Timed, Enter, StartTypeOK
  <2>2. CASE q # p
    BY <2>2, <1>2 DEF Timed, Enter, StartTypeOK
  <2> QED BY <2>1, <2>2
<1> QED BY <1>1, <1>2

LEMMA InitType == Init => StartTypeOK
  BY TimesNat, StartRetriesNat, StartFaultsNat
     DEF Init, StartTypeOK, State, Stages, Timed, Opening, InGame

LEMMA RunKeepsType ==
  ASSUME StartTypeOK, NEW p \in Peer, Start(p) \/ Run(p) \/ Wedge(p)
  PROVE  StartTypeOK'
<1> USE TimesNat, StartRetriesNat, StartFaultsNat
<1>1. CASE Start(p)
  BY <1>1, EnterKeepsType DEF Start, StartTypeOK, Touch, Stages, Opening
<1>2. CASE Connected(p)
  <2>1. Attempt(machine[p], "handshake") \in State
    BY AttemptIsState DEF StartTypeOK, State
  <2>2. \E s \in Stages : Enter(p, s)
    BY <1>2 DEF Connected, BeginHandshake, Stages, Opening, Closed
  <2> QED
    BY <1>2, <2>1, <2>2, EnterKeepsType
       DEF Connected, BeginHandshake, StartTypeOK, Untouched
<1>3. ASSUME NEW f, ConnectFailed(p, f)
      PROVE  /\ \E s \in Stages : Enter(p, s)
             /\ tries' \in [Peer -> 0 .. Retries]
  BY <1>3 DEF ConnectFailed, AfterFailure, StartTypeOK, Stages, Opening, Closed
<1>4. CASE ConnectRefused(p)
  <2>1. PICK f \in RefusedBy(p) : ConnectFailed(p, f)
    BY <1>4 DEF ConnectRefused
  <2> QED
    BY <1>4, <2>1, <1>3, EnterKeepsType DEF ConnectRefused, StartTypeOK, Untouched
<1>5. CASE ConnectTimesOut(p)
  BY <1>5, <1>3, EnterKeepsType DEF ConnectTimesOut, StartTypeOK, Untouched, Inject
<1>6. CASE BackoffOver(p)
  BY <1>6, EnterKeepsType DEF BackoffOver, StartTypeOK, Untouched, Stages, Opening
<1>7. CASE HandshakeAnswered(p)
  <2> DEFINE first == IF p = "police" THEN "my_turn" ELSE "wait_opponent"
  <2>1. /\ Attempt(machine[p], first) \in State
        /\ Attempt(machine[p], "error") \in State
        /\ Responded(Other(p)) \in State
    BY AttemptIsState, RespondedIsState DEF StartTypeOK, State
  <2>2. machine' \in [Peer -> State]
    BY <1>7, <2>1 DEF HandshakeAnswered, StartTypeOK
  <2>3. CASE Agrees(p)
    <3>1. gid' \in [Peer -> Peer] /\ known' \in [Peer -> SUBSET Peer]
      BY <1>7, <2>3, NegotiatedIsPeer DEF HandshakeAnswered, Adopt, RelocateLog, StartTypeOK
    <3>2. faults' \in 0 .. MaxFaults
      BY <1>7, <2>3 DEF HandshakeAnswered, Adopt, RelocateLog, StartTypeOK, Inject
    <3> QED
      BY <1>7, <2>3, <2>2, <3>1, <3>2, EnterKeepsType
         DEF HandshakeAnswered, StartTypeOK, TouchOnAttempt, Touch, Stages, InGame
  <2>4. CASE ~Agrees(p)
    BY <1>7, <2>4, <2>2, EnterKeepsType
       DEF HandshakeAnswered, StartTypeOK, Untouched, Stages, Closed
  <2> QED BY <2>3, <2>4
<1>8. CASE DeclarationDenied(p)
  <2>1. machine' \in [Peer -> State]
    BY <1>8, RespondedIsState DEF DeclarationDenied, StartTypeOK
  <2>2. gid' \in [Peer -> Peer] /\ known' \in [Peer -> SUBSET Peer]
    BY <1>8, NegotiatedIsPeer DEF DeclarationDenied, StartTypeOK
  <2> QED
    BY <1>8, <2>1, <2>2, EnterKeepsType
       DEF DeclarationDenied, StartTypeOK, Untouched, Inject, Stages, Closed
<1>9. CASE HandshakeLost(p)
  <2>1. machine' \in [Peer -> State]
    BY <1>9, RespondedIsState DEF HandshakeLost, StartTypeOK
  <2>2. \E s \in Stages : Enter(p, s)
    BY <1>9 DEF HandshakeLost, Stages, Closed
  <2>3. faults' \in 0 .. MaxFaults
    BY <1>9 DEF HandshakeLost, StartTypeOK, Inject
  <2> QED
    BY <1>9, <2>1, <2>2, <2>3, EnterKeepsType DEF HandshakeLost, StartTypeOK, Untouched
<1>10. ASSUME GameEnds(p)
       PROVE  machine' \in [Peer -> State] /\ Enter(p, "ended") /\ "ended" \in Stages
  BY <1>10, AttemptIsState DEF GameEnds, StartTypeOK, State, Stages, Closed
<1>11. CASE AttemptAnswered(p)
  BY <1>11, <1>10, EnterKeepsType DEF AttemptAnswered, StartTypeOK, Touch, Stages, InGame
<1>12. CASE AttemptTimesOut(p)
  BY <1>12, <1>10, EnterKeepsType
     DEF AttemptTimesOut, StartTypeOK, Touch, Untouched, Stages, InGame
<1>13. CASE NextAttempt(p)
  BY <1>13, EnterKeepsType
     DEF NextAttempt, StartTypeOK, TouchOnAttempt, Touch, Stages, InGame
<1>14. CASE Freeze(p)
  BY <1>14 DEF Freeze, StartTypeOK, Timed, Stages, Opening, InGame
<1>15. CASE Leave(p)
  BY <1>15 DEF Leave, StartTypeOK, Timed, Stages, Opening, InGame
<1>16. CASE Wedge(p)
  BY <1>16 DEF Wedge, StartTypeOK, Timed, Stages, Opening, InGame, Inject
<1> QED
  BY <1>1, <1>2, <1>4, <1>5, <1>6, <1>7, <1>8, <1>9, <1>11, <1>12, <1>13, <1>14,
     <1>15, <1>16 DEF Run

LEMMA TickKeepsType ==
  ASSUME StartTypeOK, Tick
  PROVE  StartTypeOK'
<1> USE TimesNat
<1>1. idle' \in [Peer -> 0 .. Threshold + 1]
  BY DEF Tick, StartTypeOK, Due
<1>2. waited' \in [Peer -> Nat]
  BY DEF Tick, StartTypeOK
<1>3. ASSUME NEW p \in Peer, Timed(p)'
      PROVE  waited'[p] <= Limit(stage'[p])
  <2>1. Limit(stage[p]) \in Nat /\ Timed(p)
    BY <1>3, LimitIsNat DEF Timed, Tick
  <2> QED
    BY <2>1 DEF Tick, StartTypeOK, Due
<1> QED
  BY <1>1, <1>2, <1>3 DEF Tick, StartTypeOK

(* Every variable keeps its type; no timed stage outlasts its limit and no *)
(* watchdog is looked at later than one poll after its threshold.          *)
THEOREM StartTypeCorrect == Spec => []StartTypeOK
<1>1. StartTypeOK /\ [Next]_vars => StartTypeOK'
  <2> SUFFICES ASSUME StartTypeOK, [Next]_vars PROVE StartTypeOK'
    OBVIOUS
  <2>1. CASE Next
    BY <2>1, RunKeepsType, TickKeepsType DEF Next
  <2>2. CASE UNCHANGED vars
    BY <2>2 DEF vars, StartTypeOK, Timed
  <2> QED BY <2>1, <2>2
<1> QED BY <1>1, InitType, PTL DEF Spec

-----------------------------------------------------------------------------
(* No mismatch plays.                                                      *)

\* A peer that disagrees says so.
LEMMA DiffersDisagrees ==
  ASSUME StartTypeOK, NEW p \in Peer, Differs(p)
  PROVE  ~Agrees(p)
  BY PairingsOfBuilds
     DEF StartTypeOK, Differs, Agrees, CompareOffer, CompareNamedDigest,
         Step0Verified, VerifyDeclaration, Build, Step0

Unplayed == {"init", "handshake", "error"}

LEMMA UnplayedAttempts ==
  ASSUME NEW s \in Unplayed
  PROVE  /\ Attempt(s, "handshake") \in {"handshake", "error"}
         /\ Attempt(s, "error") \in Unplayed
  BY DEF Unplayed, Attempt, Accepts, Allowed, Recoverable

LEMMA RunKeepsMismatch ==
  ASSUME StartTypeOK, MismatchNeverPlays, NEW p \in Peer,
         Start(p) \/ Run(p) \/ Wedge(p)
  PROVE  MismatchNeverPlays'
<1> SUFFICES ASSUME NEW r \in Peer, Differs(r)'
             PROVE  /\ stage'[r] \notin InGame
                    /\ Differs(Other(r))' => machine'[r] \in Unplayed
  BY DEF MismatchNeverPlays, Unplayed
<1> USE DEF StartTypeOK
<1>0. /\ build' = build /\ Differs(r) /\ stage[r] \notin InGame
      /\ Differs(Other(r))' = Differs(Other(r))
      /\ Differs(Other(r)) => machine[r] \in Unplayed
  <2>1. build' = build
    BY DEF Start, Run, Wedge, Connected, ConnectRefused, ConnectTimesOut, BackoffOver,
           HandshakeAnswered, DeclarationDenied, HandshakeLost, AttemptAnswered,
           AttemptTimesOut, NextAttempt, Freeze, Leave
  <2> QED BY <2>1 DEF MismatchNeverPlays, Differs, Unplayed
<1>1. ASSUME UNCHANGED machine, NEW s, s \notin InGame, stage' = [stage EXCEPT ![p] = s]
      PROVE  /\ stage'[r] \notin InGame
             /\ Differs(Other(r))' => machine'[r] \in Unplayed
  BY <1>1, <1>0
<1>2. CASE Start(p)
  BY <1>2, <1>1 DEF Start, Enter, InGame
<1>3. CASE Connected(p)
  BY <1>3, <1>0, UnplayedAttempts DEF Connected, BeginHandshake, Enter, InGame, Unplayed
<1>4. CASE ConnectRefused(p) \/ ConnectTimesOut(p)
  <2>1. /\ UNCHANGED machine
        /\ \E s \in {"backoff", "no_game", "raised"} : stage' = [stage EXCEPT ![p] = s]
    BY <1>4 DEF ConnectRefused, ConnectTimesOut, ConnectFailed, AfterFailure, Enter
  <2> QED BY <2>1, <1>1 DEF InGame
<1>5. CASE BackoffOver(p)
  BY <1>5, <1>1 DEF BackoffOver, Enter, InGame
<1>6. CASE HandshakeAnswered(p)
  <2>1. CASE r = p
    <3>1. ~Agrees(p)
      BY <2>1, <1>0, DiffersDisagrees
    <3>2. stage'[p] \notin InGame /\ machine'[p] = Attempt(machine[p], "error")
      BY <3>1, <1>6 DEF HandshakeAnswered, Enter, InGame
    <3> QED BY <2>1, <3>2, <1>0, UnplayedAttempts
  <2>2. CASE r = Other(p)
    <3>1. stage'[r] = stage[r] /\ machine'[r] = Responded(r)
      BY <2>2, <1>6 DEF HandshakeAnswered, Enter
    <3> QED BY <3>1, <1>0, UnplayedAttempts DEF Responded, Unplayed
  <2> QED BY <2>1, <2>2
<1>7. CASE DeclarationDenied(p)
  BY <1>7, <1>0, UnplayedAttempts DEF DeclarationDenied, Enter, InGame, Responded, Unplayed
<1>8. CASE HandshakeLost(p)
  <2>1. stage'[r] \notin InGame
    BY <1>8, <1>0 DEF HandshakeLost, Enter, InGame
  <2>2. machine'[r] = machine[r] \/ machine'[r] = Responded(r)
    BY <1>8 DEF HandshakeLost
  <2> QED BY <2>1, <2>2, <1>0, UnplayedAttempts DEF Responded, Unplayed
<1>9. CASE AttemptAnswered(p) \/ AttemptTimesOut(p) \/ NextAttempt(p)
  <2>1. stage[p] \in InGame
    BY <1>9 DEF AttemptAnswered, AttemptTimesOut, NextAttempt, InGame
  <2>2. stage'[r] = stage[r] /\ machine'[r] = machine[r]
    BY <2>1, <1>9, <1>0
       DEF AttemptAnswered, AttemptTimesOut, NextAttempt, GameEnds, Enter
  <2> QED BY <2>2, <1>0
<1>10. CASE Freeze(p) \/ Leave(p) \/ Wedge(p)
  BY <1>10, <1>1 DEF Freeze, Leave, Wedge, InGame
<1> QED
  BY <1>2, <1>3, <1>4, <1>5, <1>6, <1>7, <1>8, <1>9, <1>10 DEF Run

(* Rules 11 and 23 for every pair of builds: a peer whose opponent locked  *)
(* something else than it did is never in its game.                        *)
THEOREM MismatchSafe == Spec => []MismatchNeverPlays
<1>1. Init => MismatchNeverPlays
  BY DEF Init, MismatchNeverPlays, InGame
<1>2. StartTypeOK /\ MismatchNeverPlays /\ [Next]_vars => MismatchNeverPlays'
  <2> SUFFICES ASSUME StartTypeOK, MismatchNeverPlays, [Next]_vars
               PROVE  MismatchNeverPlays'
    OBVIOUS
  <2>1. CASE Tick
    BY <2>1 DEF Tick, MismatchNeverPlays, Differs
  <2>2. CASE UNCHANGED vars
    BY <2>2 DEF vars, MismatchNeverPlays, Differs
  <2> QED BY <2>1, <2>2, RunKeepsMismatch DEF Next
<1> QED BY <1>1, <1>2, StartTypeCorrect, PTL DEF Spec
-----------------------------------------------------------------------------
(* One game, one id.                                                       *)

\* A peer keeps the id it drew until its handshake is answered; the police
\* keeps it for good; a candidate set holds both ids; and unless a log could
\* not be moved a thief in its game runs under the id the police published.
IdInv ==
  /\ gid["police"] = "police"
  /\ stage["thief"] \in Opening \cup {"off"} => gid["thief"] = "thief"
  /\ \A p \in Peer : known[p] \in {{}, Peer}
  /\ stage["thief"] \in InGame /\ Named(build["police"]) /\ faults = 0
       => gid["thief"] = "police"

LEMMA AdoptedIds ==
  ASSUME StartTypeOK, IdInv, NEW p \in Peer, stage[p] = "handshake"
  PROVE  LET theirs == build[Other(p)] IN
         /\ Candidates(p, gid[p], theirs) \in {{}, Peer}
         /\ p = "police" => NegotiatedGameId(p, gid[p], theirs) = gid[p]
         /\ p = "thief" /\ Named(theirs) => NegotiatedGameId(p, gid[p], theirs) = "police"
  BY DEF IdInv, Candidates, NegotiatedGameId, Opening

LEMMA RunKeepsIds ==
  ASSUME StartTypeOK, IdInv, NEW p \in Peer, Start(p) \/ Run(p) \/ Wedge(p)
  PROVE  IdInv'
<1> USE DEF StartTypeOK
<1>1. ASSUME UNCHANGED <<gid, known, build>>, NEW s,
             stage' = [stage EXCEPT ![p] = s],
             s \in Opening => stage[p] \in Opening \cup {"off"},
             s \in InGame => stage[p] \in InGame,
             s # "off", faults' = 0 => faults = 0
      PROVE  IdInv'
  BY <1>1 DEF IdInv
<1>2. CASE Start(p)
  BY <1>2, <1>1 DEF Start, Enter, Opening, InGame
<1>3. CASE Connected(p)
  BY <1>3, <1>1 DEF Connected, BeginHandshake, Enter, Opening, InGame
<1>4. CASE ConnectRefused(p) \/ ConnectTimesOut(p)
  <2>1. /\ UNCHANGED <<gid, known, build>> /\ (faults' = 0 => faults = 0)
        /\ stage[p] = "connect"
        /\ \E s \in {"backoff", "no_game", "raised"} : stage' = [stage EXCEPT ![p] = s]
    BY <1>4 DEF ConnectRefused, ConnectTimesOut, ConnectFailed, AfterFailure, Enter, Inject
  <2> QED BY <2>1, <1>1 DEF Opening, InGame
<1>5. CASE BackoffOver(p)
  BY <1>5, <1>1 DEF BackoffOver, Enter, Opening, InGame
<1>6. CASE HandshakeAnswered(p) /\ Agrees(p)
  <2>1. /\ stage[p] = "handshake" /\ build' = build /\ Adopt(p)
        /\ stage' = [stage EXCEPT ![p] = "attempt"]
    BY <1>6 DEF HandshakeAnswered, Enter
  <2>2. known' = [known EXCEPT ![p] = Candidates(p, gid[p], build[Other(p)])]
    BY <2>1 DEF Adopt, RelocateLog
  <2>3. CASE p = "police"
    <3>1. gid' = gid /\ faults' = faults
      BY <2>1, <2>3, AdoptedIds DEF Adopt, RelocateLog
    <3> QED BY <2>1, <2>2, <2>3, <3>1, AdoptedIds DEF IdInv
  <2>4. CASE p = "thief"
    <3>1. /\ gid'["police"] = gid["police"]
          /\ faults' = 0 /\ Named(build["police"]) => gid'["thief"] = "police"
      BY <2>1, <2>4, AdoptedIds DEF Adopt, RelocateLog, Inject
    <3> QED BY <2>1, <2>2, <2>4, <3>1, AdoptedIds DEF IdInv, Opening
  <2> QED BY <2>3, <2>4
<1>7. CASE HandshakeAnswered(p) /\ ~Agrees(p)
  BY <1>7, <1>1 DEF HandshakeAnswered, Enter, Opening, InGame
<1>8. CASE DeclarationDenied(p)
  <2>1. /\ stage[p] = "handshake" /\ build' = build /\ faults' # 0
        /\ stage' = [stage EXCEPT ![p] = "raised"]
        /\ gid' = [gid EXCEPT ![p] = NegotiatedGameId(p, gid[p], build[Other(p)])]
        /\ known' = [known EXCEPT ![p] = Candidates(p, gid[p], build[Other(p)])]
    BY <1>8, StartFaultsNat DEF DeclarationDenied, Enter, Inject
  <2> QED BY <2>1, AdoptedIds DEF IdInv, Opening, InGame
<1>9. CASE HandshakeLost(p)
  <2>1. /\ UNCHANGED <<gid, known, build>>
        /\ \E s \in {"no_game", "raised"} : stage' = [stage EXCEPT ![p] = s]
    BY <1>9 DEF HandshakeLost, Enter
  <2>2. faults' = faults \/ faults' = faults + 1
    BY <1>9 DEF HandshakeLost, Inject
  <2>3. faults' = 0 => faults = 0
    BY <2>2, StartFaultsNat
  <2> QED BY <2>1, <2>3, <1>1 DEF Opening, InGame
<1>10. CASE AttemptAnswered(p) \/ AttemptTimesOut(p) \/ NextAttempt(p)
  <2>1. /\ UNCHANGED <<gid, known, build, faults>> /\ stage[p] \in InGame
        /\ \E s \in InGame \cup {"ended"} : stage' = [stage EXCEPT ![p] = s]
    BY <1>10 DEF AttemptAnswered, AttemptTimesOut, NextAttempt, GameEnds, Enter, InGame
  <2> QED BY <2>1, <1>1 DEF Opening, InGame
<1>11. CASE Freeze(p) \/ Leave(p) \/ Wedge(p)
  <2>1. /\ UNCHANGED <<gid, known, build>> /\ (faults' = 0 => faults = 0)
        /\ \E s \in {"killed", "gone", "wedged"} : stage' = [stage EXCEPT ![p] = s]
    BY <1>11, StartFaultsNat DEF Freeze, Leave, Wedge, Inject
  <2> QED BY <2>1, <1>1 DEF Opening, InGame
<1> QED
  BY <1>2, <1>3, <1>4, <1>5, <1>6, <1>7, <1>8, <1>9, <1>10, <1>11 DEF Run

LEMMA IdsInvariant == Spec => []IdInv
<1>1. Init => IdInv
  BY DEF Init, IdInv, InGame
<1>2. StartTypeOK /\ IdInv /\ [Next]_vars => IdInv'
  <2> SUFFICES ASSUME StartTypeOK, IdInv, [Next]_vars PROVE IdInv'
    OBVIOUS
  <2>1. CASE Tick
    BY <2>1 DEF Tick, IdInv
  <2>2. CASE UNCHANGED vars
    BY <2>2 DEF vars, IdInv
  <2> QED BY <2>1, <2>2, RunKeepsIds DEF Next
<1> QED BY <1>1, <1>2, StartTypeCorrect, PTL DEF Spec

(* D-61: two peers in a game run it under the id the police published,     *)
(* when every log could be moved.                                          *)
THEOREM GamesAreJoined == Spec => []SameGameId
<1>1. IdInv => SameGameId
  BY DEF IdInv, SameGameId
<1> QED BY <1>1, IdsInvariant, PTL

(* Whatever log could not be moved, the id an honest opponent seals into   *)
(* its records passes the membership test of the audit.                    *)
THEOREM AuditIsForewarned == Spec => []AuditKnowsTheId
<1>1. StartTypeOK /\ IdInv => AuditKnowsTheId
  BY DEF IdInv, AuditKnowsTheId, StartTypeOK
<1> QED BY <1>1, IdsInvariant, StartTypeCorrect, PTL

-----------------------------------------------------------------------------
(* A late offer.                                                           *)

\* A machine that agrees waits in HANDSHAKE for the answer to its own offer,
\* whatever it answered itself in the meantime.
OfferInv ==
  /\ \A p \in Peer : stage[p] = "handshake" /\ Agrees(p) => machine[p] = "handshake"
  /\ LateHandshakeHarmless

\* Answering an offer moves no machine that agrees or plays.
LEMMA RespondedStays ==
  ASSUME StartTypeOK, NEW q \in Peer
  PROVE  /\ machine[q] = "handshake" /\ Agrees(q) => Responded(q) = "handshake"
         /\ machine[q] \in {"my_turn", "wait_opponent"} => Responded(q) = machine[q]
  BY DEF Responded, Attempt, Accepts, Allowed, Recoverable

LEMMA RunKeepsOffer ==
  ASSUME StartTypeOK, OfferInv, NEW p \in Peer, Start(p) \/ Run(p) \/ Wedge(p)
  PROVE  OfferInv'
<1> USE DEF StartTypeOK
<1> DEFINE Plays == {"my_turn", "wait_opponent"}
<1>0. \A q \in Peer : Agrees(q)' = Agrees(q)
  <2>1. build' = build
    BY DEF Start, Run, Wedge, Connected, ConnectRefused, ConnectTimesOut, BackoffOver,
           HandshakeAnswered, DeclarationDenied, HandshakeLost, AttemptAnswered,
           AttemptTimesOut, NextAttempt, Freeze, Leave
  <2> QED BY <2>1 DEF Agrees
\* The stage p enters, and what every other machine keeps.
<1>1. ASSUME NEW s, stage' = [stage EXCEPT ![p] = s],
             \A q \in Peer \ {p} : machine'[q] \in {machine[q], Responded(q)},
             s = "handshake" /\ Agrees(p) => machine'[p] = "handshake",
             s \in InGame => machine'[p] \in Plays
      PROVE  OfferInv'
  <2> SUFFICES ASSUME NEW q \in Peer
               PROVE  /\ stage'[q] = "handshake" /\ Agrees(q) => machine'[q] = "handshake"
                      /\ stage'[q] \in InGame => machine'[q] \in Plays
    BY <1>0 DEF OfferInv, LateHandshakeHarmless
  <2>1. CASE q = p
    BY <1>1, <2>1
  <2>2. CASE q # p
    BY <1>1, <2>2, RespondedStays DEF OfferInv, LateHandshakeHarmless
  <2> QED BY <2>1, <2>2
<1>2. CASE \/ Start(p) \/ ConnectRefused(p) \/ ConnectTimesOut(p) \/ BackoffOver(p)
           \/ Freeze(p) \/ Leave(p) \/ Wedge(p)
  <2>1. /\ UNCHANGED machine
        /\ \E s : s \notin InGame \cup {"handshake"} /\ stage' = [stage EXCEPT ![p] = s]
    BY <1>2 DEF Start, ConnectRefused, ConnectTimesOut, BackoffOver, ConnectFailed,
                AfterFailure, Freeze, Leave, Wedge, Enter, InGame
  <2> QED BY <2>1, <1>1
<1>3. CASE Connected(p)
  <2>1. \E s \in {"handshake", "no_game"} :
          /\ stage' = [stage EXCEPT ![p] = s] /\ (s = "handshake" => machine'[p] = "handshake")
          /\ \A q \in Peer \ {p} : machine'[q] = machine[q]
    BY <1>3 DEF Connected, BeginHandshake, Enter
  <2> QED BY <2>1, <1>1 DEF InGame
<1>4. CASE HandshakeAnswered(p) /\ Agrees(p)
  <2>1. machine[p] = "handshake"
    BY <1>4 DEF OfferInv, HandshakeAnswered
  <2>2. machine'[p] \in Plays /\ \A q \in Peer \ {p} : machine'[q] = Responded(q)
    BY <1>4, <2>1 DEF HandshakeAnswered, Attempt, Accepts, Allowed
  <2>3. stage' = [stage EXCEPT ![p] = "attempt"]
    BY <1>4 DEF HandshakeAnswered, Enter
  <2> QED BY <2>2, <2>3, <1>1
<1>5. CASE \/ HandshakeAnswered(p) /\ ~Agrees(p)
           \/ DeclarationDenied(p) \/ HandshakeLost(p)
  <2>1. /\ \A q \in Peer \ {p} : machine'[q] \in {machine[q], Responded(q)}
        /\ \E s \in {"no_game", "raised"} : stage' = [stage EXCEPT ![p] = s]
    BY <1>5 DEF HandshakeAnswered, DeclarationDenied, HandshakeLost, Enter
  <2> QED BY <2>1, <1>1 DEF InGame
<1>6. CASE AttemptAnswered(p) \/ AttemptTimesOut(p) \/ NextAttempt(p)
  <2>1. machine[p] \in Plays
    BY <1>6 DEF AttemptAnswered, AttemptTimesOut, NextAttempt, InGame, OfferInv,
                LateHandshakeHarmless
  <2>2. /\ \A q \in Peer \ {p} : machine'[q] = machine[q]
        /\ \E s \in InGame \cup {"ended"} :
             /\ stage' = [stage EXCEPT ![p] = s]
             /\ s \in InGame => machine'[p] = machine[p]
    BY <1>6 DEF AttemptAnswered, AttemptTimesOut, NextAttempt, GameEnds, Enter, InGame
  <2> QED BY <2>1, <2>2, <1>1 DEF InGame
<1> QED
  BY <1>2, <1>3, <1>4, <1>5, <1>6 DEF Run

(* handshake.py answers the offer of a slower peer out of a running game   *)
(* and never takes the machine out of it.                                  *)
THEOREM LateOffersTolerated == Spec => []LateHandshakeHarmless
<1>1. Init => OfferInv
  BY DEF Init, OfferInv, LateHandshakeHarmless, InGame
<1>2. StartTypeOK /\ OfferInv /\ [Next]_vars => OfferInv'
  <2> SUFFICES ASSUME StartTypeOK, OfferInv, [Next]_vars PROVE OfferInv'
    OBVIOUS
  <2>1. CASE Tick
    BY <2>1 DEF Tick, OfferInv, LateHandshakeHarmless, Agrees
  <2>2. CASE UNCHANGED vars
    BY <2>2 DEF vars, OfferInv, LateHandshakeHarmless, Agrees
  <2> QED BY <2>1, <2>2, RunKeepsOffer DEF Next
<1>3. OfferInv => LateHandshakeHarmless
  BY DEF OfferInv
<1> QED BY <1>1, <1>2, <1>3, StartTypeCorrect, PTL DEF Spec

-----------------------------------------------------------------------------
(* The watchdog.                                                           *)

\* In its game a peer was last seen at the start of the attempt it makes, of
\* the attempt before the pause it is in, or of the call it thinks in.
ClockInv ==
  \A p \in Peer :
    /\ stage[p] \in {"attempt", "think"} => idle[p] <= waited[p]
    /\ stage[p] = "pause" => idle[p] <= Timeout + waited[p]

LEMMA RunKeepsClock ==
  ASSUME StartTypeOK, ClockInv, NEW p \in Peer, Start(p) \/ Run(p) \/ Wedge(p)
  PROVE  ClockInv'
<1> USE TimesNat DEF StartTypeOK
<1>1. ASSUME NEW s, s \notin InGame, stage' = [stage EXCEPT ![p] = s],
             \A q \in Peer \ {p} : idle'[q] = idle[q] /\ waited'[q] = waited[q]
      PROVE  ClockInv'
  BY <1>1 DEF ClockInv, InGame
<1>2. ASSUME NEW s, Enter(p, s), Touch(p)
      PROVE  ClockInv'
  BY <1>2 DEF ClockInv, Enter, Touch
<1>3. CASE Start(p)
  BY <1>3, <1>2 DEF Start
<1>4. CASE Connected(p) \/ ConnectRefused(p) \/ ConnectTimesOut(p) \/ BackoffOver(p)
             \/ DeclarationDenied(p) \/ HandshakeLost(p)
  <2>1. \E s : s \notin InGame /\ Enter(p, s) /\ UNCHANGED idle
    BY <1>4 DEF Connected, BeginHandshake, ConnectRefused, ConnectTimesOut, BackoffOver,
                DeclarationDenied, HandshakeLost, ConnectFailed, AfterFailure,
                Untouched, InGame
  <2> QED BY <2>1, <1>1 DEF Enter
<1>5. CASE HandshakeAnswered(p)
  <2>1. CASE Agrees(p)
    BY <2>1, <1>5, <1>2 DEF HandshakeAnswered, TouchOnAttempt
  <2>2. CASE ~Agrees(p)
    BY <2>2, <1>5, <1>1 DEF HandshakeAnswered, Enter, Untouched, InGame
  <2> QED BY <2>1, <2>2
<1>6. CASE AttemptAnswered(p)
  BY <1>6, <1>2 DEF AttemptAnswered, GameEnds
<1>7. CASE AttemptTimesOut(p)
  BY <1>7, <1>2 DEF AttemptTimesOut, GameEnds, Enter, Untouched, ClockInv
<1>8. CASE NextAttempt(p)
  BY <1>8, <1>2 DEF NextAttempt, TouchOnAttempt
<1>9. CASE Freeze(p) \/ Leave(p) \/ Wedge(p)
  BY <1>9, <1>1 DEF Freeze, Leave, Wedge, InGame
<1> QED
  BY <1>3, <1>4, <1>5, <1>6, <1>7, <1>8, <1>9 DEF Run

LEMMA ClockInvariant == Spec => []ClockInv
<1>1. Init => ClockInv
  BY DEF Init, ClockInv
<1>2. StartTypeOK /\ ClockInv /\ [Next]_vars => ClockInv'
  <2> SUFFICES ASSUME StartTypeOK, ClockInv, [Next]_vars PROVE ClockInv'
    OBVIOUS
  <2>1. CASE Tick
    BY <2>1, TimesNat DEF Tick, ClockInv, StartTypeOK, Timed, InGame, Opening, Armed
  <2>2. CASE UNCHANGED vars
    BY <2>2 DEF vars, ClockInv
  <2> QED BY <2>1, <2>2, RunKeepsClock DEF Next
<1> QED BY <1>1, <1>2, StartTypeCorrect, PTL DEF Spec

(* NET-06 under NET-07, for every setting in which one attempt and the     *)
(* pause after it fit under the threshold: the watchdog never ends a game  *)
(* whose ladder is still waiting, however long the opponent is silent.     *)
THEOREM WatchdogIsPatient ==
  ASSUME Timeout + Backoff <= Threshold
  PROVE  Spec => NoFalseFreeze
<1>1. StartTypeOK /\ ClockInv /\ [Next]_vars
        => [\A p \in Peer : stage[p] \in InGame => stage'[p] # "killed"]_vars
  <2> SUFFICES ASSUME StartTypeOK, ClockInv, Next, NEW p \in Peer,
                      stage[p] \in InGame, stage'[p] = "killed"
               PROVE  FALSE
    OBVIOUS
  <2>1. idle[p] <= Threshold
    BY TimesNat DEF StartTypeOK, ClockInv, InGame, Timed, Limit, Budget
  <2>2. stage[p] # "killed"
    BY DEF InGame
  <2>3. PICK q \in Peer : Start(q) \/ Run(q) \/ Wedge(q)
    BY <2>2 DEF Next, Tick
  <2>4. Freeze(q) /\ q = p
    BY <2>2, <2>3
       DEF StartTypeOK, Run, Start, Wedge, Connected, BeginHandshake, ConnectRefused,
           ConnectTimesOut, BackoffOver, HandshakeAnswered, DeclarationDenied,
           HandshakeLost, AttemptAnswered, AttemptTimesOut, NextAttempt, Leave, Freeze,
           ConnectFailed, AfterFailure, GameEnds, Enter
  <2> QED BY <2>1, <2>4, TimesNat DEF Freeze, StartTypeOK
<1> QED BY <1>1, StartTypeCorrect, ClockInvariant, PTL DEF Spec, NoFalseFreeze

-----------------------------------------------------------------------------
\* What an accepted configuration gives the rest of the program, for every
\* file: the assumptions the other modules make of their parameters.


LEMMA IntegerRead ==
  ASSUME NEW d, NEW k, IsInt(d, k)
  PROVE  IntAt(d, k) \in Int
BY DEF IsInt, IntAt, Whole, Truth

LEMMA FloorRead ==
  ASSUME NEW d, NEW k, NEW floor \in Nat, AtLeast(d, k, floor)
  PROVE  IntAt(d, k) \in Nat /\ IntAt(d, k) >= floor
BY IntegerRead DEF AtLeast

(* The gatekeeper group of either file satisfies Gatekeeper's assumptions:  *)
(* there are slots and a queue, the rate is positive, and a failed call is  *)
(* retried (shared/language_config.py:80-97, shared/reporting_config.py).   *)
LEMMA GroupIsFed ==
  ASSUME NEW g, ReadsGatekeeper(g)
  PROVE  LET p == GatekeeperParams(g) IN
         /\ p.parallel_requests \in Nat \ {0, 1}
         /\ p.requests_per_minute \in Nat \ {0}
         /\ p.queue_depth \in Nat \ {0} /\ p.retries_before_failure \in Nat \ {0}
         /\ p.wait_after_error_seconds \in Nat \ {0}
<1>1. AtLeast(g, "requests_per_minute", 30) /\ AtLeast(g, "parallel_requests", 2)
  BY DEF ReadsGatekeeper, Minimum
<1>2. /\ AtLeast(g, "wait_after_error_seconds", 5)
      /\ AtLeast(g, "retries_before_failure", 3) /\ AtLeast(g, "queue_depth", 100)
  BY DEF ReadsGatekeeper, Minimum
<1>3. /\ IntAt(g, "requests_per_minute") \in Nat /\ IntAt(g, "requests_per_minute") >= 30
      /\ IntAt(g, "parallel_requests") \in Nat /\ IntAt(g, "parallel_requests") >= 2
  BY <1>1, FloorRead
<1>4. /\ IntAt(g, "wait_after_error_seconds") \in Nat
      /\ IntAt(g, "wait_after_error_seconds") >= 5
      /\ IntAt(g, "retries_before_failure") \in Nat
      /\ IntAt(g, "retries_before_failure") >= 3
      /\ IntAt(g, "queue_depth") \in Nat /\ IntAt(g, "queue_depth") >= 100
  BY <1>2, FloorRead
<1> QED  BY <1>3, <1>4 DEF GatekeeperParams, Minimum, Negotiable

(* A language file that loads feeds Gatekeeper: Positive and Thresholds of  *)
(* that module hold of what it reads, the rungs of the budget come in order *)
(* and the last of them is reached before the budget is spent.              *)
THEOREM GatekeeperIsFed ==
  ASSUME NEW d, LoadsLanguage(d)
  PROVE  LET p == GatekeeperParams(At(d, "gatekeeper"))
             b == BudgetParams(At(d, "budget"))
         IN  /\ p.parallel_requests \in Nat \ {0, 1}
             /\ p.requests_per_minute \in Nat \ {0}
             /\ p.queue_depth \in Nat \ {0} /\ p.retries_before_failure \in Nat \ {0}
             /\ b.short_prompt_threshold_tokens \in Nat \ {0}
             /\ b.template_only_threshold_tokens \in Nat
             /\ b.short_prompt_threshold_tokens < b.template_only_threshold_tokens
             /\ b.template_only_threshold_tokens <= b.token_budget_per_series
<1>1. ReadsGatekeeper(At(d, "gatekeeper"))  BY DEF LoadsLanguage
<1>2. DegradeOrder(BudgetParams(At(d, "budget")))  BY DEF LoadsLanguage
<1>3. \A k \in BudgetFields : IntAt(At(d, "budget"), k) \in Int
  BY IntegerRead DEF LoadsLanguage
<1>4. LET b == BudgetParams(At(d, "budget")) IN
      /\ b.short_prompt_threshold_tokens \in Int
      /\ b.template_only_threshold_tokens \in Int
  BY <1>3 DEF BudgetParams, BudgetFields
<1>5. LET b == BudgetParams(At(d, "budget")) IN
      /\ b.short_prompt_threshold_tokens \in Nat \ {0}
      /\ b.template_only_threshold_tokens \in Nat
      /\ b.short_prompt_threshold_tokens < b.template_only_threshold_tokens
      /\ b.template_only_threshold_tokens <= b.token_budget_per_series
  BY <1>2, <1>4 DEF DegradeOrder
<1> QED  BY <1>1, <1>5, GroupIsFed

(* The belief is displayed over more cells than one step can reach, so a    *)
(* picture of it never narrows the opponent to a single step                *)
(* (shared/display_config.py:86-104).                                       *)
THEOREM PublishedSupportIsWide ==
  ASSUME Step \in Nat, NEW d, LoadsBelief(d)
  PROVE  MinSupportOf(d) \in Nat /\ MinSupportOf(d) > Step
<1>1. AtLeast(At(d, "display"), "min_support_cells", Step + 1)
  BY DEF LoadsBelief, ValidDisplayFloors
<1> QED  BY <1>1, FloorRead DEF MinSupportOf

(* Live play is concrete: a league file accepted in live mode states every  *)
(* link and address, none of them blank and none a placeholder              *)
(* (shared/league_config_fields.py:76-117).                                 *)
THEOREM LivePlayIsConcrete ==
  ASSUME NEW d, LoadsLeague(d, TRUE)
  PROVE  /\ AbsentSlots(d) = {}
         /\ \A s \in RepoSlots :
              At(At(At(d, "league"), "repo_urls"), s).v \notin Blank \cup Placeholder
         /\ \A s \in AddressSlots :
              At(At(At(d, "league"), "mcp_server_addresses"), s).v \notin Blank \cup Placeholder
<1>1. /\ \A s \in RepoSlots : ValidSlot(At(At(At(d, "league"), "repo_urls"), s), TRUE)
      /\ \A s \in AddressSlots :
           ValidSlot(At(At(At(d, "league"), "mcp_server_addresses"), s), TRUE)
  BY DEF LoadsLeague, ReadsSlots
<1>2. ASSUME NEW j, ValidSlot(j, TRUE)
      PROVE  j.is = "str" /\ j.v \notin Blank \cup Placeholder
  BY <1>2 DEF ValidSlot
<1>3. \A s \in RepoSlots :
        /\ At(At(At(d, "league"), "repo_urls"), s).is = "str"
        /\ At(At(At(d, "league"), "repo_urls"), s).v \notin Blank \cup Placeholder
  BY <1>1, <1>2
<1>4. \A s \in AddressSlots :
        /\ At(At(At(d, "league"), "mcp_server_addresses"), s).is = "str"
        /\ At(At(At(d, "league"), "mcp_server_addresses"), s).v \notin Blank \cup Placeholder
  BY <1>1, <1>2
<1>5. AbsentSlots(d) = {}  BY <1>3, <1>4 DEF AbsentSlots
<1> QED  BY <1>3, <1>4, <1>5
=============================================================================
