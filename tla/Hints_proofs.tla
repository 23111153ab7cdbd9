------------------------------ MODULE Hints_proofs ------------------------------
(***************************************************************************)
(* Hints: what holds of every hint that is written or read, whatever a     *)
(* model answers and however long it takes; and of the channel that brings *)
(* them, for every board, number of turns and of faults.  The argument of  *)
(* the second part is HintInv, the invariant of HintChannelInv.            *)
(***************************************************************************)
EXTENDS HintChannelInv, HintLanguage, Game_proofs, WellFoundedInduction, FiniteSetTheorems

-----------------------------------------------------------------------------
(* Words.                                                                  *)

LEMMA CutIsSendable ==
  ASSUME NEW text \in Text, NEW t \in Truncations(text), ~ t.coords
  PROVE  ~ t.coords /\ t.words <= WordLimit
<1>1. CASE text.words <= WordLimit  BY <1>1 DEF Truncations
<1>2. CASE ~ (text.words <= WordLimit)
  <2>1. t \in [words : 0 .. WordLimit, coords : BOOLEAN]  BY <1>2 DEF Truncations
  <2> QED  BY <2>1, LanguageAssumption
<1> QED  BY <1>1, <1>2

LEMMA WordedOrFromTheBank ==
  ASSUME NEW templated \in BOOLEAN, NEW first, NEW second,
         first.ok => first.text \in Text, second.ok => second.text \in Text,
         NEW t \in Wordings(templated, first, second)
  PROVE  \/ t \in BankText
         \/ ~ templated /\ Usable(first) /\ ~ t.coords /\ t.words <= WordLimit
<1>1. CASE templated \/ ~ Usable(first)  BY <1>1 DEF Wordings
<1>2. CASE ~ templated /\ Usable(first)
  <2> DEFINE candidate == Candidate(first, second)
  <2>1. candidate \in Text  BY <1>2 DEF Candidate, Usable
  <2>2. PICK u \in Truncations(candidate) : t \in IF u.coords THEN BankText ELSE {u}
    BY <1>2 DEF Wordings
  <2>3. CASE u.coords  BY <2>2, <2>3
  <2>4. CASE ~ u.coords
    <3>1. t = u  BY <2>2, <2>4
    <3> QED  BY <1>2, <2>1, <2>4, <3>1, CutIsSendable
  <2> QED  BY <2>3, <2>4
<1> QED  BY <1>1, <1>2

(* Whatever the provider answers, twice, and however long it takes, the     *)
(* hint that is sent holds no coordinate, so that build_hint never raises   *)
(* out of a turn, and it keeps to the role's word limit unless it is one of *)
(* the bank's, which keep to the police's (bluff.py:68-105, hint_payload.py:*)
(* 54-65, hintbank.py:153).                                                 *)
THEOREM SentHintIsSendable ==
  ASSUME NEW provider, NEW level, NEW first, NEW second,
         first.ok => first.text \in Text, second.ok => second.text \in Text,
         NEW remaining \in Nat, NEW took \in Nat,
         NEW t \in ComposeOutgoing(provider, level, first, second, remaining, took)
  PROVE  /\ ~ BuildHintRaises(t)
         /\ t.words <= WordLimit \/ t.words <= BankLimit
<1>1. \/ t \in BankText
      \/ ~ t.coords /\ t.words <= WordLimit
  <2>1. CASE remaining < MinCall \/ took >= remaining  BY <2>1 DEF ComposeOutgoing
  <2>2. CASE ~ (remaining < MinCall \/ took >= remaining)
    <3>1. t \in Wordings(Templated(provider, level), first, second)
      BY <2>2 DEF ComposeOutgoing
    <3>2. Templated(provider, level) \in BOOLEAN  BY DEF Templated
    <3> QED  BY <3>1, <3>2, WordedOrFromTheBank
  <2> QED  BY <2>1, <2>2
<1>2. CASE t \in BankText
  <2>1. t.words \in 1 .. BankLimit /\ t.coords \in {FALSE}  BY <1>2 DEF BankText
  <2>2. ~ t.coords  BY <2>1, Zenon
  <2>3. t.words <= BankLimit  BY <2>1, LanguageAssumption
  <2> QED  BY <2>2, <2>3 DEF BuildHintRaises
<1> QED  BY <1>1, <1>2 DEF BuildHintRaises

(* Step 0 tells the truth about who speaks: a peer that declared the        *)
(* template fallback sends nothing but the bank's phrasings, all game       *)
(* (language_wiring.py:62-80, against anthropic_provider.py:98-101).        *)
THEOREM DeclaredIsWhatSpeaks ==
  ASSUME NEW provider, NEW level, NEW keyed \in BOOLEAN,
         DeclaredName(provider, keyed) = "template-fallback",
         NEW answer, NEW again, NEW remaining, NEW took
  PROVE  ComposeOutgoing(provider, level, ProviderReply(keyed, answer, FALSE),
                  ProviderReply(keyed, again, FALSE), remaining, took) = BankText
<1> DEFINE first == ProviderReply(keyed, answer, FALSE)
           second == ProviderReply(keyed, again, FALSE)
<1>1. CASE provider = "template"
  <2>1. Wordings(Templated(provider, level), first, second) = BankText
    BY <1>1 DEF Wordings, Templated
  <2> QED  BY <2>1 DEF ComposeOutgoing
<1>2. CASE ~ keyed
  <2>1. ~ first.ok  BY <1>2 DEF ProviderReply, Failure
  <2>2. Wordings(Templated(provider, level), first, second) = BankText
    BY <2>1 DEF Wordings, Usable
  <2> QED  BY <2>2 DEF ComposeOutgoing
<1>3. provider = "template" \/ ~ keyed  BY DEF DeclaredName
<1> QED  BY <1>1, <1>2, <1>3

-----------------------------------------------------------------------------
(* No region of a board of three or more rows is empty.                     *)
LEMMA BandsAreInhabited ==
  ASSUME BoardSize \in Nat, BoardSize >= 3, NEW b \in 0 .. 2
  PROVE  \E i \in 0 .. BoardSize - 1 : Band(i) = b
<1>1. CASE b = 0
  <2>1. 0 \in 0 .. BoardSize - 1 /\ Band(0) = 0  BY DEF Band
  <2> QED  BY <1>1, <2>1
<1>2. CASE b = 1
  <2> DEFINE i == (BoardSize + 2) \div 3
  <2>1. i \in Int /\ 3 * i >= BoardSize /\ 3 * i <= BoardSize + 2  BY SMT
  <2>2. i \in 0 .. BoardSize - 1 /\ ~ (3 * i < BoardSize) /\ 3 * i < 2 * BoardSize
    BY <2>1, SMT
  <2>3. Band(i) = 1  BY <2>2 DEF Band
  <2> QED  BY <1>2, <2>2, <2>3
<1>3. CASE b = 2
  <2>1. /\ BoardSize - 1 \in 0 .. BoardSize - 1
        /\ ~ (3 * (BoardSize - 1) < BoardSize) /\ ~ (3 * (BoardSize - 1) < 2 * BoardSize)
    BY SMT
  <2>2. Band(BoardSize - 1) = 2  BY <2>1 DEF Band
  <2> QED  BY <1>3, <2>1, <2>2
<1> QED  BY <1>1, <1>2, <1>3

LEMMA RegionsAreInhabited ==
  ASSUME BoardSize \in Nat, BoardSize >= 3, NEW r \in Region
  PROVE  RegionCells(r) # {} /\ RegionCells(r) \subseteq Square
<1>1. Sector[r] \in (0 .. 2) \X (0 .. 2)  BY DEF Sector, Region, RegionNames
<1>2. PICK i \in 0 .. BoardSize - 1 : Band(i) = Sector[r][1]  BY <1>1, BandsAreInhabited
<1>3. PICK j \in 0 .. BoardSize - 1 : Band(j) = Sector[r][2]  BY <1>1, BandsAreInhabited
<1>4. <<i, j>> \in Square  BY <1>2, <1>3 DEF Square
<1> QED  BY <1>2, <1>3, <1>4 DEF RegionCells

(* Whatever a model's JSON holds, what is decoded from a hint can be used:  *)
(* its confidence is a probability and, when it is evidence, it claims      *)
(* cells, all of them on the board: Inference never raises, and the scent   *)
(* check never takes the strongest of no cells (decode_schema.py:57-98,     *)
(* scent_check.py:66-68).  The board has three rows or more.                *)
THEOREM DecodedIsUsable ==
  ASSUME BoardSize \in Nat, BoardSize >= 3,
         NEW provider, NEW hint, NEW reply, NEW remaining, NEW took
  PROVE  LET inference == DecodeIncoming(provider, hint, reply, remaining, took)
         IN  /\ inference.confidence \in 0 .. One
             /\ IsEvidence(inference) =>
                  ClaimedCells(inference) # {} /\ ClaimedCells(inference) \subseteq Square
<1> DEFINE inference == DecodeIncoming(provider, hint, reply, remaining, took)
           r == reply.response
<1>1. \/ inference = NoEvidence
      \/ Schema(r) /\ inference = Inferred(r.region, r.cells, r.confidence)
  BY DEF DecodeIncoming, Decode, Validate
<1>2. CASE inference = NoEvidence
  <2>1. inference.confidence = 0  BY <1>2 DEF NoEvidence, Inferred
  <2>2. ~ IsEvidence(inference)  BY <2>1 DEF IsEvidence
  <2> QED  BY <2>1, <2>2, ScentAssumption
<1>3. CASE Schema(r) /\ inference = Inferred(r.region, r.cells, r.confidence)
  <2>1. /\ inference.confidence = r.confidence /\ inference.cells = r.cells
        /\ inference.region = r.region
    BY <1>3 DEF Inferred
  <2>2. /\ r.confidence \in 0 .. One /\ r.cells \subseteq Square
        /\ r.region \in Region \cup {"null"}
    BY <1>3 DEF Schema
  <2>3. ASSUME IsEvidence(inference)
        PROVE  ClaimedCells(inference) # {} /\ ClaimedCells(inference) \subseteq Square
    <3>1. CASE r.cells # {}  BY <2>1, <2>2, <3>1 DEF ClaimedCells
    <3>2. CASE r.cells = {}
      <4>1. r.region \in Region  BY <2>1, <2>2, <2>3, <3>2 DEF IsEvidence
      <4>2. ClaimedCells(inference) = RegionCells(r.region)
        BY <2>1, <3>2 DEF ClaimedCells
      <4> QED  BY <4>1, <4>2, RegionsAreInhabited
    <3> QED  BY <3>1, <3>2
  <2> QED  BY <2>1, <2>2, <2>3
<1> QED  BY <1>1, <1>2, <1>3

-----------------------------------------------------------------------------
(* The calls of the initiator's turn never push it past its budget: what    *)
(* takes it over is its decision and the exchange alone.  The responder's   *)
(* two calls may take a budget each (turn_actions.py:88-94, although        *)
(* language_turn.py:12 computes the budget once per turn).                  *)
THEOREM TurnFitsItsBudget ==
  ASSUME NEW decode \in Nat, NEW between \in Nat, NEW compose \in Nat
  PROVE  /\ \/ InitiatorEnds(decode, between, compose) <= Budget
            \/ InitiatorEnds(decode, between, compose) = Waited(Budget, decode) + between
         /\ ResponderEnds(decode, between, compose) <= 2 * Budget + between
<1>1. \A n, m \in Nat : Waited(n, m) \in Nat /\ Waited(n, m) <= n
  BY LanguageAssumption DEF Waited
<1>2. \A n \in Nat : /\ Remaining(n) \in Nat
                     /\ n < Budget => Remaining(n) = Budget - n
                     /\ ~ (n < Budget) => Remaining(n) = 0
  BY LanguageAssumption DEF Remaining
<1> DEFINE elapsed == Waited(Budget, decode) + between
<1>3. Waited(Budget, decode) \in Nat /\ Waited(Budget, decode) <= Budget
  BY <1>1, LanguageAssumption
<1>4. elapsed \in Nat  BY <1>3
<1>5. Waited(Remaining(elapsed), compose) \in Nat
      /\ Waited(Remaining(elapsed), compose) <= Remaining(elapsed)
  BY <1>1, <1>2, <1>4
<1>6. InitiatorEnds(decode, between, compose) = elapsed + Waited(Remaining(elapsed), compose)
  BY DEF InitiatorEnds
<1>7. \/ InitiatorEnds(decode, between, compose) <= Budget
      \/ InitiatorEnds(decode, between, compose) = elapsed
  <2>1. CASE elapsed < Budget
    <3>1. Remaining(elapsed) = Budget - elapsed  BY <1>2, <1>4, <2>1
    <3> HIDE DEF elapsed
    <3> QED  BY <1>4, <1>5, <1>6, <3>1, LanguageAssumption
  <2>2. CASE ~ (elapsed < Budget)
    <3>1. Remaining(elapsed) = 0  BY <1>2, <1>4, <2>2
    <3> HIDE DEF elapsed
    <3> QED  BY <1>4, <1>5, <1>6, <3>1
  <2> QED  BY <2>1, <2>2
<1>8. Waited(Budget, compose) \in Nat /\ Waited(Budget, compose) <= Budget
  BY <1>1, LanguageAssumption
<1>9. ResponderEnds(decode, between, compose) <= 2 * Budget + between
  BY <1>3, <1>8, LanguageAssumption DEF ResponderEnds
<1> QED  BY <1>7, <1>9

(* A reliability never leaves the clamp, whatever the trail says: an honest *)
(* opponent is never wholly disbelieved, a liar never wholly trusted, and a *)
(* claim that the trail contradicts never earns trust                       *)
(* (strategy/reliability.py:57-80, shared/reliability_config.py:40-46).     *)
THEOREM ReliabilityIsClamped ==
  ASSUME NEW value \in Int, NEW score \in Int
  PROVE  /\ Reliability(value, score) \in RMin .. RMax
         /\ value \in RMin .. RMax /\ score > 0 => Reliability(value, score) <= value
<1>1. \A x \in Int : Clamped(x) \in RMin .. RMax
  BY ReliabilityAssumption, ScentAssumption DEF Clamped
<1>2. \A x, y \in Int : Times(x, y) \in Int
  <2> SUFFICES ASSUME NEW x \in Int, NEW y \in Int PROVE Times(x, y) \in Int  OBVIOUS
  <2>1. x * y \in Int  OBVIOUS
  <2>2. \A z \in Int : z \div One \in Int  BY ScentAssumption
  <2> QED  BY <2>1, <2>2 DEF Times
<1>3. value - Times(ContradictionStep, score) \in Int
  BY <1>2, ReliabilityAssumption
<1>4. value + Times(RecoveryRate, Prior - value) \in Int
  BY <1>2, ReliabilityAssumption
<1>5. ASSUME value \in RMin .. RMax, score > 0 PROVE Reliability(value, score) <= value
  <2>1. ContradictionStep * score \in Nat  BY <1>5, ReliabilityAssumption, ScentAssumption
  <2>2. Times(ContradictionStep, score) \in Nat
    <3>1. \A z \in Nat : z \div One \in Nat  BY ScentAssumption
    <3> QED  BY <2>1, <3>1 DEF Times
  <2>3. \A x \in Int : x <= value => Clamped(x) <= value
    BY <1>5, ReliabilityAssumption, ScentAssumption DEF Clamped
  <2> QED  BY <1>5, <2>2, <2>3 DEF Reliability
<1> QED  BY <1>1, <1>3, <1>4, <1>5 DEF Reliability

(* The bank never says the same phrasing twice running: within a cycle all  *)
(* are different, and a new cycle that would begin with the last one said   *)
(* begins with another, and still holds each once (hintbank.py:60-88).      *)
Distinct(s) == \A i, j \in 1 .. Len(s) : s[i] = s[j] => i = j

THEOREM BankNeverRepeats ==
  ASSUME NEW T, NEW shuffled \in Seq(T), Distinct(shuffled), NEW previous
  PROVE  LET cycle == FreshCycle(shuffled, previous)
         IN  /\ cycle \in Seq(T) /\ Len(cycle) = Len(shuffled) /\ Distinct(cycle)
             /\ Len(cycle) > 1 => cycle[Len(cycle)] # previous
<1> DEFINE n == Len(shuffled)
           cycle == FreshCycle(shuffled, previous)
<1>1. n \in Nat /\ DOMAIN shuffled = 1 .. n /\ \A i \in 1 .. n : shuffled[i] \in T
  OBVIOUS
<1>2. CASE n > 1 /\ shuffled[n] = previous
  <2>1. cycle = [i \in 1 .. n |-> IF i = n THEN shuffled[i - 1]
                                 ELSE IF i = n - 1 THEN shuffled[i + 1] ELSE shuffled[i]]
    BY <1>1, <1>2 DEF FreshCycle, SwapLastTwo
  <2> HIDE DEF cycle
  <2>2. \A i \in 1 .. n : cycle[i] = IF i = n THEN shuffled[n - 1]
                                    ELSE IF i = n - 1 THEN shuffled[n] ELSE shuffled[i]
    <3> SUFFICES ASSUME NEW i \in 1 .. n
                 PROVE  cycle[i] = IF i = n THEN shuffled[n - 1]
                                   ELSE IF i = n - 1 THEN shuffled[n] ELSE shuffled[i]
      OBVIOUS
    <3>1. cycle[i] = IF i = n THEN shuffled[i - 1]
                     ELSE IF i = n - 1 THEN shuffled[i + 1] ELSE shuffled[i]
      BY <2>1, Zenon
    <3>2. i = n - 1 => i + 1 = n  BY <1>1
    <3> QED  BY <3>1, <3>2, Zenon
  <2>3. n - 1 \in 1 .. n /\ n \in 1 .. n  BY <1>1, <1>2
  <2>4. \A i \in 1 .. n : cycle[i] \in T  BY <1>1, <2>2, <2>3
  <2>5. cycle \in Seq(T) /\ Len(cycle) = n
    <3>1. cycle \in [1 .. n -> T]  BY <2>1, <2>4
    <3> QED  BY <1>1, <3>1
  <2>6. cycle[n] # previous
    <3>1. shuffled[n - 1] # shuffled[n]  BY <1>1, <2>3 DEF Distinct
    <3> QED  BY <1>2, <2>2, <2>3, <3>1
  <2>7. Distinct(cycle)
    <3> SUFFICES ASSUME NEW i \in 1 .. n, NEW j \in 1 .. n, cycle[i] = cycle[j] PROVE i = j
      BY <2>5 DEF Distinct
    <3> DEFINE at(k) == IF k = n THEN n - 1 ELSE IF k = n - 1 THEN n ELSE k
    <3>1. \A k \in 1 .. n : cycle[k] = shuffled[at(k)] /\ at(k) \in 1 .. n
      BY <2>2, <2>3
    <3>2. shuffled[at(i)] = shuffled[at(j)] /\ at(i) \in 1 .. n /\ at(j) \in 1 .. n
      BY <3>1
    <3>3. at(i) = at(j)
      <4> HIDE DEF at
      <4> QED  BY <3>2 DEF Distinct
    <3> QED  BY <1>1, <3>3
  <2> QED  BY <1>2, <2>5, <2>6, <2>7 DEF cycle
<1>3. CASE ~ (n > 1 /\ shuffled[n] = previous)
  <2>1. cycle = shuffled  BY <1>3 DEF FreshCycle
  <2> QED  BY <1>1, <1>3, <2>1
<1> QED  BY <1>2, <1>3

-----------------------------------------------------------------------------
(* The lie detector.                                                       *)

\* < on the naturals is well founded.
LEMMA NaturalsAreWellFounded ==
  IsWellFoundedOn({ss \in Nat \X Nat : ss[1] < ss[2]}, Nat)
BY NatLessThanWellFounded DEF OpToRel

\* The least member of a set of naturals.
LEMMA LeastNatural ==
  ASSUME NEW T \in SUBSET Nat, T # {}
  PROVE  \E x \in T : \A y \in T : x <= y
<1>1. PICK Below : Below = {ss \in Nat \X Nat : ss[1] < ss[2]}  OBVIOUS
<1>2. \A x, y \in Nat : y < x => <<y, x>> \in Below  BY <1>1
<1>3. IsWellFoundedOn(Below, Nat)  BY <1>1, NaturalsAreWellFounded
<1>4. T \subseteq Nat  OBVIOUS
<1>5. PICK x \in T : \A y \in T : ~ (<<y, x>> \in Below)  BY <1>3, <1>4, WFMin, Zenon
<1>6. \A y \in T : ~ (y < x)  BY <1>2, <1>5
<1> QED  BY <1>6

\* Among finitely many strengths one is the greatest.
LEMMA GreatestOfLine ==
  ASSUME NEW n \in Nat \ {0}, NEW f \in [1 .. n -> Nat]
  PROVE  \E i \in 1 .. n : \A j \in 1 .. n : f[j] <= f[i]
<1> DEFINE Best(k) == \E i \in 1 .. k : \A j \in 1 .. k : f[j] <= f[i]
<1> PICK T : T = {k \in 1 .. n : ~ Best(k)}  OBVIOUS
<1>1. ASSUME T # {} PROVE FALSE
  <2>1. T \in SUBSET Nat  OBVIOUS
  <2>2. PICK k \in T : \A m \in T : k <= m  BY <1>1, <2>1, LeastNatural
  <2>3. k \in 1 .. n /\ ~ Best(k)  BY <2>2
  <2>4. Best(1)  OBVIOUS
  <2>5. k # 1
    <3> HIDE DEF Best
    <3> QED  BY <2>3, <2>4
  <2>6. Best(k - 1)
    <3>1. k - 1 \in 1 .. n  BY <2>3, <2>5
    <3>2. ~ (k <= k - 1)  BY <2>3
    <3> HIDE DEF Best
    <3>3. k - 1 \notin T  BY <2>2, <3>2
    <3> QED  BY <3>1, <3>3
  <2>8. PICK i \in 1 .. k - 1 : \A j \in 1 .. k - 1 : f[j] <= f[i]  BY <2>6
  <2>9. /\ \A j \in 1 .. k : j \in 1 .. k - 1 \/ j = k
        /\ \A j \in 1 .. k : f[j] \in Nat
        /\ i \in 1 .. k /\ k \in 1 .. k
    BY <2>3, <2>8
  <2>10. CASE f[k] <= f[i]  BY <2>3, <2>8, <2>9, <2>10
  <2>11. CASE f[i] < f[k]
    <3>1. \A j \in 1 .. k : f[j] <= f[k]  BY <2>8, <2>9, <2>11
    <3> QED  BY <2>3, <2>9, <3>1
  <2>12. f[k] <= f[i] \/ f[i] < f[k]  BY <2>9
  <2> QED  BY <2>10, <2>11, <2>12
<1>2. T = {}  BY <1>1
<1>3. Best(n)
  <2>1. n \in 1 .. n  OBVIOUS
  <2> HIDE DEF Best
  <2> QED  BY <1>2, <2>1
<1> QED  BY <1>3

LEMMA StrongestFacts ==
  ASSUME NEW field, field \in [DOMAIN field -> Nat], NEW cells, IsFiniteSet(cells), cells # {}
  PROVE  /\ Strongest(field, cells) \in Nat
         /\ \A c \in cells : Strength(field, c) <= Strongest(field, cells)
         /\ \E c \in cells : Strongest(field, cells) = Strength(field, c)
<1>1. \A c \in cells : Strength(field, c) \in Nat  BY DEF Strength
<1>2. PICK n \in Nat : ExistsSurjection(1 .. n, cells)  BY FS_NatSurjection
<1>3. PICK g \in [1 .. n -> cells] : \A c \in cells : \E i \in 1 .. n : g[i] = c
  BY <1>2 DEF ExistsSurjection, Surjection
<1>4. n # 0  BY <1>3
<1> PICK f : f = [i \in 1 .. n |-> Strength(field, g[i])]  OBVIOUS
<1>5. f \in [1 .. n -> Nat]  BY <1>1, <1>3
<1>6. PICK i \in 1 .. n : \A j \in 1 .. n : f[j] <= f[i]  BY <1>4, <1>5, GreatestOfLine
<1>7. g[i] \in cells /\ \A c \in cells : Strength(field, c) <= Strength(field, g[i])
  BY <1>3, <1>6
<1> DEFINE S == {Strength(field, c) : c \in cells}
<1>8. \E m \in S : \A c \in cells : Strength(field, c) <= m  BY <1>7
<1>9. Strongest(field, cells) \in S /\ \A c \in cells : Strength(field, c) <= Strongest(field, cells)
  BY <1>8 DEF Strongest
<1> QED  BY <1>1, <1>9

LEMMA DivFacts ==
  ASSUME NEW d \in Nat \ {0}
  PROVE  /\ \A a \in Nat : a \div d \in Nat
         /\ \A a, b \in Nat : a <= b => a \div d <= b \div d
         /\ \A k \in Nat : (k * d) \div d = k
<1>1. ASSUME NEW a \in Nat PROVE a \div d \in Nat  OBVIOUS
<1>2. ASSUME NEW a \in Nat, NEW b \in Nat, a <= b PROVE a \div d <= b \div d
  <2>1. a \div d \in Nat /\ b \div d \in Nat  OBVIOUS
  <2>2. d * (a \div d) <= a  OBVIOUS
  <2>3. b < d * (b \div d) + d  OBVIOUS
  <2> PICK x \in Nat : x = a \div d  BY <2>1
  <2> PICK y \in Nat : y = b \div d  BY <2>1
  <2>4. d * x < d * y + d  BY <1>2, <2>2, <2>3
  <2>5. ASSUME y + 1 <= x PROVE FALSE
    <3>1. d * (y + 1) <= d * x  BY <2>5
    <3>2. d * (y + 1) = d * y + d  OBVIOUS
    <3>3. d * x \in Nat /\ d * y \in Nat  OBVIOUS
    <3> QED  BY <2>4, <3>1, <3>2, <3>3
  <2> QED  BY <2>5
<1>3. ASSUME NEW k \in Nat PROVE (k * d) \div d = k  OBVIOUS
<1> QED  BY <1>1, <1>2, <1>3

LEMMA TimesFacts ==
  ASSUME NEW x \in Nat, NEW y \in Nat
  PROVE  /\ Times(x, y) \in Nat /\ Times(0, y) = 0
         /\ x <= One /\ y <= One => Times(x, y) <= One
         /\ Times(One, One) = One
         /\ \A z \in Nat : y <= z => Times(x, y) <= Times(x, z)
<1>0. One \in Nat \ {0}  BY ScentAssumption
<1>1. \A a, b \in Nat : a * b \in Nat  OBVIOUS
<1>2. Times(x, y) \in Nat  BY <1>0, <1>1, DivFacts DEF Times
<1>3. Times(0, y) = 0
  <2>1. 0 * y = 0 /\ 0 = 0 * One  BY <1>0
  <2>2. (0 * One) \div One = 0  BY <1>0, DivFacts
  <2> QED  BY <2>1, <2>2 DEF Times
<1>4. (One * One) \div One = One  BY <1>0, DivFacts
<1>5. ASSUME x <= One, y <= One PROVE Times(x, y) <= One
  <2>1. x * y <= One * y /\ One * y <= One * One  BY <1>0, <1>5
  <2>2. x * y <= One * One  BY <1>0, <1>1, <2>1
  <2> QED  BY <1>0, <1>1, <1>4, <2>2, DivFacts DEF Times
<1>6. ASSUME NEW z \in Nat, y <= z PROVE Times(x, y) <= Times(x, z)
  <2>1. x * y <= x * z  BY <1>6
  <2> QED  BY <1>0, <1>1, <2>1, DivFacts DEF Times
<1> QED  BY <1>2, <1>3, <1>4, <1>5, <1>6 DEF Times

LEMMA LaidDown ==
  ASSUME BoardSize \in Nat, NEW field, field \in [DOMAIN field -> Nat], DOMAIN field \subseteq Square,
         NEW cell \in Square, ExpectedAfterOne > 0
  PROVE  LET trail == Decayed(EmitKnown(field, cell))
         IN  /\ trail \in [DOMAIN trail -> Nat] /\ DOMAIN trail \subseteq Square
             /\ cell \in DOMAIN trail /\ trail[cell] >= ExpectedAfterOne
<1> PICK laid : laid = EmitKnown(field, cell)  OBVIOUS
<1> PICK trail : trail = Decayed(laid)  OBVIOUS
<1> PICK fresh : fresh = Emission(cell)  OBVIOUS
<1>0. /\ One \in Nat \ {0} /\ Half \in Nat /\ Retain \in Nat /\ Source \in Nat
      /\ <<0, 0>> \in Offset /\ Kernel \in [Offset -> Nat]
  BY ScentAssumption DEF Source, Offset
<1>1. fresh \in [DOMAIN fresh -> Nat] /\ DOMAIN fresh \subseteq Square
  BY <1>0 DEF Emission
<1>2. cell \in DOMAIN fresh /\ fresh[cell] = Source
  <2>1. cell[1] \in Int /\ cell[2] \in Int  BY DEF Square
  <2>2. <<cell[1] - cell[1], cell[2] - cell[2]>> = <<0, 0>>  BY <2>1
  <2> QED  BY <1>0, <2>2 DEF Emission, Source
<1>3. /\ DOMAIN laid = DOMAIN field \cup DOMAIN fresh
      /\ \A c \in DOMAIN laid : laid[c] = Strength(field, c) + Strength(fresh, c)
  BY DEF EmitKnown, Merged
<1>4. \A c : Strength(field, c) \in Nat /\ Strength(fresh, c) \in Nat
  BY <1>1 DEF Strength
<1>5. \A c \in DOMAIN laid : laid[c] \in Nat  BY <1>3, <1>4
<1>6. cell \in DOMAIN laid /\ laid[cell] >= Source
  BY <1>0, <1>2, <1>3, <1>4 DEF Strength
<1>7. /\ DOMAIN trail = {c \in DOMAIN laid : Times(Retain, laid[c]) > 0}
      /\ \A c \in DOMAIN trail : trail[c] = Times(Retain, laid[c])
      /\ trail = [c \in DOMAIN trail |-> Times(Retain, laid[c])]
  BY DEF Decayed
<1>8. \A c \in DOMAIN laid : Times(Retain, laid[c]) \in Nat  BY <1>0, <1>5, TimesFacts
<1>9. Times(Retain, laid[cell]) >= ExpectedAfterOne /\ ExpectedAfterOne \in Nat
  <2>1. ExpectedAfterOne = Times(Retain, Source)
    BY <1>0 DEF ExpectedAfterOne, Times
  <2> QED  BY <1>0, <1>5, <1>6, <2>1, TimesFacts
<1>10. cell \in DOMAIN trail /\ trail[cell] >= ExpectedAfterOne
  BY <1>6, <1>7, <1>8, <1>9
<1>11. trail \in [DOMAIN trail -> Nat]  BY <1>7, <1>8
<1>12. DOMAIN trail \subseteq Square  BY <1>1, <1>3, <1>7
<1> QED  BY <1>10, <1>11, <1>12

\* scent_check.contradicts: whatever trail lies beneath and however the claim is
\* drawn, the score is a probability; a claim that holds the cell the opponent just
\* left is never called a lie; a claim its whole trail does not reach always is.
THEOREM DetectorTells ==
  ASSUME BoardSize \in Nat, ExpectedAfterOne > 0,
         NEW field, field \in [DOMAIN field -> Nat], DOMAIN field \subseteq Square,
         NEW inference, ClaimedCells(inference) \subseteq Square, ClaimedCells(inference) # {}
  PROVE  /\ Contradiction(inference, field) \in 0 .. One
         /\ \A cell \in Square :
              LET trail == Decayed(EmitKnown(field, cell))
              IN  /\ cell \in ClaimedCells(inference) => Contradiction(inference, trail) = 0
                  /\ IsEvidence(inference) /\ Epsilon <= ExpectedAfterOne
                     /\ ClaimedCells(inference) \cap DOMAIN trail = {}
                     => Contradiction(inference, trail) = One
<1> PICK claimed : claimed = ClaimedCells(inference)  OBVIOUS
<1> PICK E : E = ExpectedAfterOne  OBVIOUS
<1>0. One \in Nat \ {0} /\ Epsilon \in Nat /\ E \in Nat \ {0}
  <2>1. Retain \in Nat /\ Source \in Nat
    BY ScentAssumption DEF Source, Offset
  <2>2. E = Times(Retain, Source) \/ E = Times(Source, Retain)  BY DEF ExpectedAfterOne
  <2>3. E \in Nat  BY <2>1, <2>2, TimesFacts
  <2> QED  BY <2>3, ScentAssumption
<1>1. IsFiniteSet(Square)
  <2>0. 0 \in Int /\ BoardSize - 1 \in Int  OBVIOUS
  <2>1. IsFiniteSet(0 .. BoardSize - 1)  BY <2>0, FS_Interval, Zenon
  <2> QED  BY <2>1, FS_Product DEF Square
<1>2. IsFiniteSet(claimed) /\ claimed # {}  BY <1>1, FS_Subset
<1>3. ASSUME NEW trail, trail \in [DOMAIN trail -> Nat], DOMAIN trail \subseteq Square,
             DOMAIN trail # {}
      PROVE  LET peak == Strongest(trail, DOMAIN trail)
                 measured == Strongest(trail, claimed)
             IN  /\ peak \in Nat /\ measured \in Nat
                 /\ \A c \in DOMAIN trail : trail[c] <= peak
                 /\ \A c \in claimed \cap DOMAIN trail : trail[c] <= measured
                 /\ claimed \cap DOMAIN trail = {} => measured = 0
  <2>1. IsFiniteSet(DOMAIN trail)  BY <1>1, <1>3, FS_Subset
  <2>2. \A c \in DOMAIN trail : Strength(trail, c) = trail[c]  BY DEF Strength
  <2>3. Strongest(trail, DOMAIN trail) \in Nat
        /\ \A c \in DOMAIN trail : Strength(trail, c) <= Strongest(trail, DOMAIN trail)
    BY <1>3, <2>1, StrongestFacts
  <2>4. /\ Strongest(trail, claimed) \in Nat
        /\ \A c \in claimed : Strength(trail, c) <= Strongest(trail, claimed)
        /\ \E c \in claimed : Strongest(trail, claimed) = Strength(trail, c)
    BY <1>2, <1>3, StrongestFacts
  <2>5. claimed \cap DOMAIN trail = {} => Strongest(trail, claimed) = 0
    BY <2>4 DEF Strength
  <2> QED  BY <2>2, <2>3, <2>4, <2>5
<1> DEFINE Unexplained(m) == IF m < E THEN ((E - m) * One) \div E ELSE 0
           Elsewhere(p) == AtMostOne((p * One) \div E)
<1>4. ASSUME NEW m \in Nat
      PROVE  /\ Unexplained(m) \in 0 .. One
             /\ m >= E => Unexplained(m) = 0
             /\ m = 0 => Unexplained(m) = One
  <2>1. CASE m < E
    <3>1. E - m \in Nat /\ E - m <= E  BY <1>0, <2>1
    <3>2. (E - m) * One \in Nat /\ E * One \in Nat /\ (E - m) * One <= E * One
      BY <1>0, <3>1
    <3>3. (One * E) \div E = One /\ E * One = One * E  BY <1>0, DivFacts
    <3>4. ((E - m) * One) \div E \in Nat /\ ((E - m) * One) \div E <= (E * One) \div E
      BY <1>0, <3>2, DivFacts
    <3>5. m = 0 => (E - m) * One = E * One  BY <1>0
    <3>6. ~ (m >= E)  BY <1>0, <2>1
    <3> QED  BY <1>0, <2>1, <3>3, <3>4, <3>5, <3>6
  <2>2. CASE ~ (m < E)  BY <1>0, <2>2
  <2> QED  BY <2>1, <2>2
<1>5. ASSUME NEW p \in Nat
      PROVE  Elsewhere(p) \in 0 .. One /\ (p >= E => Elsewhere(p) = One)
  <2>1. p * One \in Nat /\ E * One \in Nat  BY <1>0
  <2>2. (p * One) \div E \in Nat  BY <1>0, <2>1, DivFacts
  <2>3. ASSUME p >= E PROVE (p * One) \div E >= One
    <3>1. E * One <= p * One  BY <1>0, <2>3
    <3>2. (One * E) \div E = One /\ E * One = One * E  BY <1>0, DivFacts
    <3> QED  BY <1>0, <2>1, <3>1, <3>2, DivFacts
  <2> QED  BY <1>0, <2>2, <2>3 DEF AtMostOne
<1>6. ASSUME NEW trail
      PROVE  LET peak == Strongest(trail, DOMAIN trail)
                 measured == Strongest(trail, claimed)
             IN  Contradiction(inference, trail) =
                   IF ~ IsEvidence(inference) \/ DOMAIN trail = {} THEN 0
                   ELSE IF peak < Epsilon THEN 0
                   ELSE Times(Unexplained(measured), Elsewhere(peak))
  BY DEF Contradiction
<1> HIDE DEF Unexplained, Elsewhere
<1>7. Contradiction(inference, field) \in 0 .. One
  <2>1. CASE ~ IsEvidence(inference) \/ DOMAIN field = {}  BY <1>0, <1>6, <2>1
  <2>2. CASE ~ (~ IsEvidence(inference) \/ DOMAIN field = {})
    <3> PICK p : p = Strongest(field, DOMAIN field)  OBVIOUS
    <3> PICK m : m = Strongest(field, claimed)  OBVIOUS
    <3>1. p \in Nat /\ m \in Nat  BY <1>3, <2>2
    <3>2. Unexplained(m) \in 0 .. One /\ Elsewhere(p) \in 0 .. One  BY <1>4, <1>5, <3>1
    <3>3. Times(Unexplained(m), Elsewhere(p)) \in 0 .. One
      BY <1>0, <3>2, TimesFacts
    <3> QED  BY <1>0, <1>6, <2>2, <3>3
  <2> QED  BY <2>1, <2>2
<1>8. ASSUME NEW cell \in Square, NEW trail, trail = Decayed(EmitKnown(field, cell))
      PROVE  /\ cell \in claimed => Contradiction(inference, trail) = 0
             /\ IsEvidence(inference) /\ Epsilon <= E /\ claimed \cap DOMAIN trail = {}
                => Contradiction(inference, trail) = One
  <2> PICK p : p = Strongest(trail, DOMAIN trail)  OBVIOUS
  <2> PICK m : m = Strongest(trail, claimed)  OBVIOUS
  <2>1. /\ trail \in [DOMAIN trail -> Nat] /\ DOMAIN trail \subseteq Square
        /\ cell \in DOMAIN trail /\ trail[cell] >= E /\ trail[cell] \in Nat
    BY <1>8, LaidDown
  <2>2. /\ p \in Nat /\ m \in Nat /\ p >= E
        /\ cell \in claimed => m >= E
        /\ claimed \cap DOMAIN trail = {} => m = 0
    BY <1>0, <1>3, <2>1
  <2>3. Elsewhere(p) = One /\ One \in Nat /\ Unexplained(m) \in Nat  BY <1>0, <1>4, <1>5, <2>2
  <2>4. ASSUME cell \in claimed PROVE Contradiction(inference, trail) = 0
    <3>1. Unexplained(m) = 0  BY <1>4, <2>2, <2>4
    <3>2. Times(Unexplained(m), Elsewhere(p)) = 0  BY <2>3, <3>1, TimesFacts
    <3> QED  BY <1>6, <3>2
  <2>5. ASSUME IsEvidence(inference), Epsilon <= E, claimed \cap DOMAIN trail = {}
        PROVE  Contradiction(inference, trail) = One
    <3>1. Unexplained(m) = One  BY <1>4, <2>2, <2>5
    <3>2. Times(Unexplained(m), Elsewhere(p)) = One  BY <2>3, <3>1, TimesFacts
    <3>3. ~ (p < Epsilon)  BY <1>0, <2>2, <2>5
    <3> QED  BY <1>6, <2>1, <2>5, <3>2, <3>3
  <2> QED  BY <2>4, <2>5
<1> QED  BY <1>7, <1>8

-----------------------------------------------------------------------------
(* The game under late hints.                                              *)

Reading(p) == HearHint(p) \/ HearReveal(p) \/ DecideWithHint(p) \/ HearOther(p)

(* Reading a message and waiting in vain are steps of the turn loop.       *)
LEMMA ReadingIsAStep ==
  ASSUME NEW p \in Peer, Reading(p)
  PROVE  (p = "police" /\ Decide) \/ Receive(p)
<1>1. CASE HearHint(p)  BY <1>1 DEF HearHint, Receive
<1>2. CASE HearReveal(p)  BY <1>2 DEF HearReveal, Receive
<1>3. CASE DecideWithHint(p)  BY <1>3 DEF DecideWithHint, Receive
<1>4. CASE HearOther(p)  BY <1>4 DEF HearOther, Receive
<1> QED  BY <1>1, <1>2, <1>3, <1>4 DEF Reading

LEMMA GameSteps ==
  ASSUME NEW p \in Peer, Reading(p) \/ PlayOn(p)
  PROVE  Step(p) \/ Fault(p)
<1>1. CASE Reading(p)  BY <1>1, ReadingIsAStep DEF Step
<1>2. CASE PlayOn(p)  BY <1>2 DEF PlayOn, Step, Fault
<1> QED  BY <1>1, <1>2

(* A hint that is lost, or under way when its sender gives it up.          *)
Unheard(p) ==
  \/ HintLost(p) /\ UNCHANGED late
  \/ pc[p] = "send_hint" /\ PushDelayed(p)

LEMMA UnheardIsQuiet ==
  ASSUME IInv, NEW p \in Peer, Unheard(p)
  PROVE  /\ pc[p] = "send_hint" /\ faults' = faults + 1 /\ faults < MaxFaults
         /\ UNCHANGED <<inbox, ledger, hist, log>>
         /\ \E x \in PC : Quiet(p, x)
         /\ TypeOK'
<1>0. /\ pc[p] = "send_hint" /\ "send_hint" \in Sending /\ TypeOK
      /\ UNCHANGED <<inbox, ledger, hist, ackd, oppCommit, log, early, claim>>
      /\ faults' = faults + 1 /\ faults < MaxFaults
  <2>1. CASE HintLost(p)  BY <2>1 DEF HintLost, Sending, IInv
  <2>2. CASE pc[p] = "send_hint" /\ PushDelayed(p)
    BY <2>2 DEF PushDelayed, AttemptFailed, BestEffort, Sending, IInv
  <2> QED  BY <2>1, <2>2 DEF Unheard
<1>1. \E x \in PC : Moves(p, x)
  BY <1>0, ProceedMoves, AttemptFailedMoves DEF Unheard, HintLost, PushDelayed
<1>2. \E x \in PC : Quiet(p, x)
  BY <1>0, <1>1 DEF Quiet, Moves
<1>3. faults' \in 0 .. MaxFaults
  BY <1>0, MaxFaultsNat DEF TypeOK
<1>4. /\ pc' \in [Peer -> PC] /\ machine' \in [Peer -> State]
      /\ outcome' \in [Peer -> Outcomes] /\ pending' \in [Peer -> Pendings]
      /\ tries' \in [Peer -> 0 .. Retries]
  <2>1. CASE HintLost(p)
    <3>1. tries' \in [Peer -> 0 .. Retries]
      BY <1>0, <2>1, RetriesNat DEF HintLost, TypeOK
    <3> QED  BY <1>0, <2>1, <3>1, ProceedType DEF HintLost
  <2>2. CASE pc[p] = "send_hint" /\ PushDelayed(p)
    BY <1>0, <2>2, AttemptFailedType DEF PushDelayed
  <2> QED  BY <2>1, <2>2 DEF Unheard
<1> QED
  BY <1>0, <1>2, <1>3, <1>4 DEF TypeOK

(* A late hint adds nothing to a queue but itself, at the end, where no leg *)
(* of the game is measured against it.                                     *)
LEMMA ArrivalKeepsInv ==
  ASSUME IInv, HintTypes, NEW p \in Peer, Stamped(p), Arrive(p)
  PROVE  IInv'
<1>1. PICK m \in late[p] : inbox' = [inbox EXCEPT ![p] = Append(@, m)]
  BY DEF Arrive
<1>2. /\ m \in Messages /\ m.type = "hint" /\ m.turn \in Nat
      /\ inbox \in [Peer -> Seq(Messages)]
  <2>1. late[p] \subseteq Messages  BY DEF HintTypes
  <2>2. m.type = "hint"  BY DEF Stamped
  <2> QED  BY <2>1, <2>2 DEF Messages, IInv, TypeOK
<1>3. UNCHANGED <<pc, machine, tries, ledger, hist, pending, ackd, oppCommit,
                  log, early, outcome, claim, faults>>
  BY DEF Arrive
<1>4. TypeOK'
  BY <1>1, <1>2, <1>3 DEF IInv, TypeOK
<1>5. \A q \in Peer : \A i \in 1 .. Len(inbox'[q]) :
        \/ i \in 1 .. Len(inbox[q]) /\ inbox'[q][i] = inbox[q][i]
        \/ inbox'[q][i].type = "hint" /\ inbox'[q][i].turn \in Nat /\ i > Len(inbox[q])
  <2>1. ASSUME NEW q \in Peer, NEW i \in 1 .. Len(inbox'[q])
        PROVE  \/ i \in 1 .. Len(inbox[q]) /\ inbox'[q][i] = inbox[q][i]
               \/ inbox'[q][i].type = "hint" /\ inbox'[q][i].turn \in Nat /\ i > Len(inbox[q])
    <3>1. CASE q # p  BY <1>1, <1>2, <2>1, <3>1
    <3>2. CASE q = p
      <4>1. inbox'[q] = Append(inbox[q], m) /\ inbox[q] \in Seq(Messages)
        BY <1>1, <1>2, <3>2
      <4>2. /\ Len(inbox'[q]) = Len(inbox[q]) + 1 /\ Len(inbox[q]) \in Nat
            /\ \A k \in 1 .. Len(inbox[q]) : inbox'[q][k] = inbox[q][k]
            /\ inbox'[q][Len(inbox[q]) + 1] = m
        BY <1>2, <4>1, AppendFacts
      <4> QED  BY <1>2, <4>2
    <3> QED  BY <3>1, <3>2
  <2> QED  BY <2>1
<1>6. \A q \in Peer : /\ N(q)' = N(q) /\ L(q)' = L(q) /\ Other(q) \in Peer
                      /\ Ceiling(q)' = Ceiling(q) /\ Floor(q)' = Floor(q)
                      /\ Active(q)' = Active(q) /\ Len(inbox[q]) \in Nat
  BY <1>2, <1>3, OtherFacts, LenProperties
     DEF N, L, Ceiling, Floor, Fresh, HoldsOther, Active, TurnOf
<1>7. /\ LedgerShape' /\ Counting' /\ Standing' /\ Binding' /\ Holding'
      /\ Evidence' /\ StillLegal' /\ StillOpen' /\ NoFalseRejection'
  <2>1. LedgerShape' /\ Binding' /\ Evidence' /\ StillLegal' /\ NoFalseRejection'
    BY <1>3 DEF IInv, LedgerShape, Binding, Evidence, StillLegal, NoFalseRejection, N, L
  <2>2. Counting' /\ Standing' /\ StillOpen'
    BY <1>3 DEF IInv, Counting, Standing, StillOpen, Together, Playing, Active, TurnOf, N, L
  <2>3. Holding'
    <3>1. Holding  BY DEF IInv
    <3>2. ASSUME NEW q \in Peer, NEW n
          PROVE  /\ TurnOf(q)' = TurnOf(q) /\ HoldsOther(q)' = HoldsOther(q)
                 /\ IsAcked(q)' = IsAcked(q) /\ Held(q, n)' = Held(q, n)
      BY <1>3 DEF HoldsOther, IsAcked, Held, TurnOf, N
    <3> QED  BY <1>3, <1>6, <3>1, <3>2 DEF Holding
  <2> QED  BY <2>1, <2>2, <2>3
<1>8. Flight'
  <2>1. ASSUME NEW q \in Peer, NEW i \in 1 .. Len(inbox'[Other(q)]),
               NEW e, e = inbox'[Other(q)][i]
        PROVE  Lasting(q, e)'
    <3>1. CASE i \in 1 .. Len(inbox[Other(q)]) /\ e = inbox[Other(q)][i]
      <4>1. Lasting(q, e)  BY <3>1 DEF IInv, Flight
      <4> QED  BY <1>3, <4>1 DEF Lasting, Held, N, L
    <3>2. CASE e.type = "hint" /\ e.turn \in Nat
      BY <3>2 DEF Lasting, Protocol
    <3> QED  BY <1>5, <1>6, <2>1, <3>1, <3>2
  <2> QED  BY <2>1 DEF Flight
<1>9. Ordered'
  <2>1. ASSUME NEW q \in Peer, NEW s, s = inbox[Other(q)], NEW u, u = inbox'[Other(q)]
        PROVE  /\ Active(Other(q)) =>
                    \A i \in 1 .. Len(u) : Protocol(u[i]) => Rank(u[i]) >= Floor(Other(q))
               /\ Active(q) =>
                    \A i \in 1 .. Len(u) : Protocol(u[i]) => Rank(u[i]) <= Ceiling(q)
               /\ Active(Other(q)) => \A i, j \in 1 .. Len(u) :
                    i < j /\ Protocol(u[i]) /\ Protocol(u[j]) => Rank(u[i]) <= Rank(u[j])
    <3>1. \A i \in 1 .. Len(u) : Protocol(u[i]) => i \in 1 .. Len(s) /\ u[i] = s[i]
      BY <1>5, <1>6, <2>1 DEF Protocol
    <3> QED  BY <2>1, <3>1 DEF IInv, Ordered
  <2> QED  BY <1>6, <2>1 DEF Ordered
<1> QED
  BY <1>4, <1>7, <1>8, <1>9 DEF IInv

(* The peers' steps under late hints, by what they do.                     *)
LEMMA HintSteps ==
  ASSUME HintNext
  PROVE  \/ \E p \in Peer : \/ (Reading(p) \/ PlayOn(p)) /\ UNCHANGED late
                            \/ Unheard(p) /\ UNCHANGED buffers
                            \/ Arrive(p) /\ UNCHANGED buffers
         \/ UNCHANGED hintVars
<1>1. CASE Terminated /\ UNCHANGED <<late, buffers>>
  BY <1>1 DEF Terminated, hintVars, lateVars, buffers
<1>2. ASSUME NEW p \in Peer, (HearHint(p) \/ HearReveal(p) \/ DecideWithHint(p)) /\ UNCHANGED late
      PROVE  Reading(p) /\ UNCHANGED late
  BY <1>2 DEF Reading
<1>3. ASSUME NEW p \in Peer, (HearOther(p) \/ PlayOn(p) \/ HintLost(p)) /\ UNCHANGED late
      PROVE  \/ (Reading(p) \/ PlayOn(p)) /\ UNCHANGED late
             \/ Unheard(p) /\ UNCHANGED buffers
  BY <1>3 DEF Reading, Unheard, HintLost, buffers
<1>4. ASSUME NEW p \in Peer, Straggle(p)
      PROVE  (Unheard(p) \/ Arrive(p)) /\ UNCHANGED buffers
  BY <1>4 DEF Straggle, Unheard
<1> QED  BY <1>1, <1>2, <1>3, <1>4 DEF HintNext

LEMMA GameKeptByHints ==
  ASSUME IInv, HintTypes, \A p \in Peer : Stamped(p), [HintNext]_hintVars
  PROVE  IInv'
<1>0. TypeOK  BY DEF IInv
<1>1. CASE UNCHANGED hintVars
  <2>1. UNCHANGED vars  BY <1>1 DEF hintVars, lateVars
  <2> QED  BY <2>1, StepInv
<1>2. CASE \E p \in Peer : (Reading(p) \/ PlayOn(p)) /\ UNCHANGED late
  <2>1. Next  BY <1>2, GameSteps DEF Next
  <2> QED  BY <2>1, StepInv
<1>3. CASE \E p \in Peer : Unheard(p)
  BY <1>3, UnheardIsQuiet, QuietSilent
<1>4. CASE \E p \in Peer : Arrive(p)
  BY <1>4, ArrivalKeepsInv
<1> QED  BY <1>1, <1>2, <1>3, <1>4, HintSteps

-----------------------------------------------------------------------------
(* What the other peer sees of a step.                                     *)

(* A reader changes nothing but its own.                                   *)
LEMMA ReadingIsLocal ==
  ASSUME IInv, HintTypes, NEW p \in Peer, Reading(p)
  PROVE  /\ \A q \in Peer : q # p =>
              /\ inbox'[q] = inbox[q] /\ log'[q] = log[q] /\ heard'[q] = heard[q]
              /\ hints'[q] = hints[q] /\ decoded'[q] = decoded[q]
         /\ faults' = faults
         /\ \A q \in Peer : \A t : HintSent(q, t)' <=> HintSent(q, t)
<1>0. /\ inbox \in [Peer -> Seq(Messages)] /\ log \in [Peer -> SUBSET Records]
      /\ hints \in [Peer -> [pending : Stamp, incoming : Stamp]]
      /\ heard \in [Peer -> SUBSET (Nat \X Nat)]
      /\ decoded \in [Peer -> Seq(Nat \X Nat)]
  BY DEF IInv, TypeOK, HintTypes
<1>1. /\ faults' = faults
      /\ log' = log \/ \E m : Received(p, m)
      /\ inbox' = inbox \/ \E s : inbox' = [inbox EXCEPT ![p] = s]
  <2>1. CASE HearHint(p) \/ HearOther(p)
    BY <2>1 DEF HearHint, HearOther, DropJitter, CaptureEarlyAck, TakeMatchingAck,
                AcceptAck, AcceptCommit, Take
  <2>2. CASE HearReveal(p)
    BY <2>2 DEF HearReveal, TakeReveal
  <2>3. CASE DecideWithHint(p)
    BY <2>3 DEF DecideWithHint, Decide, TakeCommit, Take
  <2> QED  BY <2>1, <2>2, <2>3 DEF Reading
<1>2. /\ heard' = heard \/ \E s : heard' = [heard EXCEPT ![p] = s]
      /\ hints' = hints \/ \E s : hints' = [hints EXCEPT ![p] = s]
      /\ decoded' = decoded \/ \E s : decoded' = [decoded EXCEPT ![p] = s]
  <2>1. CASE HearHint(p)  BY <2>1 DEF HearHint, LoggedHint
  <2>2. CASE HearReveal(p)  BY <2>2 DEF HearReveal, LoggedHint
  <2>3. CASE DecideWithHint(p)  BY <2>3 DEF DecideWithHint, ConsumeHint
  <2>4. CASE HearOther(p)  BY <2>4 DEF HearOther, buffers
  <2> QED  BY <2>1, <2>2, <2>3, <2>4 DEF Reading
<1>3. \A q \in Peer : \A r : r.dir = "sent" => (r \in log'[q] <=> r \in log[q])
  <2>1. CASE log' = log  BY <2>1
  <2>2. CASE \E m : Received(p, m)
    <3>1. PICK m : log' = [log EXCEPT ![p] = @ \cup {Record("received", Len(hist[p]), m)}]
      BY <2>2 DEF Received
    <3>2. Record("received", Len(hist[p]), m).dir = "received"  BY DEF Record
    <3> QED  BY <1>0, <3>1, <3>2
  <2> QED  BY <1>1, <2>1, <2>2
<1>4. \A q \in Peer : \A t : HintSent(q, t)' <=> HintSent(q, t)
  BY <1>3 DEF HintSent
<1> QED  BY <1>0, <1>1, <1>2, <1>4, Zenon DEF Received

(* A sender puts at most its message at the end of the other's inbox, and  *)
(* a message for which it has an answer there.                             *)
LEMMA SendingIsLocal ==
  ASSUME IInv, NEW p \in Peer, PlayOn(p) \/ Unheard(p), NEW q, q = Other(p)
  PROVE  /\ inbox'[p] = inbox[p] /\ log'[q] = log[q]
         /\ UNCHANGED <<hist, ledger>>
         /\ \/ inbox'[q] = inbox[q]
            \/ pc[p] \in Sending /\ inbox'[q] = Append(inbox[q], Outgoing(p))
         /\ \A t : HintSent(p, t)' =>
              \/ HintSent(p, t)
              \/ /\ PushAnswered(p) /\ pc[p] \in Sending
                 /\ Outgoing(p).type = "hint" /\ Outgoing(p).turn = t
                 /\ inbox'[q] = Append(inbox[q], Outgoing(p))
         /\ PushAnswered(p) \/ WaitExpires(p) \/ faults' = faults + 1
         /\ PushAnswered(p) \/ WaitExpires(p) => faults' = faults
<1>0. /\ inbox \in [Peer -> Seq(Messages)] /\ log \in [Peer -> SUBSET Records]
      /\ q \in Peer /\ q # p
  BY OtherFacts DEF IInv, TypeOK
<1>5. PushAnswered(p) \/ WaitExpires(p) => faults' = faults
  BY DEF PushAnswered, WaitExpires
<1>1. CASE PushAnswered(p)
  <2>1. /\ inbox' = [inbox EXCEPT ![q] = Append(@, Outgoing(p))]
        /\ log' = [log EXCEPT ![p] = @ \cup {Record("sent", Outgoing(p).turn, Outgoing(p))}]
        /\ UNCHANGED <<ledger, hist, faults>> /\ pc[p] \in Sending
    BY <1>1 DEF PushAnswered, Enqueue
  <2>2. \A t : HintSent(p, t)' =>
          HintSent(p, t) \/ (Outgoing(p).type = "hint" /\ Outgoing(p).turn = t)
    BY <1>0, <2>1 DEF HintSent, Record
  <2> QED  BY <1>0, <1>1, <2>1, <2>2
<1>2. CASE WaitExpires(p)
  BY <1>2 DEF WaitExpires, Expire, HintSent
<1>3. CASE PushUnanswered(p)
  <2>1. /\ inbox' = [inbox EXCEPT ![q] = Append(@, Outgoing(p))]
        /\ UNCHANGED <<ledger, hist, log>> /\ faults' = faults + 1 /\ pc[p] \in Sending
    BY <1>3 DEF PushUnanswered, Enqueue
  <2>2. \A t : HintSent(p, t)' <=> HintSent(p, t)  BY <2>1 DEF HintSent
  <2> QED  BY <1>0, <2>1, <2>2, <1>5
<1>4. CASE Unheard(p)
  <2>1. /\ UNCHANGED <<inbox, ledger, hist, log>> /\ faults' = faults + 1
    BY <1>4, UnheardIsQuiet
  <2>2. \A t : HintSent(p, t)' <=> HintSent(p, t)  BY <2>1 DEF HintSent
  <2> QED  BY <2>1, <2>2, <1>5
<1> QED  BY <1>1, <1>2, <1>3, <1>4 DEF PlayOn

(* Nothing is undone: what was sealed, logged or ended stays so.           *)
LEMMA HintsGoOn ==
  ASSUME IInv, IInv', HintTypes, \A p \in Peer : Stamped(p), [HintNext]_hintVars
  PROVE  /\ \A p \in Peer : /\ L(p) \in Nat /\ L(p)' \in Nat /\ L(p) <= L(p)'
                            /\ N(p) \in Nat /\ N(p)' \in Nat /\ N(p) <= N(p)'
                            /\ Active(p)' => Active(p)
         /\ faults \in Nat /\ faults' \in {faults, faults + 1}
<1>0. TypeOK /\ TypeOK' /\ \A p \in Peer : /\ L(p) \in Nat /\ L(p)' \in Nat
                                          /\ N(p) \in Nat /\ N(p)' \in Nat
  BY Lengths DEF IInv, TypeOK, L, N
<1>1. faults \in Nat  BY <1>0, MaxFaultsNat DEF TypeOK
<1>2. CASE UNCHANGED <<pc, ledger, hist, faults>>
  BY <1>0, <1>1, <1>2 DEF L, N, Active
<1>3. ASSUME NEW p \in Peer, (Reading(p) \/ PlayOn(p)) /\ UNCHANGED late
      PROVE  /\ \A q \in Peer : L(q) <= L(q)' /\ N(q) <= N(q)' /\ (Active(q)' => Active(q))
             /\ faults' \in {faults, faults + 1}
  <2>1. LoopStep(p)  BY <1>3, GameSteps, LoopSteps
  <2>2. Grows /\ Advances  BY <1>0, <2>1, StepGrows
  <2>3. \A q \in Peer : Active(q)' => Active(q)
    <3>1. \A q \in Peer : q # p => pc'[q] = pc[q]  BY <2>1, OthersStand
    <3>2. ~Active(p) => ~Active(p)'
      <4>1. CASE Quietly(p)  BY <1>0, <4>1 DEF Quietly, Quiet, Active, TypeOK
      <4>2. CASE SealsOne(p) \/ ReadsOn(p) \/ Resolves(p)
        BY <4>2 DEF SealsOne, Sealing, ReadsOn, Reads, Resolves, TakeReveal, Active, Ended, Waiting
      <4> QED  BY <2>1, <4>1, <4>2 DEF LoopStep
    <3> QED  BY <3>1, <3>2 DEF Active
  <2>4. faults' \in {faults, faults + 1}
    BY <1>3, ReadingIsLocal, SendingIsLocal
  <2> QED  BY <2>2, <2>3, <2>4 DEF Grows, Advances
<1>4. ASSUME NEW p \in Peer, Unheard(p)
      PROVE  /\ \A q \in Peer : L(q) <= L(q)' /\ N(q) <= N(q)' /\ (Active(q)' => Active(q))
             /\ faults' \in {faults, faults + 1}
  <2>1. /\ UNCHANGED <<ledger, hist>> /\ faults' = faults + 1 /\ \E x \in PC : Quiet(p, x)
    BY <1>4, UnheardIsQuiet
  <2> QED  BY <1>0, <2>1 DEF Quiet, Active, L, N, TypeOK
<1>5. ASSUME NEW p \in Peer, Arrive(p)  PROVE UNCHANGED <<pc, ledger, hist, faults>>
  BY <1>5 DEF Arrive
<1> QED
  BY <1>0, <1>1, <1>2, <1>3, <1>4, <1>5, HintSteps DEF hintVars, lateVars, vars

-----------------------------------------------------------------------------
(* Types, and where a hint can come from.                                  *)

LEMMA OutgoingHint ==
  ASSUME IInv, NEW p \in Peer, pc[p] \in Sending, NEW m, m = Outgoing(p), m.type = "hint",
         NEW q, q = Other(p)
  PROVE  /\ pc[p] = "send_hint" /\ m \in Messages
         /\ m.turn \in Nat /\ m.turn = TurnOf(p) /\ m.turn < L(q) /\ N(q) <= m.turn + 1
         /\ \A i \in 1 .. Len(inbox[q]) : Protocol(inbox[q][i]) => inbox[q][i].turn <= m.turn
<1>0. q \in Peer /\ Other(q) = p /\ m \in Messages
  BY OtherFacts, OutgoingType DEF IInv
<1>1. pc[p] = "send_hint" /\ m.turn = TurnOf(p) /\ m.turn \in Nat /\ Active(p)
  BY OutgoingCases
<1>2. Held(p, TurnOf(p))
  BY <1>1 DEF IInv, Holding, HoldsOther, Peer
<1>3. N(q) <= m.turn + 1
  <2>1. /\ N("police") \in Nat /\ N("thief") \in Nat
        /\ N("police") <= N("thief") /\ N("thief") <= N("police") + 1
    BY Lengths DEF IInv, Counting, Peer
  <2> QED  BY <1>1, <2>1 DEF TurnOf, Behind, Other, Peer
<1>4. Ceiling(p) = 3 * m.turn + 2
  BY <1>1 DEF Ceiling
<1>5. ASSUME NEW i \in 1 .. Len(inbox[q]), Protocol(inbox[q][i])
      PROVE  inbox[q][i].turn <= m.turn
  <2>1. inbox[q][i].turn \in Nat  BY <1>0, InboxEntry DEF IInv
  <2>2. Rank(inbox[q][i]) <= Ceiling(p)  BY <1>0, <1>1, <1>5 DEF IInv, Ordered
  <2> QED  BY <1>1, <1>4, <2>1, <2>2 DEF Rank
<1> QED  BY <1>0, <1>1, <1>2, <1>3, <1>5 DEF Held, L

(* The second message of a queue.                                          *)
LEMMA Second ==
  ASSUME NEW s \in Seq(Messages), s # <<>>, Tail(s) # <<>>
  PROVE  2 \in 1 .. Len(s) /\ Head(Tail(s)) = s[2]
<1>1. Len(Tail(s)) \in Nat \ {0} /\ Head(Tail(s)) = Tail(s)[1] /\ Len(Tail(s)) = Len(s) - 1
      /\ \A i \in 1 .. Len(Tail(s)) : Tail(s)[i] = s[i + 1]
  <2>1. Tail(s) \in Seq(Messages)  BY TailFacts
  <2> QED  BY <2>1, TailFacts
<1>2. 1 \in 1 .. Len(Tail(s)) /\ 1 + 1 = 2 /\ Len(s) \in Nat  BY <1>1
<1> QED  BY <1>1, <1>2

(* What a reader hears stands at the head of its inbox, or right behind a  *)
(* REVEAL there.                                                           *)
LEMMA Hearing ==
  ASSUME IInv, HintTypes, NEW p \in Peer, Reading(p)
  PROVE  /\ heard[p] \subseteq heard'[p]
         /\ \A x \in heard'[p] :
              \/ x \in heard[p]
              \/ \E i \in 1 .. Len(inbox[p]) :
                   inbox[p][i].type = "hint" /\ x = <<N(p), inbox[p][i].turn>>
<1>0. heard \in [Peer -> SUBSET (Nat \X Nat)] /\ inbox[p] \in Seq(Messages)
  BY Lengths DEF IInv, HintTypes
<1>1. CASE HearHint(p)
  <2>1. /\ inbox[p] # <<>> /\ Head(inbox[p]).type = "hint"
        /\ heard' = [heard EXCEPT ![p] = @ \cup {<<N(p), Head(inbox[p]).turn>>}]
    BY <1>1 DEF HearHint, LoggedHint, N
  <2>2. 1 \in 1 .. Len(inbox[p]) /\ Head(inbox[p]) = inbox[p][1]
    BY <1>0, <2>1, TailFacts
  <2> QED  BY <1>0, <2>1, <2>2
<1>2. CASE HearReveal(p)
  <2>1. CASE UNCHANGED heard  BY <2>1
  <2>2. CASE ~ UNCHANGED heard
    <3> DEFINE u == Tail(inbox[p])
    <3>1. /\ inbox[p] # <<>> /\ u # <<>> /\ Head(u).type = "hint"
          /\ heard' = [heard EXCEPT ![p] = @ \cup {<<N(p), Head(u).turn>>}]
      BY <1>2, <2>2 DEF HearReveal, LoggedHint, N
    <3>2. 2 \in 1 .. Len(inbox[p]) /\ Head(u) = inbox[p][2]
      BY <1>0, <3>1, Second
    <3> QED  BY <1>0, <3>1, <3>2
  <2> QED  BY <2>1, <2>2
<1>3. CASE DecideWithHint(p) \/ HearOther(p)
  BY <1>3 DEF DecideWithHint, HearOther, buffers
<1> QED  BY <1>1, <1>2, <1>3 DEF Reading

LEMMA BufferTypes ==
  ASSUME NEW b \in [pending : Stamp, incoming : Stamp], NEW turn \in Nat, NEW stamp \in Nat
  PROVE  /\ Buffered(b, turn, stamp) \in [pending : Stamp, incoming : Stamp]
         /\ Resolved(b) \in [pending : Stamp, incoming : Stamp]
<1>1. NoHint \in Stamp /\ Nat \subseteq Stamp  BY DEF Stamp
<1>2. \A old \in Stamp : NotOlder(old, stamp) \in Stamp  BY <1>1 DEF NotOlder
<1> QED  BY <1>1, <1>2 DEF Buffered, Resolved

LEMMA HintTypesKept ==
  ASSUME IInv, IInv', HintTypes, \A p \in Peer : Stamped(p), [HintNext]_hintVars
  PROVE  HintTypes'
<1>0. TypeOK /\ TypeOK'  BY DEF IInv
<1>1. ASSUME NEW p \in Peer, Reading(p)
      PROVE  /\ hints' \in [Peer -> [pending : Stamp, incoming : Stamp]]
             /\ heard' \in [Peer -> SUBSET (Nat \X Nat)]
             /\ decoded' \in [Peer -> Seq(Nat \X Nat)]
  <2> DEFINE B == [pending : Stamp, incoming : Stamp]
  <2>0. /\ hints \in [Peer -> B] /\ heard \in [Peer -> SUBSET (Nat \X Nat)]
        /\ decoded \in [Peer -> Seq(Nat \X Nat)]
        /\ hints[p] \in B /\ N(p) \in Nat /\ inbox[p] \in Seq(Messages)
    BY <1>0, Lengths DEF HintTypes
  <2>1. \A s \in Nat : Buffered(hints[p], N(p), s) \in B /\ Resolved(hints[p]) \in B
                       /\ Resolved(Buffered(hints[p], N(p), s)) \in B
    BY <2>0, BufferTypes
  <2>2. CASE HearHint(p)
    <3>1. inbox[p] # <<>> /\ Head(inbox[p]) \in Messages
      BY <2>0, <2>2, TailFacts DEF HearHint
    <3>2. Head(inbox[p]).turn \in Nat  BY <3>1 DEF Messages
    <3> QED  BY <2>0, <2>1, <2>2, <3>2 DEF HearHint, LoggedHint, N
  <2>3. CASE HearReveal(p)
    <3> DEFINE u == Tail(inbox[p])
    <3>1. inbox[p] # <<>> /\ u \in Seq(Messages) /\ (u # <<>> => Head(u).turn \in Nat)
      <4>1. inbox[p] # <<>> /\ u \in Seq(Messages)  BY <2>0, <2>3, TailFacts DEF HearReveal
      <4>2. u # <<>> => Head(u) \in Messages  BY <4>1, TailFacts
      <4> QED  BY <4>1, <4>2 DEF Messages
    <3>2. /\ UNCHANGED decoded
          /\ heard' = heard \/ (u # <<>> /\ heard' = [heard EXCEPT ![p] = @ \cup {<<N(p), Head(u).turn>>}])
          /\ \E b : /\ hints' = [hints EXCEPT ![p] = b]
                    /\ \/ b = hints[p] \/ b = Resolved(hints[p])
                       \/ /\ u # <<>>
                          /\ \/ b = Buffered(hints[p], N(p), Head(u).turn)
                             \/ b = Resolved(Buffered(hints[p], N(p), Head(u).turn))
      BY <2>3 DEF HearReveal, LoggedHint, N
    <3>3. hints' \in [Peer -> B]
      <4>1. PICK b : /\ hints' = [hints EXCEPT ![p] = b]
                     /\ \/ b = hints[p] \/ b = Resolved(hints[p])
                        \/ /\ u # <<>>
                           /\ \/ b = Buffered(hints[p], N(p), Head(u).turn)
                              \/ b = Resolved(Buffered(hints[p], N(p), Head(u).turn))
        BY <3>2
      <4>2. b \in B
        <5>1. CASE b = hints[p] \/ b = Resolved(hints[p])  BY <2>0, <2>1, <5>1
        <5>2. CASE u # <<>> /\ (\/ b = Buffered(hints[p], N(p), Head(u).turn)
                                \/ b = Resolved(Buffered(hints[p], N(p), Head(u).turn)))
          BY <2>1, <3>1, <5>2
        <5> QED  BY <4>1, <5>1, <5>2
      <4> HIDE DEF B
      <4> QED  BY <2>0, <4>1, <4>2
    <3>4. heard' \in [Peer -> SUBSET (Nat \X Nat)]
      <4>1. CASE heard' = heard  BY <2>0, <4>1
      <4>2. CASE u # <<>> /\ heard' = [heard EXCEPT ![p] = @ \cup {<<N(p), Head(u).turn>>}]
        <5>1. <<N(p), Head(u).turn>> \in Nat \X Nat  BY <2>0, <3>1, <4>2
        <5> HIDE DEF u
        <5> QED  BY <2>0, <4>2, <5>1
      <4> QED  BY <3>2, <4>1, <4>2
    <3> QED  BY <2>0, <3>2, <3>3, <3>4
  <2>4. CASE DecideWithHint(p)
    <3>1. UNCHANGED heard  BY <2>4 DEF DecideWithHint
    <3>2. CASE hints[p].incoming # NoHint /\ Hints
      <4>1. hints[p].incoming \in Nat /\ NoHint \in Stamp /\ Nat \subseteq Stamp
        BY <2>0, <3>2 DEF Stamp
      <4>2. /\ hints' = [hints EXCEPT ![p] = [pending |-> hints[p].incoming, incoming |-> NoHint]]
            /\ decoded' = [decoded EXCEPT ![p] = Append(@, <<N(p), hints[p].incoming>>)]
        BY <2>4, <3>2 DEF DecideWithHint, ConsumeHint, N
      <4> QED  BY <2>0, <3>1, <4>1, <4>2
    <3>3. CASE ~ (hints[p].incoming # NoHint /\ Hints)
      BY <2>0, <2>4, <3>1, <3>3 DEF DecideWithHint, ConsumeHint
    <3> QED  BY <3>2, <3>3
  <2>5. CASE HearOther(p)  BY <2>0, <2>5 DEF HearOther, buffers
  <2> QED  BY <1>1, <2>2, <2>3, <2>4, <2>5 DEF Reading
<1>2. ASSUME NEW p \in Peer, PlayOn(p) \/ UNCHANGED buffers
      PROVE  UNCHANGED buffers
  BY <1>2 DEF PlayOn
<1>3. ASSUME NEW p \in Peer, Unheard(p) \/ Arrive(p)
      PROVE  late' \in [Peer -> SUBSET Messages]
  <2>1. CASE late' = late  BY <2>1 DEF HintTypes
  <2>2. CASE Arrive(p)  BY <2>2 DEF Arrive, HintTypes
  <2>3. CASE PushDelayed(p)
    <3>1. Outgoing(p) \in Messages /\ Other(p) \in Peer  BY <1>0, OutgoingType, OtherFacts
    <3> QED  BY <2>3, <3>1 DEF PushDelayed, HintTypes
  <2> QED  BY <1>3, <2>1, <2>2, <2>3 DEF Unheard, HintLost, buffers
<1> QED
  BY <1>1, <1>2, <1>3, HintSteps DEF HintTypes, hintVars, lateVars, buffers

(* A hint is of a turn its receiver has sealed: its sender held the        *)
(* receiver's commit when it sent it.                                      *)
LEMMA StampedKept ==
  ASSUME IInv, IInv', HintTypes, HintTypes', \A p \in Peer : Stamped(p), [HintNext]_hintVars
  PROVE  \A p \in Peer : Stamped(p)'
<1> TAKE q \in Peer
<1>0. /\ L(q) \in Nat /\ L(q)' \in Nat /\ L(q) <= L(q)'
      /\ N(q) \in Nat /\ N(q)' \in Nat /\ N(q) <= N(q)'
      /\ inbox \in [Peer -> Seq(Messages)] /\ Len(inbox[q]) \in Nat
      /\ heard[q] \subseteq Nat \X Nat
  BY HintsGoOn, Lengths DEF IInv, TypeOK, HintTypes
<1>1. \A i \in 1 .. Len(inbox[q]) :
        /\ inbox[q][i].turn \in Nat
        /\ inbox[q][i].type = "hint" => inbox[q][i].turn < L(q) /\ inbox[q][i].turn < L(q)'
  <2>1. \A i \in 1 .. Len(inbox[q]) : inbox[q][i].turn \in Nat
    BY InboxEntry DEF IInv
  <2> QED  BY <1>0, <2>1 DEF Stamped
<1>2. \A m \in late[q] : m \in Messages /\ m.turn \in Nat /\ m.type = "hint" /\ m.turn < L(q)'
  <2>1. \A m \in late[q] : m \in Messages  BY DEF HintTypes
  <2>2. \A m \in late[q] : m.turn \in Nat  BY <2>1 DEF Messages
  <2> QED  BY <1>0, <2>1, <2>2 DEF Stamped
<1>3. ASSUME NEW p \in Peer, LoopStep(p)
      PROVE  \A i \in 1 .. Len(inbox'[q]) :
               inbox'[q][i].type = "hint" => inbox'[q][i].turn < L(q)'
  <2> TAKE i \in 1 .. Len(inbox'[q])
  <2>1. \/ \E j \in 1 .. Len(inbox[q]) : inbox'[q][i] = inbox[q][j]
        \/ q = Other(p) /\ pc[p] \in Sending /\ inbox'[q][i] = Outgoing(p)
    BY <1>3, StepInbox
  <2>2. ASSUME q = Other(p), pc[p] \in Sending, Outgoing(p).type = "hint"
        PROVE  Outgoing(p).turn < L(q)'
    <3>1. Outgoing(p).turn \in Nat /\ Outgoing(p).turn < L(q)
      BY <2>2, OutgoingHint
    <3> QED  BY <1>0, <3>1
  <2> QED  BY <1>1, <2>1, <2>2
<1>4. \A i \in 1 .. Len(inbox'[q]) :
        inbox'[q][i].type = "hint" => inbox'[q][i].turn < L(q)'
  <2>1. CASE inbox'[q] = inbox[q]  BY <1>1, <2>1
  <2>2. ASSUME NEW p \in Peer, Arrive(p)
        PROVE  \/ inbox'[q] = inbox[q]
               \/ \E m \in late[q] : inbox'[q] = Append(inbox[q], m)
    BY <1>0, <2>2 DEF Arrive
  <2>3. ASSUME NEW m \in late[q], inbox'[q] = Append(inbox[q], m)
        PROVE  \A i \in 1 .. Len(inbox'[q]) :
                 inbox'[q][i].type = "hint" => inbox'[q][i].turn < L(q)'
    <3>1. m \in Messages /\ inbox[q] \in Seq(Messages)  BY <1>0, <1>2
    <3>2. /\ Len(inbox'[q]) = Len(inbox[q]) + 1 /\ inbox'[q][Len(inbox[q]) + 1] = m
          /\ \A i \in 1 .. Len(inbox[q]) : inbox'[q][i] = inbox[q][i]
      BY <2>3, <3>1, AppendFacts
    <3> QED  BY <1>0, <1>1, <1>2, <3>2
  <2>4. ASSUME NEW p \in Peer, Reading(p) \/ PlayOn(p)  PROVE LoopStep(p)
    BY <2>4, GameSteps, LoopSteps
  <2>5. ASSUME NEW p \in Peer, Unheard(p)  PROVE inbox' = inbox
    BY <2>5, UnheardIsQuiet
  <2> QED
    BY <1>3, <2>1, <2>2, <2>3, <2>4, <2>5, HintSteps DEF hintVars, lateVars, vars
<1>5. \A m \in late'[q] : m.type = "hint" /\ m.turn < L(q)'
  <2>1. CASE late'[q] = late[q]  BY <1>2, <2>1
  <2>2. ASSUME NEW p \in Peer, Arrive(p)  PROVE late'[q] \subseteq late[q]
    BY <2>2 DEF Arrive, HintTypes
  <2>3. ASSUME NEW p \in Peer, pc[p] = "send_hint", PushDelayed(p)
        PROVE  \A m \in late'[q] : m.type = "hint" /\ m.turn < L(q)'
    <3>1. late'[q] = late[q] \/ (q = Other(p) /\ late'[q] = late[q] \cup {Outgoing(p)})
      BY <2>3 DEF PushDelayed, HintTypes
    <3>2. ASSUME q = Other(p)
          PROVE  Outgoing(p).type = "hint" /\ Outgoing(p).turn < L(q)'
      <4>1. Outgoing(p).type = "hint" /\ pc[p] \in Sending
        BY <2>3 DEF Outgoing, Msg, Sending
      <4>2. Outgoing(p).turn \in Nat /\ Outgoing(p).turn < L(q)
        BY <3>2, <4>1, OutgoingHint
      <4> QED  BY <1>0, <4>1, <4>2
    <3> QED  BY <1>2, <3>1, <3>2
  <2> QED
    BY <1>2, <2>1, <2>2, <2>3, HintSteps DEF Unheard, hintVars, lateVars
<1>6. \A x \in heard'[q] : x[1] <= N(q)' /\ x[2] < L(q)'
  <2>1. \A x \in heard[q] : x[1] <= N(q)' /\ x[2] < L(q)'
    <3>1. \A x \in heard[q] : x[1] \in Nat /\ x[2] \in Nat  BY <1>0
    <3> QED  BY <1>0, <3>1 DEF Stamped
  <2>2. ASSUME Reading(q)
        PROVE  \A x \in heard'[q] : x[1] <= N(q)' /\ x[2] < L(q)'
    BY <1>0, <1>1, <2>1, <2>2, Hearing
  <2>3. ASSUME NEW p \in Peer, Reading(p), p # q  PROVE heard'[q] = heard[q]
    BY <2>3, ReadingIsLocal
  <2>4. ASSUME NEW p \in Peer, PlayOn(p) \/ UNCHANGED buffers  PROVE heard' = heard
    BY <2>4 DEF PlayOn, buffers
  <2> QED
    BY <2>1, <2>2, <2>3, <2>4, HintSteps DEF hintVars
<1> QED  BY <1>4, <1>5, <1>6 DEF Stamped

-----------------------------------------------------------------------------
(* A hint in line.                                                         *)

LEMMA InLineTail ==
  ASSUME NEW s \in Seq(Messages), s # <<>>, NEW t \in Nat, NEW i \in 1 .. Len(s), InLine(s, t, i),
         ~ (Head(s).type = "hint" /\ Head(s).turn = t)
  PROVE  \E k \in 1 .. Len(Tail(s)) : InLine(Tail(s), t, k)
<1>1. /\ Head(s) = s[1] /\ Len(s) \in Nat \ {0} /\ Len(Tail(s)) = Len(s) - 1
      /\ \A k \in 1 .. Len(Tail(s)) : Tail(s)[k] = s[k + 1]
  BY TailFacts
<1>2. i # 1  BY <1>1 DEF InLine
<1>3. i - 1 \in 1 .. Len(Tail(s)) /\ (i - 1) + 1 = i  BY <1>1, <1>2
<1>4. Tail(s)[i - 1] = s[i]  BY <1>1, <1>3
<1>5. ASSUME NEW j \in 1 .. Len(Tail(s)), j < i - 1, Protocol(Tail(s)[j])
      PROVE  Tail(s)[j].turn <= t
  <2>1. j + 1 \in 1 .. Len(s) /\ j + 1 < i /\ Tail(s)[j] = s[j + 1]  BY <1>1, <1>5
  <2> QED  BY <1>5, <2>1 DEF InLine
<1> QED  BY <1>3, <1>4, <1>5 DEF InLine

LEMMA InLineAppend ==
  ASSUME NEW s \in Seq(Messages), NEW e \in Messages, NEW t \in Nat, NEW i \in 1 .. Len(s),
         InLine(s, t, i)
  PROVE  i \in 1 .. Len(Append(s, e)) /\ InLine(Append(s, e), t, i)
<1>1. /\ Len(Append(s, e)) = Len(s) + 1 /\ Len(s) \in Nat
      /\ \A k \in 1 .. Len(s) : Append(s, e)[k] = s[k]
  BY AppendFacts, LenProperties
<1>2. i \in 1 .. Len(Append(s, e)) /\ Append(s, e)[i] = s[i]  BY <1>1
<1>3. ASSUME NEW j \in 1 .. Len(Append(s, e)), j < i, Protocol(Append(s, e)[j])
      PROVE  Append(s, e)[j].turn <= t
  <2>1. j \in 1 .. Len(s)  BY <1>1, <1>3
  <2> QED  BY <1>1, <1>3, <2>1 DEF InLine
<1> QED  BY <1>2, <1>3 DEF InLine

LEMMA NotEmpty == ASSUME NEW s \in Seq(Messages), NEW i \in 1 .. Len(s) PROVE s # <<>>
<1>1. Len(s) # 0  BY LenProperties
<1> QED  BY <1>1

(* Draining keeps a hint in line, unless it is the one it took.            *)
LEMMA InLineDrained ==
  ASSUME NEW s \in Seq(Messages), NEW t \in Nat, NEW i \in 1 .. Len(s), InLine(s, t, i),
         ~ (Head(s).type = "hint" /\ Head(s).turn = t)
  PROVE  \E k \in 1 .. Len(Drained(s)) : InLine(Drained(s), t, k)
<1>1. s # <<>>  BY NotEmpty
<1>2. PICK k \in 1 .. Len(Tail(s)) : InLine(Tail(s), t, k)
  BY <1>1, InLineTail
<1>3. Tail(s) \in Seq(Messages) /\ Head(s) \in Messages
  BY <1>1, TailFacts
<1>4. /\ k \in 1 .. Len(Append(Tail(s), Head(s)))
      /\ InLine(Append(Tail(s), Head(s)), t, k)
  BY <1>2, <1>3, InLineAppend
<1> QED  BY <1>1, <1>2, <1>4 DEF Drained

-----------------------------------------------------------------------------
(* What a peer was told it hears in time.                                  *)

(* The reader meets the hint, or leaves it in line.                        *)
LEMMA OwedToReader ==
  ASSUME IInv, IInv', HintTypes, NEW p \in Peer, Reading(p), NEW t \in Nat,
         NEW i \in 1 .. Len(inbox[p]), InLine(inbox[p], t, i), N(p) <= t + 1,
         ~ HeardInTime(p, t)'
  PROVE  N(p)' <= t + 1 /\ \E k \in 1 .. Len(inbox'[p]) : InLine(inbox'[p], t, k)
<1> DEFINE s == inbox[p]
<1>0. /\ s \in Seq(Messages) /\ inbox \in [Peer -> Seq(Messages)] /\ N(p) \in Nat
      /\ heard \in [Peer -> SUBSET (Nat \X Nat)] /\ hist \in [Peer -> Seq(JointTurns)]
  BY Lengths DEF IInv, TypeOK, HintTypes
<1>1. <<N(p), t>> \notin heard'[p]
  <2>1. t >= N(p) - 1  BY <1>0
  <2> QED  BY <2>1 DEF HeardInTime
<1>2. s # <<>> => /\ Head(s) = s[1] /\ 1 \in 1 .. Len(s)
                  /\ Tail(s) \in Seq(Messages) /\ Len(s) \in Nat
  BY <1>0, TailFacts
<1>3. CASE UNCHANGED <<inbox, hist>>
  BY <1>0, <1>3 DEF N
<1>4. CASE s # <<>> /\ Take(p) /\ UNCHANGED hist
           /\ ~ (Head(s).type = "hint" /\ Head(s).turn = t)
  <2>1. inbox'[p] = Tail(s)  BY <1>0, <1>4 DEF Take
  <2>2. \E k \in 1 .. Len(Tail(s)) : InLine(Tail(s), t, k)
    BY <1>0, <1>4, InLineTail
  <2> QED  BY <1>0, <1>4, <2>1, <2>2 DEF N
<1>5. CASE HearHint(p)
  <2>1. /\ s # <<>> /\ Take(p) /\ UNCHANGED hist
        /\ heard' = [heard EXCEPT ![p] = @ \cup {<<N(p), Head(s).turn>>}]
    BY <1>5 DEF HearHint, DropJitter, LoggedHint, N
  <2>2. Head(s).turn # t  BY <1>0, <1>1, <2>1
  <2> QED  BY <1>4, <2>1, <2>2
<1>6. CASE DecideWithHint(p)
  BY <1>3, <1>4, <1>6 DEF DecideWithHint, Decide, TakeCommit
<1>7. CASE HearOther(p)
  BY <1>4, <1>7 DEF HearOther, DropJitter, CaptureEarlyAck, TakeMatchingAck,
                    AcceptAck, AcceptCommit
<1>8. CASE HearReveal(p)
  <2> DEFINE u == Tail(s)
  <2>1. s # <<>> /\ TakeReveal(p, Head(s)) /\ Head(s).type = "reveal" /\ pc[p] = "wait_reveal"
    BY <1>8 DEF HearReveal, TakeReveal
  <2>2. Head(s).turn = N(p) /\ N(p)' = N(p) + 1
    BY <2>1, RevealOfThisTurn, RevealFacts
  <2>3. i # 1  BY <1>2, <2>1 DEF InLine
  <2>4. N(p) <= t
    BY <1>2, <2>1, <2>2, <2>3 DEF InLine, Protocol
  <2>5. PICK k \in 1 .. Len(u) : InLine(u, t, k)
    BY <1>0, <2>1, InLineTail
  <2>6. ~ (Head(u).type = "hint" /\ Head(u).turn = t)
    <3>2. u # <<>>  BY <1>2, <2>1, <2>5, NotEmpty
    <3>3. Head(u).type = "hint" => <<N(p), Head(u).turn>> \in heard'[p]
      BY <1>0, <1>8, <3>2 DEF HearReveal, LoggedHint, N
    <3> QED  BY <1>1, <3>3
  <2>7. \E j \in 1 .. Len(Drained(u)) : InLine(Drained(u), t, j)
    BY <1>2, <2>1, <2>5, <2>6, InLineDrained
  <2>8. inbox'[p] = Drained(u)  BY <1>0, <2>1 DEF TakeReveal
  <2> QED  BY <1>0, <2>2, <2>4, <2>7, <2>8
<1> QED  BY <1>5, <1>6, <1>7, <1>8 DEF Reading

LEMMA OwedKept ==
  ASSUME IInv, IInv', HintTypes, HintTypes', \A p \in Peer : Stamped(p),
         \A p \in Peer : Owed(p), [HintNext]_hintVars
  PROVE  \A p \in Peer : Owed(p)'
<1> SUFFICES ASSUME NEW q \in Peer, NEW t \in Nat, NEW o \in Peer, o = Other(q),
                    Active(q)', HintSent(o, t)', ~ HeardInTime(q, t)'
             PROVE  N(q)' <= t + 1 /\ \E k \in 1 .. Len(inbox'[q]) : InLine(inbox'[q], t, k)
  BY OtherFacts DEF Owed
<1>0. /\ inbox \in [Peer -> Seq(Messages)] /\ inbox[q] \in Seq(Messages)
      /\ q = Other(o) /\ o # q /\ N(q) \in Nat /\ \A p \in Peer : p = q \/ p = o
  BY OtherFacts, Lengths DEF IInv, TypeOK, Peer
<1>1. Active(q)
  BY HintsGoOn
<1>2. ASSUME HintSent(o, t), ~ HeardInTime(q, t)
      PROVE  N(q) <= t + 1 /\ \E i \in 1 .. Len(inbox[q]) : InLine(inbox[q], t, i)
  BY <1>1, <1>2 DEF Owed
<1>3. ASSUME HintSent(o, t), heard'[q] = heard[q], hist'[q] = hist[q], NEW e \in Messages,
             inbox'[q] = inbox[q] \/ inbox'[q] = Append(inbox[q], e)
      PROVE  N(q)' <= t + 1 /\ \E k \in 1 .. Len(inbox'[q]) : InLine(inbox'[q], t, k)
  <2>1. ~ HeardInTime(q, t) /\ N(q)' = N(q)  BY <1>3 DEF HeardInTime, N
  <2>2. PICK i \in 1 .. Len(inbox[q]) : InLine(inbox[q], t, i)  BY <1>2, <1>3, <2>1
  <2>3. i \in 1 .. Len(Append(inbox[q], e)) /\ InLine(Append(inbox[q], e), t, i)
    BY <1>0, <2>2, InLineAppend
  <2> QED  BY <1>2, <1>3, <2>1, <2>2, <2>3
<1>4. CASE Reading(q)
  <2>1. HintSent(o, t) /\ heard[q] \subseteq heard'[q]
    BY <1>4, ReadingIsLocal, Hearing
  <2>2. ~ HeardInTime(q, t)  BY <2>1 DEF HeardInTime
  <2> QED  BY <1>2, <1>4, <2>1, <2>2, OwedToReader
<1>5. CASE Reading(o)
  <2>1. HintSent(o, t) /\ heard'[q] = heard[q] /\ inbox'[q] = inbox[q]
    BY <1>0, <1>5, ReadingIsLocal
  <2>2. hist'[q] = hist[q]
    BY <1>0, <1>5, GameSteps, LoopSteps, OthersStand
  <2>3. Outgoing(o) \in Messages  BY OutgoingType DEF IInv
  <2> QED  BY <1>3, <2>1, <2>2, <2>3
<1>6. CASE (PlayOn(q) \/ Unheard(q)) /\ UNCHANGED buffers
  <2>1. inbox'[q] = inbox[q] /\ log'[o] = log[o] /\ UNCHANGED <<hist, heard>>
    BY <1>0, <1>6, SendingIsLocal DEF buffers
  <2>2. HintSent(o, t)  BY <2>1 DEF HintSent
  <2>3. Outgoing(o) \in Messages  BY OutgoingType DEF IInv
  <2> QED  BY <1>3, <2>1, <2>2, <2>3
<1>7. CASE (PlayOn(o) \/ Unheard(o)) /\ UNCHANGED buffers
  <2>1. /\ UNCHANGED <<hist, heard>> /\ Outgoing(o) \in Messages
        /\ inbox'[q] = inbox[q] \/ inbox'[q] = Append(inbox[q], Outgoing(o))
        /\ \/ HintSent(o, t)
           \/ /\ pc[o] \in Sending /\ Outgoing(o).type = "hint" /\ Outgoing(o).turn = t
              /\ inbox'[q] = Append(inbox[q], Outgoing(o))
    BY <1>0, <1>7, SendingIsLocal, OutgoingType DEF buffers, IInv
  <2>2. CASE HintSent(o, t)  BY <1>3, <2>1, <2>2
  <2>3. CASE /\ pc[o] \in Sending /\ Outgoing(o).type = "hint" /\ Outgoing(o).turn = t
             /\ inbox'[q] = Append(inbox[q], Outgoing(o))
    <3> DEFINE s == inbox[q]
    <3>1. /\ N(q) <= t + 1
          /\ \A i \in 1 .. Len(s) : Protocol(s[i]) => s[i].turn <= t
      BY <1>0, <2>3, OutgoingHint
    <3>2. PICK e \in Messages : e = Outgoing(o)  BY <2>1
    <3>3. /\ Len(inbox'[q]) = Len(s) + 1 /\ inbox'[q][Len(s) + 1] = e /\ Len(s) \in Nat
          /\ \A i \in 1 .. Len(s) : inbox'[q][i] = s[i]
      BY <1>0, <2>3, <3>2, AppendFacts, LenProperties
    <3>4. Len(s) + 1 \in 1 .. Len(inbox'[q]) /\ InLine(inbox'[q], t, Len(s) + 1)
      <4>1. \A j \in 1 .. Len(inbox'[q]) : j < Len(s) + 1 => j \in 1 .. Len(s)
        BY <3>3
      <4> QED  BY <2>3, <3>1, <3>2, <3>3, <4>1 DEF InLine
    <3> QED  BY <2>1, <3>1, <3>4 DEF N
  <2> QED  BY <2>1, <2>2, <2>3
<1>8. ASSUME NEW p \in Peer, Arrive(p) /\ UNCHANGED buffers
      PROVE  N(q)' <= t + 1 /\ \E k \in 1 .. Len(inbox'[q]) : InLine(inbox'[q], t, k)
  <2>1. PICK e \in late[p] : inbox' = [inbox EXCEPT ![p] = Append(@, e)]
    BY <1>8 DEF Arrive
  <2>2. e \in Messages  BY DEF HintTypes
  <2>3. UNCHANGED <<log, hist, heard>>  BY <1>8 DEF Arrive, buffers
  <2>4. HintSent(o, t)  BY <2>3 DEF HintSent
  <2>5. inbox'[q] = inbox[q] \/ inbox'[q] = Append(inbox[q], e)  BY <1>0, <2>1
  <2> QED  BY <1>3, <2>2, <2>3, <2>4, <2>5
<1>9. CASE UNCHANGED hintVars
  <2>1. UNCHANGED <<inbox, log, hist, heard>>  BY <1>9 DEF hintVars, lateVars, vars
  <2>2. HintSent(o, t)  BY <2>1 DEF HintSent
  <2>3. Outgoing(o) \in Messages  BY OutgoingType DEF IInv
  <2> QED  BY <1>3, <2>1, <2>2, <2>3
<1>10. ASSUME NEW p \in Peer, PlayOn(p)  PROVE UNCHANGED buffers
  BY <1>10 DEF PlayOn
<1> QED
  BY <1>0, <1>4, <1>5, <1>6, <1>7, <1>8, <1>9, <1>10, HintSteps

-----------------------------------------------------------------------------
(* With nothing lost, every turn is hinted at.                             *)

(* The turns hinted at so far grow only where a hint's call is answered.   *)
LEMMA PushHints ==
  ASSUME IInv, IInv', NEW p \in Peer, PushAnswered(p), Hints, NEW t \in Nat, t < Hinted(p)'
  PROVE  t < Hinted(p) \/ (pc[p] = "send_hint" /\ t = TurnOf(p))
<1>0. /\ pc \in [Peer -> PC] /\ UNCHANGED hist /\ N(p) \in Nat /\ N(p)' = N(p)
      /\ pc[p] \in Sending /\ Proceed(p)
  BY Lengths DEF PushAnswered, IInv, TypeOK, N
<1>1. ASSUME NEW x, Goto(p, x), x # "wait_reveal" \/ p # "police",
             p = "thief" /\ Active(p)' => (pc[p] \in Behind <=> x \in Behind),
             p = "thief" /\ Active(p)' => Active(p)
      PROVE  t < Hinted(p)
  <2>1. pc'[p] = x  BY <1>0, <1>1 DEF Goto
  <2> QED  BY <1>0, <1>1, <2>1 DEF Hinted, TurnOf, Active, Peer
<1>2. CASE pc[p] \in {"send_commit", "send_ack"}
  <2>1. Active(p)  BY <1>2 DEF Active, Ended
  <2> QED  BY <1>0, <1>1, <1>2, <2>1 DEF Proceed, Behind, Peer
<1>3. CASE pc[p] \in {"declare", "publish"}
  <2>1. \E x \in Ended : pc'[p] = x  BY <1>0, <1>3 DEF Proceed, Goto, Ended
  <2> QED  BY <1>0, <2>1 DEF Hinted, Active, TurnOf, Peer, Ended
<1>4. CASE pc[p] = "send_reveal" /\ SendsHint(p)
  <2>1. Active(p) /\ Goto(p, "send_hint")  BY <1>0, <1>4 DEF Active, Ended, Proceed
  <2> QED  BY <1>1, <1>4, <2>1 DEF Behind
<1>5. CASE pc[p] \in {"send_reveal", "send_hint"} /\ EndOfMyTurn(p)
           /\ (pc[p] = "send_reveal" => ~ SendsHint(p))
  <2>1. Active(p) /\ pc[p] \in Behind  BY <1>5 DEF Active, Ended, Behind
  <2>2. CASE p = "police"
    <3>1. pc[p] = "send_hint"  BY <1>5, <2>2 DEF SendsHint
    <3> QED  BY <1>0, <2>2, <3>1 DEF Hinted, TurnOf
  <2>3. CASE p = "thief" /\ BoardOutcome(hist[p]) # "none"
    <3>1. pc'[p] = "publish"  BY <1>0, <1>5, <2>3 DEF EndOfMyTurn, Finish
    <3> QED  BY <1>0, <2>1, <2>3, <3>1 DEF Hinted, TurnOf, Active, Ended
  <2>4. CASE p = "thief" /\ BoardOutcome(hist[p]) = "none"
    <3>1. pc[p] = "send_hint"  BY <1>5, <2>4 DEF SendsHint
    <3>2. TurnOf(p) = N(p) - 1 /\ Hinted(p) = N(p) - 1
      BY <2>1, <2>4 DEF Hinted, TurnOf
    <3>3. Hinted(p)' \in {N(p), N(p) - 1}  BY <1>0, <2>4 DEF Hinted, TurnOf
    <3> QED  BY <1>0, <3>1, <3>2, <3>3
  <2> QED  BY <2>2, <2>3, <2>4 DEF Peer
<1> QED
  BY <1>0, <1>2, <1>3, <1>4, <1>5 DEF Proceed, Sending

(* Reading and giving up add no turn to those that were hinted at.         *)
LEMMA OthersHintNothing ==
  ASSUME IInv, IInv', NEW p \in Peer, Reading(p) \/ WaitExpires(p), NEW q \in Peer,
         NEW t \in Nat, t < Hinted(q)'
  PROVE  t < Hinted(q)
<1>0. /\ pc \in [Peer -> PC] /\ \A r \in Peer : N(r) \in Nat /\ N(r)' \in Nat
      /\ LoopStep(p)
  <2>1. Step(p) \/ Fault(p)  BY GameSteps DEF Step
  <2>2. LoopStep(p)  BY <2>1, LoopSteps
  <2>3. TypeOK /\ TypeOK'  BY DEF IInv
  <2>4. \A r \in Peer : N(r) \in Nat /\ N(r)' \in Nat
    <3>1. hist \in [Peer -> Seq(JointTurns)] /\ hist' \in [Peer -> Seq(JointTurns)]
      BY <2>3 DEF TypeOK
    <3> QED  BY <3>1, LenProperties DEF N
  <2> QED  BY <2>2, <2>3, <2>4 DEF TypeOK
<1>1. CASE q # p
  BY <1>0, <1>1, OthersStand DEF Hinted, TurnOf, Active, N
<1>2. CASE q = p /\ WaitExpires(p)
  <2>1. pc'[p] \in Ended /\ UNCHANGED hist
    BY <1>0, <1>2 DEF WaitExpires, Expire, TechnicalLoss, Finish, Ended
  <2> QED  BY <1>0, <1>2, <2>1 DEF Hinted, TurnOf, Active, Ended, N, Peer
<1>3. CASE q = p /\ Reading(p)
  <2>1. SealsOne(p) \/ ReadsOn(p) \/ Resolves(p)
    BY <1>3, ReadingIsAStep, ReceiveKinds, DecideSeals DEF SealsOne, Decide
  <2>2. CASE SealsOne(p)
    <3>1. /\ N(p)' = N(p) /\ pc'[p] = "send_commit" /\ TurnOf(p)' = TurnOf(p)
          /\ pc[p] \in {"decide", "wait_commit"}
      BY <2>2, SealFacts DEF SealsOne, Sealing
    <3>2. Active(p) /\ TurnOf(p) = N(p)  BY <3>1 DEF Active, Ended, TurnOf, Behind
    <3> QED  BY <1>0, <1>3, <3>1, <3>2 DEF Hinted, Active, Ended
  <2>3. CASE ReadsOn(p)
    <3>1. PICK x \in PC : Reads(p, x)  BY <2>3 DEF ReadsOn
    <3>2. pc'[p] = x /\ N(p)' = N(p) /\ pc[p] \in Waiting  BY <1>0, <3>1 DEF Reads, N
    <3>3. Active(p)  BY <3>2 DEF Active, Ended, Waiting
    <3> QED  BY <1>0, <1>3, <3>1, <3>2, <3>3 DEF Reads, Hinted, TurnOf, Behind, Peer
  <2>4. CASE Resolves(p)
    <3>1. /\ N(p)' = N(p) + 1 /\ pc[p] = "wait_reveal"
          /\ p = "police" => pc'[p] # "wait_reveal"
          /\ p = "thief" => pc'[p] \in {"send_reveal", "wait_ack"}
      BY <2>4, RevealFacts DEF Resolves, TakeReveal
    <3> QED  BY <1>0, <1>3, <3>1 DEF Hinted, TurnOf, Active, Ended, Behind, Peer
  <2> QED  BY <2>1, <2>2, <2>3, <2>4
<1> QED  BY <1>1, <1>2, <1>3

LEMMA AllToldKept ==
  ASSUME IInv, IInv', HintTypes, \A p \in Peer : Stamped(p), \A p \in Peer : AllTold(p),
         [HintNext]_hintVars
  PROVE  \A p \in Peer : AllTold(p)'
<1> SUFFICES ASSUME NEW q \in Peer, Hints, faults' = 0, NEW t \in Nat, t < Hinted(q)'
             PROVE  HintSent(q, t)'
  BY DEF AllTold
<1>0. /\ faults = 0 /\ ~ (faults' = faults + 1) /\ log \in [Peer -> SUBSET Records]
      /\ pc \in [Peer -> PC] /\ \A p \in Peer : p = q \/ p = Other(q)
  <2>1. faults = 0 /\ ~ (faults' = faults + 1)  BY HintsGoOn
  <2> QED  BY <2>1 DEF IInv, TypeOK, Peer, Other
<1>1. t < Hinted(q) => HintSent(q, t)  BY <1>0 DEF AllTold
<1>2. ASSUME NEW p \in Peer, Reading(p)  PROVE HintSent(q, t)'
  <2>1. t < Hinted(q)  BY <1>2, OthersHintNothing
  <2> QED  BY <1>1, <1>2, <2>1, ReadingIsLocal
<1>3. ASSUME NEW p \in Peer, WaitExpires(p)  PROVE HintSent(q, t)'
  <2>1. t < Hinted(q) /\ UNCHANGED log
    BY <1>3, OthersHintNothing DEF WaitExpires, Expire
  <2> QED  BY <1>1, <2>1 DEF HintSent
<1>4. ASSUME NEW p \in Peer, PushAnswered(p)  PROVE HintSent(q, t)'
  <2>1. /\ log' = [log EXCEPT ![p] = @ \cup {Record("sent", Outgoing(p).turn, Outgoing(p))}]
        /\ UNCHANGED hist
    BY <1>4 DEF PushAnswered
  <2>2. HintSent(q, t) => HintSent(q, t)'  BY <1>0, <2>1 DEF HintSent
  <2>3. CASE t < Hinted(q)  BY <1>1, <2>2, <2>3
  <2>4. CASE ~ (t < Hinted(q))
    <3>1. q = p
      <4>1. q # p => pc'[q] = pc[q]
        BY <1>0, <1>4, LoopSteps, OthersStand DEF Step
      <4> QED  BY <2>1, <2>4, <4>1 DEF Hinted, TurnOf, Active, N
    <3>2. pc[p] = "send_hint" /\ t = TurnOf(p)  BY <1>4, <2>4, <3>1, PushHints
    <3>3. pc[p] \in Sending /\ Active(p) /\ Outgoing(p).type = "hint"
      BY <3>2 DEF Sending, Active, Ended, Outgoing, Msg
    <3>4. Outgoing(p).turn = t  BY <3>2, <3>3, OutgoingCases
    <3>5. Record("sent", Outgoing(p).turn, Outgoing(p)) \in log'[q]
      BY <1>0, <2>1, <3>1
    <3> QED  BY <3>3, <3>4, <3>5 DEF HintSent, Record
  <2> QED  BY <2>3, <2>4
<1>5. ASSUME NEW p \in Peer, PlayOn(p) \/ Unheard(p)  PROVE HintSent(q, t)'
  BY <1>0, <1>3, <1>4, <1>5, OtherFacts, SendingIsLocal
<1>6. CASE UNCHANGED <<pc, hist, log>>
  <2>1. t < Hinted(q)  BY <1>6 DEF Hinted, TurnOf, Active, N
  <2> QED  BY <1>1, <1>6, <2>1 DEF HintSent
<1>7. ASSUME NEW p \in Peer, Arrive(p)  PROVE UNCHANGED <<pc, hist, log>>
  BY <1>7 DEF Arrive
<1> QED
  BY <1>2, <1>5, <1>6, <1>7, HintSteps DEF hintVars, lateVars, vars

-----------------------------------------------------------------------------
(* The two buffers.                                                        *)

B == [pending : Stamp, incoming : Stamp]

(* The two halves of Buffers, over what they speak of: the stamps that     *)
(* would be news, the last one decoded and the turn.                       *)
HoldsNewest(b, news) ==
  IF b.incoming = NoHint THEN news = {}
  ELSE b.incoming \in news /\ \A s \in news : s <= b.incoming
KeepsMark(b, last, n) ==
  b.incoming = NoHint =>
    IF b.pending # NoHint THEN b.pending = last ELSE last = NoHint \/ last < n - 1

Recent(s, n, last) == IF s >= n - 1 /\ s > last THEN {s} ELSE {}

(* Whatever hint is heard, the buffers go on holding the newest of the     *)
(* news: an equal or an older copy of a spent hint is told from a new one  *)
(* by the mark, and by the window once the mark is gone.                   *)
LEMMA BufferedHoldsNewest ==
  ASSUME NEW b \in B, NEW n \in Nat, NEW s \in Nat, NEW last \in Stamp, NEW news \in SUBSET Nat,
         HoldsNewest(b, news), KeepsMark(b, last, n), \A x \in news : x > last
  PROVE  /\ HoldsNewest(Buffered(b, n, s), news \cup Recent(s, n, last))
         /\ KeepsMark(Buffered(b, n, s), last, n)
<1> DEFINE c == [pending |-> NotOlder(b.pending, s), incoming |-> NotOlder(b.incoming, s)]
<1>0. /\ b.pending \in Stamp /\ b.incoming \in Stamp /\ NoHint = -1
      /\ \A x \in Stamp : x = NoHint \/ x \in Nat
  BY DEF B, Stamp, NoHint
<1>1. CASE s < n - 1
  BY <1>0, <1>1 DEF Buffered, Lookback, Recent
<1>2. CASE ~ (s < n - 1) /\ IsReplay(b, s)
  <2>1. b.pending = last /\ s <= last  BY <1>2 DEF IsReplay, KeepsMark
  <2>2. Recent(s, n, last) = {}  BY <1>0, <2>1 DEF Recent
  <2>3. Buffered(b, n, s) = b  BY <1>2 DEF Buffered
  <2> QED  BY <2>2, <2>3
<1>3. CASE ~ (s < n - 1) /\ ~ IsReplay(b, s)
  <2>1. Buffered(b, n, s) = c  BY <1>3 DEF Buffered, Lookback
  <2>2. c.incoming \in Nat /\ c.incoming # NoHint /\ c.incoming >= s
    BY <1>0 DEF NotOlder
  <2>3. KeepsMark(c, last, n)  BY <2>2 DEF KeepsMark
  <2>4. CASE b.incoming = NoHint
    <3>1. c.incoming = s /\ news = {}  BY <1>0, <2>4 DEF NotOlder, HoldsNewest
    <3>2. s > last  BY <1>0, <1>3, <2>4 DEF KeepsMark, IsReplay
    <3>3. Recent(s, n, last) = {s}  BY <1>0, <1>3, <3>2 DEF Recent
    <3> QED  BY <2>1, <2>2, <2>3, <3>1, <3>3 DEF HoldsNewest
  <2>5. CASE b.incoming # NoHint
    <3>1. /\ b.incoming \in news /\ b.incoming \in Nat /\ b.incoming > last
          /\ \A x \in news : x \in Nat /\ x <= b.incoming
      BY <1>0, <2>5 DEF HoldsNewest
    <3>2. c.incoming = IF s >= b.incoming THEN s ELSE b.incoming  BY DEF NotOlder
    <3>3. CASE s >= b.incoming
      <4>1. Recent(s, n, last) = {s}  BY <1>0, <1>3, <3>1, <3>3 DEF Recent
      <4> QED  BY <2>1, <2>2, <2>3, <3>1, <3>2, <3>3, <4>1 DEF HoldsNewest
    <3>4. CASE ~ (s >= b.incoming)
      <4>1. Recent(s, n, last) \subseteq {s}  BY DEF Recent
      <4> QED  BY <2>1, <2>2, <2>3, <3>1, <3>2, <3>4, <4>1 DEF HoldsNewest
    <3> QED  BY <3>3, <3>4
  <2> QED  BY <2>4, <2>5
<1> QED  BY <1>1, <1>2, <1>3

(* Resolving a turn clears the mark only when the hint it marks cannot be  *)
(* heard again inside the window.                                          *)
LEMMA ResolvedHoldsNewest ==
  ASSUME NEW b \in B, NEW n \in Nat, NEW last \in Stamp, NEW news,
         HoldsNewest(b, news), last = NoHint \/ last < n
  PROVE  HoldsNewest(Resolved(b), news) /\ KeepsMark(Resolved(b), last, n + 1)
<1>1. Resolved(b).pending = NoHint /\ Resolved(b).incoming = b.incoming
  BY DEF Resolved, B
<1>2. last = NoHint \/ last < (n + 1) - 1  BY DEF Stamp
<1> QED  BY <1>1, <1>2 DEF HoldsNewest, KeepsMark

LEMMA NewsFacts ==
  ASSUME HintTypes, NEW p \in Peer
  PROVE  /\ LastDecoded(p) \in Stamp /\ News(p) \in SUBSET Nat
         /\ \A s : s \in News(p) <=> \E y \in heard[p] : y[2] = s /\ y[2] >= y[1] - 1 /\ y[2] > LastDecoded(p)
         /\ \A s \in News(p) : s > LastDecoded(p)
<1>1. decoded[p] \in Seq(Nat \X Nat) /\ heard[p] \in SUBSET (Nat \X Nat)
  BY DEF HintTypes
<1>2. CASE decoded[p] = <<>>
  BY <1>1, <1>2 DEF LastDecoded, Stamp, NoHint, News
<1>3. CASE decoded[p] # <<>>
  <2>1. Len(decoded[p]) \in 1 .. Len(decoded[p])
    <3>1. Len(decoded[p]) \in Nat \ {0}  BY <1>1, <1>3, TailFacts
    <3> QED  BY <3>1
  <2>2. decoded[p][Len(decoded[p])] \in Nat \X Nat  BY <1>1, <2>1, ElementOfSeq
  <2>3. LastDecoded(p) \in Nat  BY <1>3, <2>2 DEF LastDecoded
  <2> QED  BY <1>1, <2>3 DEF News, Stamp
<1> QED  BY <1>2, <1>3

LEMMA BuffersAre ==
  ASSUME NEW p \in Peer
  PROVE  /\ Newest(p) <=> HoldsNewest(hints[p], News(p))
         /\ Marked(p) <=> KeepsMark(hints[p], LastDecoded(p), N(p))
BY DEF Newest, Marked, HoldsNewest, KeepsMark

(* Hearing one hint, the news are what they were and perhaps that one.     *)
LEMMA HearsOne ==
  ASSUME HintTypes, HintTypes', NEW p \in Peer, UNCHANGED decoded, NEW s \in Nat, N(p) \in Nat,
         heard'[p] = heard[p] \cup {<<N(p), s>>}
  PROVE  News(p)' = News(p) \cup Recent(s, N(p), LastDecoded(p))
<1> DEFINE y == <<N(p), s>>
<1>1. LastDecoded(p)' = LastDecoded(p)  BY DEF LastDecoded
<1>2. News(p)' = {x[2] : x \in {z \in heard[p] \cup {y} : z[2] >= z[1] - 1 /\ z[2] > LastDecoded(p)}}
  BY <1>1 DEF News
<1>3. y[1] = N(p) /\ y[2] = s  OBVIOUS
<1> HIDE DEF y
<1>4. CASE s >= N(p) - 1 /\ s > LastDecoded(p)
  <2>1. Recent(s, N(p), LastDecoded(p)) = {s}  BY <1>4 DEF Recent
  <2> QED  BY <1>2, <1>3, <1>4, <2>1 DEF News
<1>5. CASE ~ (s >= N(p) - 1 /\ s > LastDecoded(p))
  <2>1. Recent(s, N(p), LastDecoded(p)) = {}  BY <1>5 DEF Recent
  <2> QED  BY <1>2, <1>3, <1>5, <2>1 DEF News
<1> QED  BY <1>4, <1>5

(* A decision spends the newest of the news.                               *)
LEMMA DecidingSpends ==
  ASSUME IInv, HintTypes, NEW p \in Peer, Stamped(p), Buffers(p), Hints, DecideWithHint(p)
  PROVE  /\ L(p) = N(p) /\ N(p) \in Nat /\ L(p)' = N(p) + 1 /\ UNCHANGED <<hist, heard>>
         /\ \A q \in Peer : q # p => ledger'[q] = ledger[q]
         /\ News(p) = {} => UNCHANGED <<hints, decoded>>
         /\ News(p) # {} =>
              /\ Max(News(p)) = hints[p].incoming /\ hints[p].incoming \in News(p)
              /\ hints[p].incoming < N(p) /\ hints[p].incoming # NoHint
              /\ hints' = [hints EXCEPT ![p] = [pending |-> hints[p].incoming, incoming |-> NoHint]]
              /\ decoded' = [decoded EXCEPT ![p] = Append(@, <<N(p), hints[p].incoming>>)]
              /\ LastDecoded(p)' = hints[p].incoming
              /\ News(p)' = {}
<1>0. /\ News(p) \in SUBSET Nat /\ Newest(p) /\ decoded \in [Peer -> Seq(Nat \X Nat)]
      /\ LastDecoded(p) \in Stamp
  BY NewsFacts DEF Buffers, HintTypes
<1>1. \E a \in Act : Sealing(p, a)
  BY DecideSeals, TakeCommitSeals DEF DecideWithHint
<1>2. /\ L(p) = N(p) /\ N(p) \in Nat /\ L(p)' = N(p) + 1
      /\ \A q \in Peer : q # p => ledger'[q] = ledger[q]
  BY <1>1, SealFacts
<1>3. UNCHANGED <<hist, heard>>  BY DEF DecideWithHint, Decide, TakeCommit
<1>4. CASE News(p) = {}
  <2>1. hints[p].incoming = NoHint  BY <1>0, <1>4 DEF Newest
  <2> QED  BY <1>2, <1>3, <1>4, <2>1 DEF DecideWithHint, ConsumeHint
<1>5. CASE News(p) # {}
  <2> DEFINE i == hints[p].incoming
  <2>1. i # NoHint /\ i \in News(p) /\ i \in Nat /\ \A s \in News(p) : s \in Nat /\ s <= i
    BY <1>0, <1>5 DEF Newest
  <2>2. Max(News(p)) = i
    <3>1. \A s \in News(p) : i >= s  BY <2>1
    <3>2. PICK m : m = Max(News(p))  OBVIOUS
    <3>3. m \in News(p) /\ \A s \in News(p) : m >= s
      BY <2>1, <3>1, <3>2, Zenon DEF Max
    <3>4. m \in Nat /\ m <= i /\ i <= m  BY <2>1, <3>3
    <3> QED  BY <2>1, <3>2, <3>4
  <2>3. i < N(p)
    <3>1. \E y \in heard[p] : y[2] = i  BY <2>1, NewsFacts
    <3> QED  BY <1>2, <3>1 DEF Stamped
  <2>4. /\ hints' = [hints EXCEPT ![p] = [pending |-> i, incoming |-> NoHint]]
        /\ decoded' = [decoded EXCEPT ![p] = Append(@, <<N(p), i>>)]
    BY <2>1 DEF DecideWithHint, ConsumeHint, N
  <2>5. LastDecoded(p)' = i
    <3>1. decoded[p] \in Seq(Nat \X Nat) /\ <<N(p), i>> \in Nat \X Nat
      BY <1>0, <1>2, <2>1
    <3>2. decoded'[p] = Append(decoded[p], <<N(p), i>>)  BY <1>0, <2>4
    <3>3. /\ Len(decoded'[p]) = Len(decoded[p]) + 1 /\ Len(decoded[p]) \in Nat
          /\ decoded'[p][Len(decoded[p]) + 1] = <<N(p), i>>
      BY <3>1, <3>2, AppendFacts, LenProperties
    <3>4. decoded'[p] # <<>>  BY <3>3
    <3> QED  BY <3>3, <3>4 DEF LastDecoded
  <2>6. News(p)' = {}
    <3>1. ASSUME NEW y \in heard[p], y[2] >= y[1] - 1, y[2] > i  PROVE FALSE
      <4>1. y[2] \in Nat  BY DEF HintTypes
      <4>2. y[2] > LastDecoded(p)
        <5>1. i > LastDecoded(p)  BY <2>1, NewsFacts
        <5> QED  BY <1>0, <2>1, <3>1, <4>1, <5>1 DEF Stamp, NoHint
      <4>3. y[2] \in News(p)  BY <3>1, <4>2, NewsFacts
      <4> QED  BY <2>1, <3>1, <4>3
    <3> QED  BY <1>3, <2>5, <3>1 DEF News
  <2> QED  BY <1>2, <1>3, <1>5, <2>1, <2>2, <2>3, <2>4, <2>5, <2>6
<1> QED  BY <1>4, <1>5

LEMMA BuffersKept ==
  ASSUME IInv, IInv', HintTypes, HintTypes', \A p \in Peer : Stamped(p),
         \A p \in Peer : Buffers(p), [HintNext]_hintVars
  PROVE  \A p \in Peer : Buffers(p)'
<1> SUFFICES ASSUME NEW q \in Peer, Hints PROVE Buffers(q)'
  BY DEF Buffers
<1> DEFINE d == LastDecoded(q)
<1>0. /\ N(q) \in Nat /\ d \in Stamp /\ News(q) \in SUBSET Nat /\ \A x \in News(q) : x > d
      /\ d = NoHint \/ d < N(q)
      /\ hints[q] \in B /\ inbox[q] \in Seq(Messages)
      /\ HoldsNewest(hints[q], News(q)) /\ KeepsMark(hints[q], d, N(q))
      /\ hints \in [Peer -> B] /\ heard \in [Peer -> SUBSET (Nat \X Nat)]
  BY Lengths, NewsFacts, BuffersAre DEF Buffers, IInv, HintTypes, B
<1>1. ASSUME hints'[q] = hints[q], heard'[q] = heard[q], decoded'[q] = decoded[q],
             hist'[q] = hist[q]
      PROVE  Buffers(q)'
  BY <1>1 DEF Buffers, Newest, Marked, News, LastDecoded, N
<1>2. ASSUME HoldsNewest(hints'[q], News(q)'), KeepsMark(hints'[q], d, N(q)'),
             d = NoHint \/ d < N(q)', decoded' = decoded
      PROVE  Buffers(q)'
  <2>1. d' = d  BY <1>2 DEF LastDecoded
  <2> QED  BY <1>2, <2>1 DEF Buffers, Newest, Marked, HoldsNewest, KeepsMark
<1>3. CASE HearHint(q)
  <2>1. PICK s : s = Head(inbox[q]).turn  OBVIOUS
  <2>2. s \in Nat
    <3>1. Head(inbox[q]) \in Messages  BY <1>0, <1>3, TailFacts DEF HearHint
    <3> QED  BY <2>1, <3>1 DEF Messages
  <2>3. /\ heard'[q] = heard[q] \cup {<<N(q), s>>} /\ hints'[q] = Buffered(hints[q], N(q), s)
        /\ UNCHANGED <<decoded, hist>>
    BY <1>0, <1>3, <2>1 DEF HearHint, LoggedHint, DropJitter, N
  <2>4. News(q)' = News(q) \cup Recent(s, N(q), d)  BY <1>0, <2>2, <2>3, HearsOne
  <2>5. N(q)' = N(q)  BY <2>3 DEF N
  <2>6. /\ HoldsNewest(Buffered(hints[q], N(q), s), News(q) \cup Recent(s, N(q), d))
        /\ KeepsMark(Buffered(hints[q], N(q), s), d, N(q))
    BY <1>0, <2>2, BufferedHoldsNewest
  <2> HIDE DEF d
  <2> QED  BY <1>0, <1>2, <2>3, <2>4, <2>5, <2>6
<1>4. CASE HearReveal(q)
  <2> DEFINE u == Tail(inbox[q])
  <2>0. inbox[q] # <<>> /\ TakeReveal(q, Head(inbox[q])) /\ UNCHANGED decoded
    BY <1>4 DEF HearReveal
  <2>1. N(q)' = N(q) + 1 /\ hist'[q] # hist[q] /\ hist' # hist
    BY <1>0, <2>0, RevealFacts DEF N
  <2>2. d' = d /\ (d < N(q)' \/ d = NoHint)  BY <1>0, <2>0, <2>1 DEF LastDecoded, Stamp
  <2>3. CASE u # <<>> /\ Head(u).type = "hint"
    <3>1. PICK s : s = Head(u).turn  OBVIOUS
    <3>2. s \in Nat
      <4>1. u \in Seq(Messages)  BY <1>0, <2>0, TailFacts
      <4>2. Head(u) \in Messages  BY <2>3, <4>1, TailFacts
      <4> QED  BY <3>1, <4>2 DEF Messages
    <3>3. /\ heard'[q] = heard[q] \cup {<<N(q), s>>}
          /\ hints'[q] = Resolved(Buffered(hints[q], N(q), s))
      BY <1>0, <1>4, <2>1, <2>3, <3>1 DEF HearReveal, LoggedHint, N
    <3>4. News(q)' = News(q) \cup Recent(s, N(q), d)  BY <1>0, <2>0, <3>2, <3>3, HearsOne
    <3>5. PICK b : b = Buffered(hints[q], N(q), s)  OBVIOUS
    <3>6. b \in B /\ HoldsNewest(b, News(q)')
      <4>1. Buffered(hints[q], N(q), s) \in B  BY <1>0, <3>2, BufferTypes DEF B
      <4>2. HoldsNewest(Buffered(hints[q], N(q), s), News(q) \cup Recent(s, N(q), d))
        BY <1>0, <3>2, BufferedHoldsNewest
      <4> HIDE DEF d
      <4> QED  BY <3>4, <3>5, <4>1, <4>2
    <3>7. HoldsNewest(Resolved(b), News(q)') /\ KeepsMark(Resolved(b), d, N(q) + 1)
      BY <1>0, <3>6, ResolvedHoldsNewest
    <3> QED  BY <1>2, <2>0, <2>1, <2>2, <3>3, <3>5, <3>7
  <2>4. CASE ~ (u # <<>> /\ Head(u).type = "hint")
    <3>1. heard'[q] = heard[q] /\ hints'[q] = Resolved(hints[q])
      BY <1>0, <1>4, <2>1, <2>4 DEF HearReveal
    <3>2. News(q)' = News(q)  BY <2>0, <3>1 DEF News, LastDecoded
    <3>3. HoldsNewest(Resolved(hints[q]), News(q)) /\ KeepsMark(Resolved(hints[q]), d, N(q) + 1)
      BY <1>0, ResolvedHoldsNewest
    <3> QED  BY <1>2, <2>0, <2>1, <2>2, <3>1, <3>2, <3>3
  <2> QED  BY <2>3, <2>4
<1>5. CASE DecideWithHint(q)
  <2>1. CASE News(q) = {}
    <3>1. UNCHANGED <<hist, heard, hints, decoded>>
      BY <1>5, <2>1, DecidingSpends
    <3> QED  BY <1>1, <3>1
  <2>2. CASE News(q) # {}
    <3> DEFINE i == hints[q].incoming
    <3>1. /\ i < N(q) /\ i # NoHint /\ hist' = hist /\ LastDecoded(q)' = i /\ News(q)' = {}
          /\ hints' = [hints EXCEPT ![q] = [pending |-> i, incoming |-> NoHint]]
      BY <1>5, <2>2, DecidingSpends
    <3>2. hints'[q].pending = i /\ hints'[q].incoming = NoHint  BY <1>0, <3>1
    <3>3. N(q)' = N(q)  BY <3>1 DEF N
    <3> QED  BY <3>1, <3>2, <3>3 DEF Buffers, Newest, Marked
  <2> QED  BY <2>1, <2>2
<1>6. CASE HearOther(q)
  BY <1>1, <1>6 DEF HearOther, buffers, CaptureEarlyAck, TakeMatchingAck, AcceptAck,
                    AcceptCommit, DropJitter
<1>7. ASSUME NEW p \in Peer, p # q, Reading(p)  PROVE Buffers(q)'
  <2>1. hints'[q] = hints[q] /\ heard'[q] = heard[q] /\ decoded'[q] = decoded[q]
    BY <1>7, ReadingIsLocal
  <2>2. hist'[q] = hist[q]  BY <1>7, GameSteps, LoopSteps, OthersStand
  <2> QED  BY <1>1, <2>1, <2>2
<1>8. ASSUME UNCHANGED <<hist, hints, heard, decoded>>  PROVE Buffers(q)'
  BY <1>1, <1>8
<1>9. ASSUME NEW p \in Peer, PlayOn(p) \/ (Unheard(p) /\ UNCHANGED buffers)
             \/ (Arrive(p) /\ UNCHANGED buffers)
      PROVE  UNCHANGED <<hist, hints, heard, decoded>>
  <2>1. UNCHANGED buffers  BY <1>9 DEF PlayOn
  <2>2. UNCHANGED hist  BY <1>9, SendingIsLocal DEF Arrive
  <2> QED  BY <2>1, <2>2 DEF buffers
<1> QED
  BY <1>3, <1>4, <1>5, <1>6, <1>7, <1>8, <1>9, HintSteps DEF Reading, hintVars, lateVars, vars

-----------------------------------------------------------------------------
(* Hints keep up with the game.                                            *)

(* A peer seals and spends only where it decides.                          *)
LEMMA OnlyDecisionsSpend ==
  ASSUME IInv, HintTypes, [HintNext]_hintVars, NEW p \in Peer,
         ledger'[p] # ledger[p] \/ decoded'[p] # decoded[p]
  PROVE  DecideWithHint(p)
<1>1. ASSUME NEW q \in Peer, Reading(q)  PROVE DecideWithHint(p)
  <2>1. q = p
    <3>1. q # p => decoded'[p] = decoded[p]  BY <1>1, ReadingIsLocal
    <3>2. q # p => ledger'[p] = ledger[p]  BY <1>1, GameSteps, LoopSteps, OthersStand
    <3> QED  BY <3>1, <3>2
  <2>2. ~ HearHint(p) /\ ~ HearReveal(p)
    BY DEF HearHint, HearReveal, DropJitter, TakeReveal
  <2>3. ~ HearOther(p)
    BY DEF HearOther, buffers, CaptureEarlyAck, TakeMatchingAck, AcceptAck, AcceptCommit,
           DropJitter
  <2> QED  BY <1>1, <2>1, <2>2, <2>3 DEF Reading
<1>2. ASSUME NEW q \in Peer, PlayOn(q) \/ (Unheard(q) /\ UNCHANGED buffers)
             \/ (Arrive(q) /\ UNCHANGED buffers)
      PROVE  FALSE
  <2>1. UNCHANGED buffers  BY <1>2 DEF PlayOn
  <2>2. UNCHANGED ledger  BY <1>2, SendingIsLocal DEF Arrive
  <2> QED  BY <2>1, <2>2 DEF buffers
<1> QED  BY <1>1, <1>2, HintSteps DEF hintVars, lateVars, vars

(* Once a decision is taken, what was heard inside the window is not newer *)
(* than what was decoded.                                                  *)
LEMMA HeardIsSpent ==
  ASSUME IInv, HintTypes, HintTypes', NEW p \in Peer, Stamped(p), Buffers(p), Hints,
         DecideWithHint(p), NEW t \in Nat, HeardInTime(p, t)
  PROVE  LastDecoded(p)' >= t
<1>0. /\ LastDecoded(p) \in Stamp /\ NoHint = -1 /\ News(p) \in SUBSET Nat
      /\ \A s \in News(p) : s > LastDecoded(p)
  BY NewsFacts DEF NoHint
<1>1. t \in News(p) \/ t <= LastDecoded(p)
  <2>1. t > LastDecoded(p) => t \in News(p)  BY NewsFacts DEF HeardInTime
  <2> QED  BY <1>0, <2>1 DEF Stamp
<1>2. CASE News(p) = {}
  <2>1. LastDecoded(p)' = LastDecoded(p)  BY <1>2, DecidingSpends DEF LastDecoded
  <2> QED  BY <1>0, <1>1, <1>2, <2>1 DEF Stamp
<1>3. CASE News(p) # {}
  <2>1. /\ LastDecoded(p)' = hints[p].incoming /\ hints[p].incoming \in News(p)
    BY <1>3, DecidingSpends
  <2>2. \A s \in News(p) : s <= hints[p].incoming
    BY <1>3 DEF Buffers, Newest
  <2>3. hints[p].incoming \in Nat /\ hints[p].incoming > LastDecoded(p)  BY <1>0, <2>1
  <2> QED  BY <1>0, <1>1, <2>1, <2>2, <2>3 DEF Stamp
<1> QED  BY <1>2, <1>3

(* Deciding turn n, the thief has heard of turn n - 1, the police of turn  *)
(* n - 2 at the latest.                                                    *)
LEMMA DecidesInformed ==
  ASSUME HintInv, NEW p \in Peer, Hints, faults = 0, DecideWithHint(p),
         NEW t \in Nat, t = N(p) - (IF p = "police" THEN 2 ELSE 1)
  PROVE  HeardInTime(p, t)
<1>0. /\ IInv /\ Owed(p) /\ AllTold(Other(p)) /\ Other(p) \in Peer /\ Active(p)
      /\ N(p) \in Nat /\ inbox[p] \in Seq(Messages)
  <2>1. Active(p)  BY DEF DecideWithHint, Decide, TakeCommit, Active, Ended
  <2> QED  BY <2>1, OtherFacts, Lengths DEF HintInv, IInv
<1>1. N(Other(p)) = N(p)
  BY <1>0, DecideSeals, TakeCommitSeals DEF DecideWithHint, Other
<1>2. HintSent(Other(p), t)
  <2>1. t < Hinted(Other(p))
    BY <1>0, <1>1 DEF Hinted, TurnOf, Other, Peer
  <2> QED  BY <1>0, <2>1 DEF AllTold
<1>3. CASE p = "police"
  <2>1. ~ (N(p) <= t + 1)  BY <1>0, <1>3
  <2> QED  BY <1>0, <1>2, <2>1 DEF Owed
<1>4. CASE p = "thief"
  <2> DEFINE m == Head(inbox[p])
  <2>1. inbox[p] # <<>> /\ TakeCommit(m) /\ m.type = "commit" /\ Protocol(m)
    BY <1>4 DEF DecideWithHint, TakeCommit, Protocol
  <2>2. m.turn = N(p)
    <3>1. ~ Fresh(p)  BY <1>4, <2>1 DEF TakeCommit, Fresh
    <3> QED  BY <1>0, <2>1, <3>1, CommitOfThisTurn
  <2>3. m = inbox[p][1] /\ 1 \in 1 .. Len(inbox[p])  BY <1>0, <2>1, TailFacts
  <2>4. ASSUME NEW i \in 1 .. Len(inbox[p]), InLine(inbox[p], t, i)  PROVE FALSE
    <3>1. i # 1  BY <2>1, <2>3, <2>4 DEF InLine
    <3>2. m.turn <= t  BY <2>1, <2>3, <2>4, <3>1 DEF InLine
    <3> QED  BY <1>0, <1>4, <2>2, <3>2
  <2> QED  BY <1>0, <1>2, <2>4 DEF Owed
<1> QED  BY <1>3, <1>4 DEF Peer

LEMMA KeepUpKept ==
  ASSUME HintInv, IInv', HintTypes', [HintNext]_hintVars
  PROVE  HintsKeepUp'
<1>0. /\ IInv /\ HintTypes /\ \A p \in Peer : Stamped(p) /\ Owed(p) /\ Buffers(p)
      /\ \A p \in Peer : L(p) \in Nat /\ N(p) \in Nat
  BY Lengths DEF HintInv, IInv
<1>1. ASSUME NEW p \in Peer, NEW x \in heard'[p], HintSent(Other(p), x[2])'
      PROVE  HeardInTime(p, x[2])'
  <2> DEFINE o == Other(p)  t == x[2]
  <2>0. o \in Peer /\ o # p /\ Other(o) = p /\ \A q \in Peer : q = p \/ q = o
    BY OtherFacts DEF Peer
  <2>1. x[1] \in Nat /\ t \in Nat  BY <1>1 DEF HintTypes
  <2>2. CASE x \in heard[p] /\ HintSent(o, t) /\ heard[p] \subseteq heard'[p]
    BY <2>2 DEF HintInv, HintsKeepUp, HintSent, HeardInTime
  <2>3. CASE Reading(p)
    <3>1. heard[p] \subseteq heard'[p] /\ HintSent(o, t)
      BY <1>0, <1>1, <2>0, <2>3, Hearing, ReadingIsLocal
    <3>2. CASE x \in heard[p]  BY <2>2, <3>1, <3>2
    <3>3. CASE x \notin heard[p]
      <4>1. x[1] = N(p)  BY <1>0, <2>3, <3>3, Hearing
      <4>2. Active(p)
        BY <2>3 DEF Reading, HearHint, HearReveal, DecideWithHint, HearOther, DropJitter,
             TakeReveal, Decide, TakeCommit, CaptureEarlyAck, TakeMatchingAck, AcceptAck,
             AcceptCommit, Active, Ended, Waiting
      <4>3. CASE HeardInTime(p, t)  BY <3>1, <4>3 DEF HeardInTime
      <4>4. CASE ~ HeardInTime(p, t)
        <5>1. N(p) <= t + 1  BY <1>0, <2>1, <3>1, <4>2, <4>4 DEF Owed
        <5> QED  BY <1>0, <2>1, <4>1, <5>1 DEF HeardInTime
      <4> QED  BY <4>3, <4>4
    <3> QED  BY <3>2, <3>3
  <2>4. CASE Reading(o)
    BY <1>0, <1>1, <2>0, <2>2, <2>4, ReadingIsLocal
  <2>5. ASSUME UNCHANGED heard  PROVE x \in heard[p]  BY <2>5
  <2>6. CASE (PlayOn(o) \/ Unheard(o)) /\ UNCHANGED buffers
    <3>1. heard' = heard  BY <2>6 DEF buffers
    <3>2. CASE HintSent(o, t)  BY <2>2, <2>5, <3>1, <3>2
    <3>3. CASE ~ HintSent(o, t)
      <4>1. pc[o] \in Sending /\ Outgoing(o).type = "hint" /\ Outgoing(o).turn = t
        BY <1>0, <1>1, <2>0, <2>6, <3>3, SendingIsLocal
      <4>2. N(p) <= t + 1  BY <1>0, <2>0, <4>1, OutgoingHint
      <4>3. x[1] <= N(p)  BY <1>0, <2>5, <3>1 DEF Stamped
      <4> QED  BY <1>0, <2>1, <4>2, <4>3 DEF HeardInTime
    <3> QED  BY <3>2, <3>3
  <2>7. CASE (PlayOn(p) \/ Unheard(p)) /\ UNCHANGED buffers
    <3>1. heard' = heard /\ log'[o] = log[o]
      BY <1>0, <2>0, <2>7, SendingIsLocal DEF buffers
    <3>2. HintSent(o, t)  BY <1>1, <3>1 DEF HintSent
    <3> QED  BY <2>2, <2>5, <3>1, <3>2
  <2>8. CASE UNCHANGED <<log, heard>>
    <3>1. HintSent(o, t)  BY <1>1, <2>8 DEF HintSent
    <3> QED  BY <2>2, <2>5, <2>8, <3>1
  <2>9. ASSUME NEW q \in Peer, Arrive(q) /\ UNCHANGED buffers  PROVE UNCHANGED <<log, heard>>
    BY <2>9 DEF Arrive, buffers
  <2>10. ASSUME NEW q \in Peer, PlayOn(q)  PROVE UNCHANGED buffers
    BY <2>10 DEF PlayOn
  <2> QED
    BY <2>0, <2>3, <2>4, <2>6, <2>7, <2>8, <2>9, <2>10, HintSteps
       DEF hintVars, lateVars, vars
<1>2. ASSUME NEW p \in Peer, Hints, faults' = 0
      PROVE  LastDecoded(p)' >= L(p)' - (IF p = "police" THEN 3 ELSE 2)
  <2>1. faults = 0  BY <1>0, <1>2, HintsGoOn
  <2>2. LastDecoded(p) >= L(p) - (IF p = "police" THEN 3 ELSE 2)
    BY <1>2, <2>1 DEF HintInv, HintsKeepUp, L
  <2>3. CASE ledger'[p] = ledger[p] /\ decoded'[p] = decoded[p]
    BY <2>2, <2>3 DEF L, LastDecoded
  <2>4. CASE DecideWithHint(p)
    <3>1. L(p)' = N(p) + 1 /\ N(p) \in Nat  BY <1>0, <1>2, <2>4, DecidingSpends
    <3> DEFINE t == N(p) - (IF p = "police" THEN 2 ELSE 1)
    <3>2. CASE t \in Nat
      <4>1. HeardInTime(p, t)  BY <1>2, <2>1, <2>4, <3>2, DecidesInformed
      <4>2. LastDecoded(p)' >= t  BY <1>0, <1>2, <2>4, <3>2, <4>1, HeardIsSpent
      <4> QED  BY <3>1, <4>2 DEF Peer
    <3>3. CASE t \notin Nat
      <4>1. LastDecoded(p)' \in Int /\ LastDecoded(p)' >= -1
        <5>1. News(p) = {} => LastDecoded(p)' = LastDecoded(p)
          BY <1>0, <1>2, <2>4, DecidingSpends DEF LastDecoded
        <5>2. News(p) # {} => LastDecoded(p)' \in News(p)
          BY <1>0, <1>2, <2>4, DecidingSpends
        <5> QED  BY <1>0, <5>1, <5>2, NewsFacts DEF Stamp, NoHint
      <4>2. t <= -1  BY <3>1, <3>3
      <4>3. L(p)' - (IF p = "police" THEN 3 ELSE 2) = t  BY <3>1
      <4> QED  BY <4>1, <4>2, <4>3, <1>0, <3>1
    <3> QED  BY <3>2, <3>3
  <2> QED  BY <1>0, <2>3, <2>4, OnlyDecisionsSpend
<1> QED  BY <1>1, <1>2 DEF HintsKeepUp, HintSent, L

-----------------------------------------------------------------------------
(* The theorems.                                                           *)

LEMMA InitHints == HintInit => HintInv
<1> SUFFICES ASSUME HintInit PROVE HintInv
  OBVIOUS
<1>1. IInv  BY InitInv DEF HintInit, LateInit
<1>2. /\ inbox = [p \in Peer |-> <<>>] /\ log = [p \in Peer |-> {}]
      /\ hist = [p \in Peer |-> <<>>] /\ ledger = [p \in Peer |-> <<>>]
      /\ pc = [p \in Peer |-> IF p = "police" THEN "decide" ELSE "wait_commit"]
      /\ late = [p \in Peer |-> {}] /\ heard = [p \in Peer |-> {}]
      /\ decoded = [p \in Peer |-> <<>>]
      /\ hints = [p \in Peer |-> [pending |-> NoHint, incoming |-> NoHint]]
  BY DEF HintInit, LateInit, Init
<1>3. \A p \in Peer : /\ LastDecoded(p) = NoHint /\ News(p) = {} /\ N(p) = 0 /\ L(p) = 0
                      /\ Hinted(p) = 0 /\ Len(inbox[p]) = 0
  BY <1>2 DEF LastDecoded, News, N, L, Hinted, TurnOf, Behind, Active, Ended
<1>4. HintTypes
  <2>1. NoHint \in Stamp /\ <<>> \in Seq(Nat \X Nat)  BY DEF Stamp
  <2> QED  BY <1>2, <2>1 DEF HintTypes
<1>5. \A p \in Peer : Stamped(p) /\ Owed(p) /\ AllTold(p)
  BY <1>2, <1>3, OtherFacts DEF Stamped, Owed, AllTold, HintSent
<1>6. \A p \in Peer : Buffers(p)
  BY <1>2, <1>3 DEF Buffers, Newest, Marked
<1>7. HintsKeepUp
  <2>1. \A p \in Peer : LastDecoded(p) >= Len(ledger[p]) - (IF p = "police" THEN 3 ELSE 2)
    <3> TAKE p \in Peer
    <3>1. LastDecoded(p) = -1 /\ Len(ledger[p]) = 0  BY <1>3 DEF L, NoHint
    <3> QED  BY <3>1
  <2> QED  BY <1>2, <2>1 DEF HintsKeepUp
<1> QED  BY <1>1, <1>4, <1>5, <1>6, <1>7 DEF HintInv

LEMMA StepHints == HintInv /\ [HintNext]_hintVars => HintInv'
<1> SUFFICES ASSUME HintInv, [HintNext]_hintVars PROVE HintInv'
  OBVIOUS
<1>0. /\ IInv /\ HintTypes /\ \A p \in Peer : Stamped(p) /\ Owed(p) /\ AllTold(p) /\ Buffers(p)
  BY DEF HintInv
<1>1. IInv'  BY <1>0, GameKeptByHints
<1>2. HintTypes'  BY <1>0, <1>1, HintTypesKept
<1>3. \A p \in Peer : Stamped(p)'  BY <1>0, <1>1, <1>2, StampedKept
<1>4. \A p \in Peer : Owed(p)'  BY <1>0, <1>1, <1>2, OwedKept
<1>5. \A p \in Peer : AllTold(p)'  BY <1>0, <1>1, AllToldKept
<1>6. \A p \in Peer : Buffers(p)'  BY <1>0, <1>1, <1>2, BuffersKept
<1>7. HintsKeepUp'  BY <1>1, <1>2, KeepUpKept
<1> QED  BY <1>1, <1>2, <1>3, <1>4, <1>5, <1>6, <1>7 DEF HintInv

(* The inductive invariant of the hint channel: that of the game, which    *)
(* hints do not disturb, every hint told is in line before the next turn   *)
(* its receiver can resolve, and the two buffers hold the newest hint not  *)
(* spent and the mark of the last one that was (turn_hint_buffer.py,       *)
(* turn_hint_store.py, turn_buffer_queue.py).                              *)
THEOREM HintInvariance == HintSpec => []HintInv
BY InitHints, StepHints, PTL DEF HintSpec

(* Hints keep up: one turn of lookback is enough, and with nothing lost    *)
(* every decision knows the hint of the turn before, or the one before     *)
(* that (turn_hint_buffer.py's derivation of the window).                  *)
THEOREM HintsInTime == HintSpec => []HintsKeepUp
BY HintInvariance, PTL DEF HintInv

(* Each decision spends the newest hint heard since the last, once, and    *)
(* nothing else, whatever copies come by (turn_hint_store.consume_hint).   *)
THEOREM NewestIsDecoded == HintSpec => DecodesNewest
<1>1. HintInv /\ [HintNext]_hintVars =>
        [\A p \in Peer :
           Hints /\ ledger'[p] # ledger[p] =>
             decoded'[p] = IF News(p) = {} THEN decoded[p]
                           ELSE Append(decoded[p], <<Len(hist[p]), Max(News(p))>>)]_hintVars
  <2> SUFFICES ASSUME HintInv, [HintNext]_hintVars, NEW p \in Peer, Hints, ledger'[p] # ledger[p]
               PROVE  decoded'[p] = IF News(p) = {} THEN decoded[p]
                                    ELSE Append(decoded[p], <<Len(hist[p]), Max(News(p))>>)
    OBVIOUS
  <2>1. /\ IInv /\ HintTypes /\ Stamped(p) /\ Buffers(p)
        /\ decoded \in [Peer -> Seq(Nat \X Nat)]
    BY DEF HintInv, HintTypes
  <2>2. DecideWithHint(p)  BY <2>1, OnlyDecisionsSpend
  <2>3. CASE News(p) = {}  BY <2>1, <2>2, <2>3, DecidingSpends
  <2>4. CASE News(p) # {}
    <3>1. /\ Max(News(p)) = hints[p].incoming
          /\ decoded' = [decoded EXCEPT ![p] = Append(@, <<N(p), hints[p].incoming>>)]
      BY <2>1, <2>2, <2>4, DecidingSpends
    <3> QED  BY <2>1, <2>4, <3>1 DEF N
  <2> QED  BY <2>3, <2>4
<1> QED
  BY <1>1, HintInvariance, PTL DEF HintSpec, DecodesNewest

(* A hint may be lost, repeated or turns late: the game is the same game   *)
(* of simultaneous sealed choices (jitter tolerance, D-58).                *)
THEOREM HintsDisturbNothing == HintSpec => ImplementsJointGame
<1>1. HintInit => Joint!GameInit
  BY InitRefines DEF HintInit, LateInit
<1>2. HintInv /\ HintInv' /\ [HintNext]_hintVars => [Joint!GameNext]_(Joint!gameVars)
  <2> SUFFICES ASSUME HintInv, HintInv', [HintNext]_hintVars
               PROVE  [Joint!GameNext]_(Joint!gameVars)
    OBVIOUS
  <2>1. IInv /\ IInv'  BY DEF HintInv
  <2>2. CASE [Next]_vars  BY <2>1, <2>2, StepRefines
  <2>3. ASSUME NEW p \in Peer, Unheard(p) \/ Arrive(p)  PROVE UNCHANGED <<hist, ledger>>
    BY <2>1, <2>3, UnheardIsQuiet DEF Arrive
  <2>4. CASE UNCHANGED <<hist, ledger>>
    BY <2>4, UnseenByJointGame
  <2>5. ASSUME NEW p \in Peer, Reading(p) \/ PlayOn(p)  PROVE Next
    BY <2>5, GameSteps DEF Next
  <2> QED  BY <2>2, <2>3, <2>4, <2>5, HintSteps DEF hintVars, lateVars
<1> QED
  BY <1>1, <1>2, HintInvariance, PTL DEF HintSpec, ImplementsJointGame, Joint!Spec
=================================================================================
