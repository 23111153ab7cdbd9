-------------------------- MODULE MatchReport_proofs --------------------------
(***************************************************************************)
(* The theorems about the end of a game and its report, for any number of  *)
(* games, any ceiling, queue, ladder and bucket, and any number of faults, *)
(* late deliveries and hours.                                              *)
(*                                                                         *)
(* Each promise is kept by a book of its own: which report is in whose     *)
(* hands, what was delivered, the quota file, the journals, the series.    *)
(* Both files rest on one fact about the durable write: a single kill or   *)
(* denial in it leaves the last whole contents readable, or the new ones.  *)
(***************************************************************************)
EXTENDS MatchReport, TLAPS, SequenceTheorems, FiniteSetTheorems

(* The type invariant.                                                     *)
Phases == {"idle", "count", "log", "result", "declare", "send", "acquire", "call", "down"}
Answers == {"none", "sent", "queued", "dropped", "raised"}
FileOf(S) == LET V == S \cup {Absent, Torn} IN [tmp : V, target : V, prev : V]

ChainTypeOK ==
  /\ phase \in Phases /\ cur \in 0 .. Games
  /\ queue \in Seq(Game) /\ slice \in Seq(Game)
  /\ tries \in 0 .. Retries /\ tokens \in 0 .. Capacity
  /\ empties \in Nat /\ locked \in BOOLEAN /\ broken \in BOOLEAN
  /\ answer \in [Game -> Answers]
  /\ quota \in FileOf(Nat) /\ claims \in Nat
  /\ acked \subseteq Game
  /\ mails \in [Game -> Nat] /\ stray \in [Game -> Nat] /\ late \in [Game -> Nat]
  /\ windows \in Nat /\ faults \in Nat

HookTypeOK ==
  /\ sink \in Sinks /\ game \in 0 .. Games /\ index \in 0 .. Games
  /\ logs \in [Game -> Game \cup {Absent, Torn}]
  /\ series \in FileOf(Seq(Entry)) /\ report \in [Game -> Seq(Entry)]
  /\ recorded \subseteq Game /\ asked \subseteq Game /\ struck \subseteq Game

TypeOK == ChainTypeOK /\ HookTypeOK

-----------------------------------------------------------------------------
(* Where the one caller stands.  Before a game's report is put to the      *)
(* chain, the chain is idle; without a drain, it carries the report of the *)
(* game that has just ended.                                               *)
Ahead == {"count", "log", "result", "declare"}
Busy == {"send", "acquire", "call"}

Caller ==
  /\ phase # "idle" => game \in Game
  /\ phase \in Busy => cur \in Game
  /\ phase \in Ahead \cup {"idle"} => cur = NoGame /\ slice = <<>>
  /\ sink = "dry_run" /\ phase \in Busy => slice = <<>> /\ cur = game

(* Every report is under way once: in the caller's hands, in the slice of  *)
(* its drain or in the queue; none of these has been called sent, and none *)
(* belongs to a game whose report was not put to the chain yet.            *)
Due == IF phase \in Ahead THEN game - 1 ELSE game

Once ==
  /\ \A i, j \in DOMAIN queue : queue[i] = queue[j] => i = j
  /\ \A i, j \in DOMAIN slice : slice[i] = slice[j] => i = j
  /\ \A i \in DOMAIN queue, j \in DOMAIN slice : queue[i] # slice[j]
  /\ \A i \in DOMAIN queue : queue[i] # cur /\ queue[i] \notin acked /\ queue[i] <= Due
  /\ \A i \in DOMAIN slice : slice[i] # cur /\ slice[i] \notin acked /\ slice[i] <= Due
  /\ cur \notin acked /\ cur <= Due
  /\ \A g \in Game : g > Due => g \notin acked /\ answer[g] = "none"

(* What a drain has taken off the queue fits into it again.                *)
Room ==
  /\ Len(queue) <= QueueDepth
  /\ phase \in Busy /\ (slice # <<>> \/ answer[cur] = "queued") =>
       Len(queue) + Len(slice) < QueueDepth

(* A report that was said to be queued is still owed.                      *)
Told == \A g \in Game : answer[g] = "queued" => Owed(g) \/ broken

(* Every delivery of a report is the one the chain was told of, or that of *)
(* an attempt given up; those still running are yet to come.               *)
Posted ==
  /\ \A g \in acked : mails[g] >= 1
  /\ \A g \in Game : mails[g] + stray[g] <= late[g] + (IF g \in acked THEN 1 ELSE 0)

(* Without a fault the quota file is whole, or no claim was made.  One     *)
(* fault may leave a claim on disk that no ladder followed, never less     *)
(* than the claims that were followed by one.                              *)
QuotaBook ==
  /\ faults = 0 => Readable(quota.target) \/ (quota.target = Absent /\ claims = 0)
  /\ faults <= 1 => claims <= Used /\ claims <= Ceiling

(* The journals: none beyond the games that were journalled, and the one   *)
(* the hook has drawn its index for is the last.                           *)
JournalBook ==
  /\ \A n \in Game : logs[n] # Absent =>
       n <= (IF phase \in {"count", "log"} THEN game - 1 ELSE game)
  /\ phase = "result" =>
       /\ index \in Game /\ logs[index] = game
       /\ \A n \in Game : n > index => logs[n] = Absent

(* Every series on disk, whole or superseded, and every one handed to the  *)
(* chain lists journals of their own games, none of a game yet to be       *)
(* recorded.                                                               *)
Listed == IF phase \in {"count", "log", "result"} THEN game - 1 ELSE game
WellKept(s) == Journals(s) /\ \A i \in DOMAIN s : s[i].game <= Listed

SeriesBook ==
  /\ \A k \in {"tmp", "target", "prev"} : Readable(series[k]) => WellKept(series[k])
  /\ \A g \in Game : WellKept(report[g])

(* No single fault loses a recorded game from the series file, nor from    *)
(* the report a dry run is about to write over it.                         *)
GamesIn(s) == { s[i].game : i \in DOMAIN s }

RecordBook ==
  /\ faults = 0 => Readable(series.target) \/ (series.target = Absent /\ recorded = {})
  /\ faults <= 1 => recorded \subseteq GamesIn(ReadSeries)
  /\ faults <= 1 /\ (phase = "declare" \/ (sink = "dry_run" /\ phase \in Busy)) =>
       recorded \subseteq GamesIn(report[game])

(* Every game that has left the hook was recorded and put to the chain, if *)
(* there was one, or was struck.                                           *)
Settled(g) == g \in recorded /\ (sink = "none" \/ g \in asked)

HookBook ==
  /\ \A g \in Game : g <= Due /\ g \notin struck => Settled(g)
  /\ sink = "none" => asked = {}
  /\ phase = "declare" => game \in recorded

RInv ==
  /\ TypeOK /\ Caller /\ Once /\ Room /\ Told /\ Posted
  /\ QuotaBook /\ JournalBook /\ SeriesBook /\ RecordBook /\ HookBook

-----------------------------------------------------------------------------
(* Sequences.                                                              *)

LEMMA SeqFacts ==
  ASSUME NEW S, NEW s \in Seq(S)
  PROVE  /\ DOMAIN s = 1 .. Len(s) /\ Len(s) \in Nat
         /\ \A i \in DOMAIN s : s[i] \in S
         /\ s = <<>> <=> Len(s) = 0
BY LenProperties, ElementOfSeq, EmptySeq

LEMMA TailFacts ==
  ASSUME NEW S, NEW s \in Seq(S), s # <<>>
  PROVE  /\ Head(s) = s[1] /\ 1 \in DOMAIN s /\ Head(s) \in S
         /\ Tail(s) \in Seq(S) /\ Len(Tail(s)) = Len(s) - 1
         /\ DOMAIN Tail(s) = 1 .. Len(s) - 1
         /\ \A i \in DOMAIN Tail(s) : i + 1 \in DOMAIN s /\ i + 1 # 1 /\ Tail(s)[i] = s[i + 1]
         /\ \A i \in DOMAIN s \ {1} : i - 1 \in DOMAIN Tail(s) /\ Tail(s)[i - 1] = s[i]
<1>1. /\ DOMAIN s = 1 .. Len(s) /\ Len(s) \in Nat /\ Len(s) # 0
  BY SeqFacts
<1>2. /\ Tail(s) \in Seq(S) /\ Len(Tail(s)) = Len(s) - 1
      /\ \A i \in 1 .. Len(Tail(s)) : Tail(s)[i] = s[i + 1]
      /\ Head(s) \in S /\ Head(s) = s[1]
  BY HeadTailProperties
<1>3. DOMAIN Tail(s) = 1 .. Len(s) - 1
  BY <1>2, SeqFacts
<1> QED
  BY <1>1, <1>2, <1>3

LEMMA AppendFacts ==
  ASSUME NEW S, NEW s \in Seq(S), NEW x \in S
  PROVE  /\ Append(s, x) \in Seq(S) /\ Len(Append(s, x)) = Len(s) + 1
         /\ DOMAIN Append(s, x) = 1 .. Len(s) + 1
         /\ \A i \in DOMAIN s : i \in DOMAIN Append(s, x) /\ Append(s, x)[i] = s[i]
         /\ Append(s, x)[Len(s) + 1] = x /\ Append(s, x) # <<>>
         /\ \A i \in DOMAIN Append(s, x) : i \in DOMAIN s \/ i = Len(s) + 1
<1>1. DOMAIN s = 1 .. Len(s) /\ Len(s) \in Nat
  BY SeqFacts
<1>2. /\ Append(s, x) \in Seq(S) /\ Len(Append(s, x)) = Len(s) + 1
      /\ \A i \in 1 .. Len(s) : Append(s, x)[i] = s[i]
      /\ Append(s, x)[Len(s) + 1] = x
  BY AppendProperties
<1>3. DOMAIN Append(s, x) = 1 .. Len(s) + 1 /\ Append(s, x) # <<>>
  BY <1>1, <1>2, SeqFacts
<1> QED
  BY <1>1, <1>2, <1>3

-----------------------------------------------------------------------------
(* The durable write, with at most one fault in it.                        *)

LEMMA WriteIsWhole ==
  ASSUME NEW S, NEW f \in FileOf(S), NEW v \in S
  PROVE  Written(f, v) \in FileOf(S) /\ Written(f, v).target = v
BY DEF Written, Replaced, Rotated, TmpWritten, FileOf

LEMMA CutWrites ==
  ASSUME NEW S, NEW f \in FileOf(S), NEW v \in S, Absent \notin S, Torn \notin S,
         NEW g \in LeftByKill(f, v)
  PROVE  /\ g \in FileOf(S)
         /\ \A k \in {"tmp", "target", "prev"} : g[k] \in {f.tmp, f.target, f.prev, v, Absent, Torn}
         /\ Readable(f.target) => Load(g) \in {f.target, v}
<1> DEFINE t == TmpWritten(f, v)
<1> DEFINE r == Rotated(t)
<1>0. {f.tmp, f.target, f.prev, v, Absent, Torn} \subseteq S \cup {Absent, Torn} /\ Readable(v)
  BY DEF FileOf, Readable
<1>1. t \in FileOf(S) /\ t.tmp = v /\ t.target = f.target /\ t.prev = f.prev
  BY DEF TmpWritten, FileOf
<1> HIDE DEF t
<1>2. /\ r \in FileOf(S) /\ r.tmp = v /\ r.target = Absent
      /\ r.prev = IF f.target = Absent THEN f.prev ELSE f.target
  BY <1>1 DEF Rotated, FileOf
<1> HIDE DEF r
<1>3. /\ Written(f, v) = Replaced(r)
      /\ Replaced(r) \in FileOf(S) /\ Replaced(r).tmp = Absent
      /\ Replaced(r).target = v /\ Replaced(r).prev = r.prev
  BY <1>2 DEF Replaced, FileOf, Written, r, t
<1>4. CASE g \in {f, t, r, Written(f, v)}
  BY <1>0, <1>1, <1>2, <1>3, <1>4 DEF Load, Readable
<1>5. CASE g \in HalfWritten(f)
  <2>1. g \in FileOf(S) /\ g.tmp = Torn /\ g.target = f.target /\ g.prev = f.prev
    BY <1>5 DEF HalfWritten, FileOf
  <2> QED
    BY <1>0, <2>1 DEF Load, Readable
<1>6. CASE g \in HalfRotated(t)
  <2>1. /\ g \in FileOf(S) /\ g.tmp = v /\ g.target = f.target
        /\ g.prev \in {Torn, f.target}
    BY <1>1, <1>6 DEF HalfRotated, FileOf
  <2> QED
    BY <1>0, <2>1 DEF Load, Readable
<1>7. CASE g \in HalfReplaced(r)
  <2>1. g \in FileOf(S) /\ g.tmp = v /\ g.target \in {Torn, v} /\ g.prev = r.prev
    BY <1>2, <1>7 DEF HalfReplaced, FileOf
  <2> QED
    BY <1>0, <1>2, <2>1 DEF Load, Readable
<1> QED
  BY <1>4, <1>5, <1>6, <1>7 DEF LeftByKill, LeftByDenial, t, r

LEMMA DeniedIsCut ==
  ASSUME NEW f, NEW v
  PROVE  LeftByDenial(f, v) \subseteq LeftByKill(f, v) /\ Written(f, v) \in LeftByKill(f, v)
BY DEF LeftByKill

-----------------------------------------------------------------------------
(* Types.                                                                  *)

LEMMA MarkersAside ==
  /\ Absent \notin Nat /\ Torn \notin Nat
  /\ Absent \notin Seq(Entry) /\ Torn \notin Seq(Entry)
  /\ Absent \notin Game /\ Torn \notin Game
BY MarkersAreNoCounts, MarkersAreNoSeries DEF Game

LEMMA BoundsAreNaturals ==
  /\ Games \in Nat /\ Ceiling \in Nat /\ QueueDepth \in Nat /\ Retries \in Nat
  /\ Capacity \in Nat /\ Capacity >= 1
BY ChainBounds

\* Going on with the rest of a drain, or ending.
LEMMA GotoFacts ==
  ASSUME NEW rest \in Seq(Game), Goto(rest)
  PROVE  /\ slice' \in Seq(Game) /\ cur' \in 0 .. Games
         /\ \/ rest = <<>> /\ phase' = "idle" /\ cur' = NoGame /\ slice' = <<>>
            \/ /\ rest # <<>> /\ phase' = "send" /\ cur' = rest[1] /\ cur' \in Game
               /\ 1 \in DOMAIN rest /\ Len(slice') = Len(rest) - 1
               /\ DOMAIN slice' = 1 .. Len(rest) - 1
               /\ \A i \in DOMAIN slice' : i + 1 \in DOMAIN rest /\ i + 1 # 1 /\ slice'[i] = rest[i + 1]
               /\ \A i \in DOMAIN rest \ {1} : i - 1 \in DOMAIN slice' /\ slice'[i - 1] = rest[i]
<1>1. CASE rest = <<>>
  BY <1>1, BoundsAreNaturals DEF Goto, NoGame
<1>2. CASE rest # <<>>
  <2>1. phase' = "send" /\ cur' = Head(rest) /\ slice' = Tail(rest)
    BY <1>2 DEF Goto
  <2>2. cur' \in Game /\ Game \subseteq 0 .. Games
    BY <1>2, <2>1, TailFacts, BoundsAreNaturals DEF Game
  <2> QED
    BY <1>2, <2>1, <2>2, TailFacts
<1> QED
  BY <1>1, <1>2

LEMMA RefuseFacts ==
  ASSUME ChainTypeOK, cur \in Game, Refuse
  PROVE  /\ queue' \in Seq(Game) /\ answer' \in [Game -> Answers] /\ Goto(slice)
         /\ \/ queue' = queue /\ Answer("dropped") /\ Len(queue) >= QueueDepth
            \/ queue' = Append(queue, cur) /\ Answer("queued") /\ Len(queue) < QueueDepth
<1>1. queue \in Seq(Game) /\ answer \in [Game -> Answers] /\ Len(queue) \in Nat /\ QueueDepth \in Nat
  BY BoundsAreNaturals, SeqFacts DEF ChainTypeOK
<1>2. Append(queue, cur) \in Seq(Game)
  BY <1>1, AppendFacts
<1>3. {"dropped", "queued"} \subseteq Answers
  BY DEF Answers
<1> QED
  BY <1>1, <1>2, <1>3 DEF Refuse, Answer

LEMMA ObserveFacts ==
  ASSUME ChainTypeOK, Observe
  PROVE  empties' \in Nat /\ locked' \in BOOLEAN
<1>1. CASE locked
  BY <1>1 DEF Observe, ChainTypeOK
<1>2. CASE ~locked
  <2>1. (IF tokens > 0 THEN 0 ELSE empties + 1) \in Nat
    BY DEF ChainTypeOK
  <2>2. /\ empties' = IF tokens > 0 THEN 0 ELSE empties + 1
        /\ locked' = ((IF tokens > 0 THEN 0 ELSE empties + 1) > Retries)
    BY <1>2 DEF Observe
  <2> QED
    BY <2>1, <2>2
<1> QED
  BY <1>1, <1>2

LEMMA FailedFacts ==
  ASSUME ChainTypeOK, Failed
  PROVE  /\ tries' \in 0 .. Retries /\ empties' \in Nat /\ locked' \in BOOLEAN
         /\ (phase' = "acquire" /\ UNCHANGED <<cur, queue, slice, answer>>) \/ Refuse
         /\ UNCHANGED <<tokens, broken, quota, claims, acked, windows>>
<1>1. UNCHANGED <<tokens, broken, quota, claims, acked, windows>>
  BY DEF Failed
<1>2. CASE tries < Retries
  <2>1. /\ tries' = tries + 1 /\ phase' = "acquire"
        /\ UNCHANGED <<cur, queue, slice, empties, locked, answer>>
    BY <1>2 DEF Failed
  <2> QED
    BY <1>1, <1>2, <2>1, BoundsAreNaturals DEF ChainTypeOK
<1>3. CASE ~(tries < Retries)
  <2>1. Refuse /\ Observe /\ tries' = tries
    BY <1>3 DEF Failed
  <2> QED
    BY <1>1, <2>1, ObserveFacts DEF ChainTypeOK
<1> QED
  BY <1>2, <1>3

LEMMA SentFacts ==
  ASSUME ChainTypeOK, cur \in Game, Sent
  PROVE  /\ empties' \in Nat /\ locked' \in BOOLEAN /\ answer' \in [Game -> Answers]
         /\ Goto(slice) /\ Answer("sent") /\ acked' = acked \cup {cur} /\ acked' \subseteq Game
         /\ UNCHANGED <<queue, tries, tokens, broken, quota, claims, windows>>
<1>1. Observe
  BY DEF Sent
<1>2. empties' \in Nat /\ locked' \in BOOLEAN
  BY <1>1, ObserveFacts
<1>3. answer' \in [Game -> Answers] /\ acked' \subseteq Game
  BY DEF Sent, Answer, ChainTypeOK, Answers
<1> QED
  BY <1>2, <1>3 DEF Sent

\* The quota file is read as a count.
LEMMA UsedIsCount ==
  ASSUME ChainTypeOK
  PROVE  /\ Used \in Nat /\ Used + 1 \in Nat
         /\ Readable(quota.target) => Used = quota.target
<1>1. Load(quota) \in Nat \cup {Absent, Torn}
  BY DEF ChainTypeOK, FileOf, Load
<1> QED
  BY <1>1 DEF Used, Readable, Load

-----------------------------------------------------------------------------
(* How the steps of ReportNext fall into groups.                           *)

\* The declaration, written or denied, and the chain asked or refused.
AskStep == AskChain /\ faults' \in {faults, faults + 1}
Refused == ChainRefused /\ faults' \in {faults, faults + 1}

\* The steps of the hook before the chain is asked, and the ends of it.
HookStep == GameEnds \/ Counted \/ CountDenied \/ Journalled \/ JournalDenied
              \/ Recorded \/ RecordDenied \/ Refused
CallStep == Mailed \/ DryRun \/ DryRunDenied
Still == UNCHANGED reportVars

LEMMA StepsAre ==
  ASSUME [ReportNext]_reportVars
  PROVE  HookStep \/ AskStep \/ DrainStep \/ SendStep \/ RaiseStep \/ CallStep
           \/ Late \/ Restart \/ Kill \/ Still
BY DEF ReportNext, HookStep, AskStep, Refused, Declared, DeclareDenied, CallStep, Still, Over

-----------------------------------------------------------------------------
(* The chain's types.                                                      *)

LEMMA HookFrame ==
  ASSUME HookStep, TypeOK
  PROVE  /\ UNCHANGED <<memory, quota, record, windows, sink>>
         /\ phase' \in Phases \ Busy /\ faults' \in Nat /\ faults' \in {faults, faults + 1}
         /\ phase \in Ahead \cup {"idle"}
<1>1. faults \in Nat
  BY DEF TypeOK, ChainTypeOK
<1>2. CASE GameEnds
  BY <1>1, <1>2 DEF GameEnds, Phases, Busy, Ahead
<1>3. CASE Counted \/ CountDenied
  BY <1>1, <1>3 DEF Counted, CountDenied, Step, Denied, Phases, Busy, Ahead
<1>4. CASE Journalled \/ JournalDenied
  BY <1>1, <1>4 DEF Journalled, JournalDenied, Step, Denied, Phases, Busy, Ahead
<1>5. CASE Recorded \/ RecordDenied
  BY <1>1, <1>5 DEF Recorded, RecordDenied, Step, Denied, Phases, Busy, Ahead
<1>6. CASE Refused
  BY <1>1, <1>6 DEF Refused, ChainRefused, Step, Phases, Busy, Ahead
<1> QED
  BY <1>2, <1>3, <1>4, <1>5, <1>6 DEF HookStep

LEMMA AskFrame ==
  ASSUME AskStep, TypeOK
  PROVE  /\ phase = "declare" /\ phase' = "send" /\ cur' = game /\ asked' = asked \cup {game}
         /\ sink # "none"
         /\ UNCHANGED <<queue, slice, tries, tokens, empties, locked, answer, broken, quota,
                        record, windows, sink, game, index, logs, series, report, recorded, struck>>
         /\ faults' \in Nat /\ faults' \in {faults, faults + 1}
<1>1. faults \in Nat
  BY DEF TypeOK, ChainTypeOK
<1> QED
  BY <1>1 DEF AskStep, AskChain, Step

\* A refused, a failed and a delivered attempt, whichever sink it was made at.
LEMMA CallFrame ==
  ASSUME CallStep, TypeOK
  PROVE  /\ phase = "call" /\ UNCHANGED <<sink, game, index, logs, report, recorded, asked, struck>>
         /\ UNCHANGED <<tokens, broken, quota, claims, windows>>
         /\ \/ Sent /\ mails' = [mails EXCEPT ![cur] = @ + 1] /\ UNCHANGED <<stray, late>>
            \/ Failed /\ UNCHANGED <<mails, stray, late>>
            \/ Failed /\ mails' = mails /\ late' = [late EXCEPT ![cur] = @ + 1]
                 /\ stray' = [stray EXCEPT ![cur] = @ + 1]
         /\ faults' \in Nat /\ faults' \in {faults, faults + 1}
         /\ \/ series' = series
            \/ /\ sink = "dry_run"
               /\ \/ faults' = faults /\ series' = Written(series, report[cur])
                  \/ faults' = faults + 1 /\ series' \in LeftByDenial(series, report[cur])
<1>1. faults \in Nat
  BY DEF TypeOK, ChainTypeOK
<1>2. CASE Mailed
  BY <1>1, <1>2 DEF Mailed, Delivered, Rejected, TimesOut, Sent, Failed, Keep, files
<1>3. CASE DryRun
  BY <1>1, <1>3 DEF DryRun, Delivered, Sent, KeepButSeries
<1>4. CASE DryRunDenied
  BY <1>1, <1>4 DEF DryRunDenied, Failed, KeepButSeries
<1> QED
  BY <1>2, <1>3, <1>4 DEF CallStep

LEMMA KillFrame ==
  ASSUME Kill, TypeOK
  PROVE  /\ phase' = "down" /\ phase \notin {"idle", "down"} /\ struck' = struck \cup {game}
         /\ faults' \in Nat /\ faults' = faults + 1
         /\ UNCHANGED <<memory, record, windows, sink, game, index, report, recorded, asked>>
         /\ quota' = quota \/ quota' \in LeftByKill(quota, Used + 1)
         /\ logs' = logs \/ (phase = "log" /\ \E left \in {Absent, Torn, game} :
                               logs' = [logs EXCEPT ![NextSubGameIndex] = left])
         /\ \/ series' = series
            \/ phase = "result" /\ series' \in LeftByKill(series, NextSeries)
            \/ phase = "call" /\ sink = "dry_run" /\ series' \in LeftByKill(series, report[cur])
<1>1. faults \in Nat
  BY DEF TypeOK, ChainTypeOK
<1> QED
  BY <1>1 DEF Kill

LEMMA SendFacts ==
  ASSUME ChainTypeOK, SendStep
  PROVE  \/ phase = "send" /\ Refuse
              /\ UNCHANGED <<tries, tokens, empties, locked, quota, broken, record, windows, faults>>
         \/ /\ phase = "send" /\ phase' = "acquire" /\ Used < Ceiling
            /\ quota' = Written(quota, Used + 1) /\ claims' = claims + 1 /\ tries' = 0
            /\ UNCHANGED <<cur, queue, slice, tokens, empties, locked, answer, broken,
                           mails, acked, stray, late, windows, faults>>
         \/ /\ phase = "acquire" /\ phase' = "call" /\ tokens' = tokens - 1 /\ tokens > 0
            /\ UNCHANGED <<cur, queue, slice, tries, empties, locked, answer, broken,
                           quota, record, windows, faults>>
         \/ /\ tokens < Capacity /\ tokens' = tokens + 1
            /\ UNCHANGED <<phase, cur, queue, slice, tries, empties, locked, answer, broken,
                           quota, record, windows, faults>>
         \/ WindowEnds
BY DEF SendStep, SendLocked, SendExhausted, SendClaimed, Acquire, Refill, Sending

LEMMA WindowFacts ==
  ASSUME ChainTypeOK, WindowEnds
  PROVE  /\ windows' = windows + 1 /\ claims' = 0
         /\ quota' \in FileOf(Nat)
         /\ Readable(quota.target) => quota'.target = 0
         /\ ~Readable(quota.target) => quota'.target = quota.target
         /\ UNCHANGED <<phase, memory, mails, acked, stray, late, faults>>
<1> DEFINE q(k) == IF Readable(quota[k]) THEN 0 ELSE quota[k]
<1>1. /\ DOMAIN quota = {"tmp", "target", "prev"}
      /\ quota' = [k \in {"tmp", "target", "prev"} |-> q(k)]
  BY DEF ChainTypeOK, FileOf, WindowEnds
<1>2. \A k \in {"tmp", "target", "prev"} : q(k) \in Nat \cup {Absent, Torn}
  BY DEF ChainTypeOK, FileOf, Readable
<1> HIDE DEF q
<1>3. quota' = [tmp |-> q("tmp"), target |-> q("target"), prev |-> q("prev")]
  BY <1>1
<1>4. quota' \in FileOf(Nat)
  BY <1>2, <1>3 DEF FileOf
<1>5. quota'.target = q("target")
  BY <1>3
<1> QED
  BY <1>4, <1>5 DEF WindowEnds, q

LEMMA ChainTypes ==
  ASSUME TypeOK, Caller, [ReportNext]_reportVars
  PROVE  ChainTypeOK'
<1>0. ChainTypeOK /\ faults \in Nat /\ Game \subseteq 0 .. Games /\ NoGame \in 0 .. Games
  BY BoundsAreNaturals DEF TypeOK, ChainTypeOK, Game, NoGame
<1>1. CASE HookStep
  BY <1>0, <1>1, HookFrame DEF ChainTypeOK, memory, record
<1>2. CASE AskStep
  <2>1. game \in 0 .. Games
    BY DEF TypeOK, HookTypeOK
  <2> QED
    BY <1>0, <1>2, <2>1, AskFrame DEF ChainTypeOK, record, Phases
<1>3. CASE DrainStep
  <2>1. /\ Goto(queue) /\ queue' = <<>>
        /\ UNCHANGED <<tries, tokens, empties, locked, answer, broken, quota, record, windows, faults>>
    BY <1>3 DEF DrainStep, Drain
  <2>2. phase' \in Phases /\ cur' \in 0 .. Games /\ slice' \in Seq(Game) /\ queue' \in Seq(Game)
    BY <1>0, <2>1, GotoFacts DEF ChainTypeOK, Phases
  <2> QED
    BY <1>0, <2>1, <2>2 DEF ChainTypeOK, record
<1>4. CASE SendStep
  <2>1. phase = "send" => cur \in Game
    BY DEF Caller, Busy
  <2>2. CASE Refuse /\ phase = "send" /\ UNCHANGED <<tries, tokens, empties, locked, quota, broken, record, windows, faults>>
    <3>1. /\ queue' \in Seq(Game) /\ answer' \in [Game -> Answers]
          /\ phase' \in Phases /\ cur' \in 0 .. Games /\ slice' \in Seq(Game)
      BY <1>0, <2>1, <2>2, RefuseFacts, GotoFacts DEF ChainTypeOK, Phases
    <3> QED
      BY <1>0, <2>2, <3>1 DEF ChainTypeOK, record
  <2>3. CASE WindowEnds
    <3>1. /\ windows' = windows + 1 /\ claims' = 0 /\ quota' \in FileOf(Nat)
          /\ UNCHANGED <<phase, cur, queue, slice, tries, tokens, empties, locked, answer, broken>>
          /\ UNCHANGED <<mails, acked, stray, late, faults>>
      BY <1>0, <2>3, WindowFacts DEF memory
    <3>2. windows' \in Nat /\ claims' \in Nat
      BY <1>0, <3>1 DEF ChainTypeOK
    <3> QED
      BY <1>0, <3>1, <3>2 DEF ChainTypeOK
  <2>4. CASE /\ phase' = "acquire" /\ quota' = Written(quota, Used + 1)
             /\ claims' = claims + 1 /\ tries' = 0
             /\ UNCHANGED <<cur, queue, slice, tokens, empties, locked, answer, broken,
                            mails, acked, stray, late, windows, faults>>
    <3>1. quota' \in FileOf(Nat)
      BY <1>0, <2>4, UsedIsCount, WriteIsWhole DEF ChainTypeOK
    <3> QED
      BY <1>0, <2>4, <3>1, BoundsAreNaturals DEF ChainTypeOK, Phases
  <2>5. CASE /\ phase' = "call" /\ tokens' = tokens - 1 /\ tokens > 0
             /\ UNCHANGED <<cur, queue, slice, tries, empties, locked, answer, broken,
                            quota, record, windows, faults>>
    BY <1>0, <2>5, BoundsAreNaturals DEF ChainTypeOK, Phases, record
  <2>6. CASE /\ tokens < Capacity /\ tokens' = tokens + 1
             /\ UNCHANGED <<phase, cur, queue, slice, tries, empties, locked, answer, broken,
                            quota, record, windows, faults>>
    BY <1>0, <2>6, BoundsAreNaturals DEF ChainTypeOK, record
  <2> QED
    BY <1>0, <1>4, <2>2, <2>3, <2>4, <2>5, <2>6, SendFacts
<1>5. CASE RaiseStep
  <2>1. /\ phase = "send" /\ faults' = faults + 1 /\ quota' \in LeftByDenial(quota, Used + 1)
        /\ Answer("raised") /\ broken' = (broken \/ slice # <<>>) /\ Goto(<<>>)
        /\ UNCHANGED <<queue, tries, tokens, empties, locked, record, windows>>
    BY <1>5 DEF RaiseStep, SendRaises, Sending
  <2>2. quota' \in FileOf(Nat)
    <3>1. quota \in FileOf(Nat) /\ Used + 1 \in Nat /\ quota' \in LeftByKill(quota, Used + 1)
      BY <1>0, <2>1, UsedIsCount, DeniedIsCut DEF ChainTypeOK
    <3>2. PICK g : g = quota' /\ g \in LeftByKill(quota, Used + 1)
      BY <3>1
    <3> QED
      BY <3>1, <3>2, CutWrites, MarkersAside
  <2>3. phase' = "idle" /\ cur' = NoGame /\ slice' \in Seq(Game)
    BY <2>1, EmptySeq DEF Goto
  <2>4. answer' \in [Game -> Answers]
    BY <1>0, <2>1 DEF Answer, Answers, ChainTypeOK
  <2> QED
    BY <1>0, <2>1, <2>2, <2>3, <2>4 DEF ChainTypeOK, record, Phases
<1>6. CASE CallStep
  <2>1. phase = "call" /\ cur \in Game /\ faults' \in Nat /\ UNCHANGED <<tokens, broken, quota, claims, windows>>
    BY <1>6, CallFrame DEF Caller, Busy
  <2>2. CASE Sent /\ mails' = [mails EXCEPT ![cur] = @ + 1] /\ UNCHANGED <<stray, late>>
    <3>1. phase' \in Phases /\ cur' \in 0 .. Games /\ slice' \in Seq(Game)
      BY <1>0, <2>1, <2>2, SentFacts, GotoFacts DEF ChainTypeOK, Phases
    <3>2. mails' \in [Game -> Nat]
      BY <1>0, <2>1, <2>2 DEF ChainTypeOK
    <3>3. /\ empties' \in Nat /\ locked' \in BOOLEAN /\ answer' \in [Game -> Answers]
          /\ acked' \subseteq Game /\ queue' = queue /\ tries' = tries
      BY <1>0, <2>1, <2>2, SentFacts
    <3> QED
      BY <1>0, <2>1, <2>2, <3>1, <3>2, <3>3 DEF ChainTypeOK
  <2>3. CASE Failed /\ mails' = mails /\ stray' \in [Game -> Nat] /\ late' \in [Game -> Nat]
    <3>1. /\ phase' \in Phases /\ cur' \in 0 .. Games /\ slice' \in Seq(Game)
          /\ queue' \in Seq(Game) /\ answer' \in [Game -> Answers]
      BY <1>0, <2>1, <2>3, FailedFacts, RefuseFacts, GotoFacts DEF ChainTypeOK, Phases
    <3> QED
      BY <1>0, <2>1, <2>3, <3>1, FailedFacts DEF ChainTypeOK
  <2>4. CASE /\ Failed /\ mails' = mails /\ late' = [late EXCEPT ![cur] = @ + 1]
             /\ stray' = [stray EXCEPT ![cur] = @ + 1]
    <3>1. stray' \in [Game -> Nat] /\ late' \in [Game -> Nat]
      <4>1. /\ stray \in [Game -> Nat] /\ late \in [Game -> Nat] /\ cur \in Game
            /\ stray[cur] + 1 \in Nat /\ late[cur] + 1 \in Nat
        BY <1>0, <2>1 DEF ChainTypeOK
      <4> QED
        BY <2>4, <4>1
    <3> QED
      BY <2>3, <2>4, <3>1
  <2>5. CASE Failed /\ UNCHANGED <<mails, stray, late>>
    BY <1>0, <2>3, <2>5 DEF ChainTypeOK
  <2> QED
    BY <1>6, <2>2, <2>4, <2>5, CallFrame
<1>7. CASE Late
  <2>1. PICK g \in Game : Straggles(g)
    BY <1>7 DEF Late
  <2>2. stray' \in [Game -> Nat] /\ mails' \in [Game -> Nat]
    <3>1. /\ stray' = [stray EXCEPT ![g] = @ - 1] /\ stray[g] > 0 /\ stray[g] \in Nat
          /\ mails' = mails \/ mails' = [mails EXCEPT ![g] = @ + 1]
      BY <1>0, <2>1 DEF Straggles, ChainTypeOK
    <3>2. stray[g] - 1 \in Nat
      BY <3>1
    <3>3. /\ stray \in [Game -> Nat] /\ mails \in [Game -> Nat] /\ mails[g] + 1 \in Nat
      BY <1>0, <2>1 DEF ChainTypeOK
    <3>4. stray' \in [Game -> Nat]
      BY <3>1, <3>2, <3>3
    <3>5. mails' \in [Game -> Nat]
      BY <3>1, <3>3
    <3> QED
      BY <3>4, <3>5
  <2>3. UNCHANGED <<phase, memory, quota, claims, acked, late, windows, faults>>
    BY <2>1 DEF Straggles
  <2> QED
    BY <1>0, <2>2, <2>3 DEF ChainTypeOK, memory
<1>8. CASE Restart
  <2>1. /\ phase' = "idle" /\ Renew /\ UNCHANGED <<quota, record, windows, faults>>
    BY <1>8 DEF Restart
  <2>2. /\ cur' \in 0 .. Games /\ queue' \in Seq(Game) /\ slice' \in Seq(Game)
        /\ tries' \in 0 .. Retries /\ tokens' \in 0 .. Capacity /\ empties' \in Nat
        /\ locked' \in BOOLEAN /\ broken' \in BOOLEAN
    <3>1. /\ cur' = NoGame /\ queue' = <<>> /\ slice' = <<>> /\ tries' = 0
          /\ tokens' = Capacity /\ empties' = 0 /\ locked' = FALSE /\ broken' = FALSE
      BY <2>1 DEF Renew
    <3>2. <<>> \in Seq(Game)
      BY EmptySeq
    <3>3. tries' \in 0 .. Retries /\ tokens' \in 0 .. Capacity /\ empties' \in Nat
      BY <3>1, BoundsAreNaturals
    <3>4. locked' \in BOOLEAN /\ broken' \in BOOLEAN
      BY <3>1, Zenon
    <3> QED
      BY <1>0, <3>1, <3>2, <3>3, <3>4
  <2>3. answer' \in [Game -> Answers]
    BY <2>1 DEF Renew, Answers
  <2> QED
    BY <1>0, <2>1, <2>2, <2>3 DEF ChainTypeOK, record, Phases
<1>9. CASE Kill
  <2>1. quota' \in FileOf(Nat)
    <3>1. quota \in FileOf(Nat) /\ Used + 1 \in Nat
      BY <1>0, UsedIsCount DEF ChainTypeOK
    <3>2. PICK g : g = quota'
      OBVIOUS
    <3>3. g = quota \/ g \in LeftByKill(quota, Used + 1)
      BY <1>9, <3>2, KillFrame
    <3> QED
      BY <3>1, <3>2, <3>3, CutWrites, MarkersAside
  <2> QED
    BY <1>0, <1>9, <2>1, KillFrame DEF ChainTypeOK, memory, record, Phases
<1>10. CASE Still
  BY <1>0, <1>10 DEF Still, reportVars, chainVars, memory, record, ChainTypeOK
<1> QED
  BY <1>1, <1>2, <1>3, <1>4, <1>5, <1>6, <1>7, <1>8, <1>9, <1>10, StepsAre

-----------------------------------------------------------------------------
(* Which report is in whose hands.                                         *)

Queues == Once /\ Room /\ Told

\* Nothing is taken up and nothing is answered.
LEMMA QueuesStill ==
  ASSUME TypeOK, Queues, UNCHANGED <<cur, queue, slice, answer, broken, acked>>,
         Due' \in Int, Due <= Due', phase' \in Busy => phase \in Busy
  PROVE  Queues'
<1>1. Due \in Int /\ Game \subseteq Int /\ cur \in Int /\ queue \in Seq(Game) /\ slice \in Seq(Game)
  BY DEF Due, TypeOK, ChainTypeOK, HookTypeOK, Game
<1>2. /\ \A i \in DOMAIN queue : queue[i] \in Int
      /\ \A i \in DOMAIN slice : slice[i] \in Int
  BY <1>1, SeqFacts
<1>3. Once'
  BY <1>1, <1>2 DEF Queues, Once
<1>4. Room'
  BY DEF Queues, Room
<1>5. Told'
  BY DEF Queues, Told, Owed
<1> QED
  BY <1>3, <1>4, <1>5 DEF Queues

\* The caller lets go of its report, called sent, dropped or queued again, and
\* goes on with its slice.
LEMMA QueuesGoOn ==
  ASSUME TypeOK, ChainTypeOK', Caller, Queues, phase \in Busy, Goto(slice),
         Due' = Due, broken' = broken,
         NEW a \in Answers, Answer(a),
         \/ /\ queue' = Append(queue, cur) /\ a = "queued" /\ Len(queue) < QueueDepth
            /\ acked' = acked
         \/ queue' = queue /\ a # "queued" /\ (acked' = acked \/ acked' = acked \cup {cur})
  PROVE  Queues'
<1>1. /\ cur \in Game /\ queue \in Seq(Game) /\ slice \in Seq(Game) /\ acked \subseteq Game
      /\ answer \in [Game -> Answers] /\ Due \in Int /\ Game \subseteq Int /\ NoGame \notin Game
      /\ QueueDepth \in Nat
  <2>1. /\ cur \in Game /\ queue \in Seq(Game) /\ slice \in Seq(Game) /\ acked \subseteq Game
        /\ answer \in [Game -> Answers] /\ game \in 0 .. Games
    BY DEF Caller, TypeOK, ChainTypeOK, HookTypeOK
  <2>2. Due \in Int /\ Game \subseteq Int /\ NoGame \notin Game
    BY <2>1 DEF Due, Game, NoGame
  <2> QED
    BY <2>1, <2>2, BoundsAreNaturals
<1>2. /\ \A i \in DOMAIN queue : queue[i] \in Game
      /\ \A i \in DOMAIN slice : slice[i] \in Game
      /\ DOMAIN queue = 1 .. Len(queue) /\ Len(queue) \in Nat
      /\ DOMAIN slice = 1 .. Len(slice) /\ Len(slice) \in Nat
      /\ slice = <<>> <=> Len(slice) = 0
  BY <1>1, SeqFacts
<1>3. /\ \A i, j \in DOMAIN queue : queue[i] = queue[j] => i = j
      /\ \A i, j \in DOMAIN slice : slice[i] = slice[j] => i = j
      /\ \A i \in DOMAIN queue, j \in DOMAIN slice : queue[i] # slice[j]
      /\ \A i \in DOMAIN queue : queue[i] # cur /\ queue[i] \notin acked /\ queue[i] <= Due
      /\ \A i \in DOMAIN slice : slice[i] # cur /\ slice[i] \notin acked /\ slice[i] <= Due
      /\ cur \notin acked /\ cur <= Due
      /\ \A g \in Game : g > Due => g \notin acked /\ answer[g] = "none"
  BY DEF Queues, Once
<1>4. \A g \in Game : answer'[g] = IF g = cur THEN a ELSE answer[g]
  BY <1>1 DEF Answer
\* What becomes of the slice.
<1>5. /\ slice' \in Seq(Game)
      /\ \/ slice = <<>> /\ phase' = "idle" /\ cur' = NoGame /\ slice' = <<>> /\ DOMAIN slice' = {}
         \/ /\ slice # <<>> /\ phase' = "send" /\ cur' = slice[1] /\ cur' \in Game
            /\ 1 \in DOMAIN slice /\ Len(slice') = Len(slice) - 1
            /\ DOMAIN slice' = 1 .. Len(slice) - 1
            /\ \A i \in DOMAIN slice' : i + 1 \in DOMAIN slice /\ i + 1 # 1 /\ slice'[i] = slice[i + 1]
            /\ \A i \in DOMAIN slice \ {1} : i - 1 \in DOMAIN slice' /\ slice'[i - 1] = slice[i]
  BY <1>1, GotoFacts, SeqFacts
<1>6. \A j \in DOMAIN slice' : j \in Int /\ \E i \in DOMAIN slice : i # 1 /\ i = j + 1 /\ slice'[j] = slice[i]
  <2>1. CASE slice = <<>>
    BY <1>5, <2>1
  <2>2. CASE slice # <<>>
    <3>1. \A j \in DOMAIN slice' : j \in Int
      <4>1. DOMAIN slice' = 1 .. Len(slice')
        BY <1>5, SeqFacts
      <4> QED
        BY <4>1
    <3> QED
      BY <1>5, <2>2, <3>1
  <2> QED
    BY <2>1, <2>2
<1>7. \/ cur' = NoGame
      \/ 1 \in DOMAIN slice /\ cur' = slice[1]
  BY <1>5
<1>8. \A i \in DOMAIN slice : slice[i] = cur' \/ \E j \in DOMAIN slice' : slice'[j] = slice[i]
  <2> SUFFICES ASSUME NEW i \in DOMAIN slice, i # 1
               PROVE  \E j \in DOMAIN slice' : slice'[j] = slice[i]
    BY <1>2, <1>5
  <2>1. i - 1 \in DOMAIN slice' /\ slice'[i - 1] = slice[i]
    BY <1>5
  <2> QED
    BY <2>1
\* What becomes of the queue.
<1>9. /\ queue' \in Seq(Game)
      /\ \A i \in DOMAIN queue : i \in DOMAIN queue' /\ queue'[i] = queue[i]
      /\ \A i \in DOMAIN queue' : i \in DOMAIN queue \/ (a = "queued" /\ i = Len(queue) + 1 /\ queue'[i] = cur)
      /\ a = "queued" => /\ Len(queue) + 1 \in DOMAIN queue' /\ queue'[Len(queue) + 1] = cur
                         /\ Len(queue') = Len(queue) + 1 /\ Len(queue) < QueueDepth
      /\ a # "queued" => Len(queue') = Len(queue)
  <2>1. CASE queue' = Append(queue, cur) /\ a = "queued" /\ Len(queue) < QueueDepth
    BY <1>1, <1>2, <2>1, AppendFacts
  <2>2. CASE queue' = queue /\ a # "queued"
    BY <1>1, <2>2
  <2> QED
    BY <2>1, <2>2
<1>10. \A g \in Game : g \in acked' => g \in acked \/ (g = cur /\ a # "queued")
  BY <1>1
<1>11. Once'
  <2>1. \A i, j \in DOMAIN queue' : queue'[i] = queue'[j] => i = j
    <3> SUFFICES ASSUME NEW i \in DOMAIN queue', NEW j \in DOMAIN queue', queue'[i] = queue'[j]
                 PROVE  i = j
      OBVIOUS
    <3>1. CASE i \in DOMAIN queue /\ j \in DOMAIN queue
      BY <1>3, <1>9, <3>1
    <3>2. CASE i \notin DOMAIN queue /\ j \notin DOMAIN queue
      BY <1>9, <3>2
    <3>3. CASE i \in DOMAIN queue /\ j \notin DOMAIN queue
      BY <1>3, <1>9, <3>3
    <3>4. CASE i \notin DOMAIN queue /\ j \in DOMAIN queue
      BY <1>3, <1>9, <3>4
    <3> QED
      BY <3>1, <3>2, <3>3, <3>4
  <2>2. \A i, j \in DOMAIN slice' : slice'[i] = slice'[j] => i = j
    <3> SUFFICES ASSUME NEW i \in DOMAIN slice', NEW j \in DOMAIN slice', slice'[i] = slice'[j]
                 PROVE  i = j
      OBVIOUS
    <3>1. PICK k \in DOMAIN slice : k = i + 1 /\ slice'[i] = slice[k]
      BY <1>6
    <3>2. PICK l \in DOMAIN slice : l = j + 1 /\ slice'[j] = slice[l]
      BY <1>6
    <3>3. k = l /\ i \in Int /\ j \in Int
      BY <1>3, <1>6, <3>1, <3>2
    <3> QED
      BY <3>1, <3>2, <3>3
  <2>3. \A i \in DOMAIN queue', j \in DOMAIN slice' : queue'[i] # slice'[j]
    <3> SUFFICES ASSUME NEW i \in DOMAIN queue', NEW j \in DOMAIN slice'
                 PROVE  queue'[i] # slice'[j]
      OBVIOUS
    <3>1. PICK k \in DOMAIN slice : slice'[j] = slice[k]
      BY <1>6
    <3> QED
      BY <1>3, <1>9, <3>1
  <2>4. \A i \in DOMAIN queue' : queue'[i] # cur' /\ queue'[i] \notin acked' /\ queue'[i] <= Due
    <3> SUFFICES ASSUME NEW i \in DOMAIN queue'
                 PROVE  queue'[i] # cur' /\ queue'[i] \notin acked' /\ queue'[i] <= Due
      OBVIOUS
    <3>1. CASE i \in DOMAIN queue
      <4>1. queue'[i] = queue[i] /\ queue[i] \in Game
        BY <1>2, <1>9, <3>1
      <4>2. queue[i] # cur'
        BY <1>1, <1>3, <1>7, <3>1, <4>1
      <4> QED
        BY <1>3, <1>10, <3>1, <4>1, <4>2
    <3>2. CASE i \notin DOMAIN queue
      <4>1. a = "queued" /\ queue'[i] = cur
        BY <1>9, <3>2
      <4>2. cur # cur'
        BY <1>1, <1>3, <1>7
      <4> QED
        BY <1>1, <1>3, <1>10, <4>1, <4>2
    <3> QED
      BY <3>1, <3>2
  <2>5. \A i \in DOMAIN slice' : slice'[i] # cur' /\ slice'[i] \notin acked' /\ slice'[i] <= Due
    <3> SUFFICES ASSUME NEW j \in DOMAIN slice'
                 PROVE  slice'[j] # cur' /\ slice'[j] \notin acked' /\ slice'[j] <= Due
      OBVIOUS
    <3>1. PICK k \in DOMAIN slice : k # 1 /\ slice'[j] = slice[k]
      BY <1>6
    <3>2. slice[k] \in Game /\ slice[k] # cur'
      BY <1>1, <1>2, <1>3, <1>7, <3>1
    <3> QED
      BY <1>3, <1>10, <3>1, <3>2
  <2>6. cur' \notin acked' /\ cur' <= Due
    <3>1. CASE cur' = NoGame
      <4>1. NoGame \notin acked'
        BY <1>1, <3>1
      <4>2. NoGame <= Due
        BY <1>1, <1>3 DEF NoGame, Game
      <4> QED
        BY <3>1, <4>1, <4>2
    <3>2. CASE 1 \in DOMAIN slice /\ cur' = slice[1]
      BY <1>2, <1>3, <1>10, <3>2
    <3> QED
      BY <1>7, <3>1, <3>2
  <2>7. \A g \in Game : g > Due => g \notin acked' /\ answer'[g] = "none"
    <3> SUFFICES ASSUME NEW g \in Game, g > Due
                 PROVE  g \notin acked' /\ answer'[g] = "none"
      OBVIOUS
    <3>1. g # cur
      BY <1>1, <1>3
    <3> QED
      BY <1>3, <1>4, <1>10, <3>1
  <2> QED
    BY <2>1, <2>2, <2>3, <2>4, <2>5, <2>6, <2>7 DEF Once
<1>12. Room'
  <2>1. /\ Len(queue) <= QueueDepth
        /\ slice # <<>> => Len(queue) + Len(slice) < QueueDepth
    BY DEF Queues, Room
  <2>2. Len(queue') <= QueueDepth
    BY <1>1, <1>2, <1>9, <2>1
  <2>3. CASE slice = <<>>
    BY <1>5, <2>2, <2>3 DEF Room, Busy
  <2>4. CASE slice # <<>>
    <3>1. Len(queue') + Len(slice') < QueueDepth
      <4>1. Len(slice') = Len(slice) - 1 /\ Len(queue) + Len(slice) < QueueDepth
        BY <1>5, <2>1, <2>4
      <4>2. Len(queue') <= Len(queue) + 1 /\ Len(queue') \in Nat
        BY <1>2, <1>9
      <4> QED
        BY <1>1, <1>2, <4>1, <4>2
    <3> QED
      BY <2>2, <3>1 DEF Room
  <2> QED
    BY <2>3, <2>4
<1>13. Told'
  <2> SUFFICES ASSUME NEW g \in Game, answer'[g] = "queued"
               PROVE  Owed(g)' \/ broken'
    BY DEF Told
  <2>1. CASE g = cur
    <3>1. a = "queued"
      BY <1>4, <2>1
    <3> QED
      BY <1>9, <2>1, <3>1 DEF Owed
  <2>2. CASE g # cur
    <3>1. answer[g] = "queued"
      BY <1>4, <2>2
    <3>2. \/ broken
          \/ \E i \in DOMAIN queue : queue[i] = g
          \/ \E i \in DOMAIN slice : slice[i] = g
      BY <2>2, <3>1 DEF Queues, Told, Owed
    <3>3. CASE \E i \in DOMAIN queue : queue[i] = g
      BY <1>9, <3>3 DEF Owed
    <3>4. CASE \E i \in DOMAIN slice : slice[i] = g
      BY <1>8, <3>4 DEF Owed
    <3> QED
      BY <3>2, <3>3, <3>4
  <2> QED
    BY <2>1, <2>2
<1> QED
  BY <1>11, <1>12, <1>13 DEF Queues

\* No report is under way, and none will be but by being put to the chain.
LEMMA QueuesEmptied ==
  ASSUME TypeOK, Queues, cur' = NoGame, slice' = <<>>, Due' = Due,
         phase' \notin Busy, acked' = acked,
         \/ queue' = <<>> /\ \A g \in Game : answer'[g] = "none"
         \/ /\ queue' = queue /\ cur \in Game /\ Answer("raised")
            /\ broken' = (broken \/ slice # <<>>)
  PROVE  Queues'
<1>1. /\ queue \in Seq(Game) /\ slice \in Seq(Game) /\ acked \subseteq Game
      /\ answer \in [Game -> Answers] /\ QueueDepth \in Nat /\ game \in 0 .. Games
  BY BoundsAreNaturals DEF TypeOK, ChainTypeOK, HookTypeOK
<1>2. NoGame \notin Game /\ NoGame = 0 /\ Due \in Int /\ Game \subseteq Int
  BY <1>1 DEF Game, NoGame, Due
<1>3. /\ DOMAIN slice' = {} /\ Len(<<>>) = 0 /\ DOMAIN <<>> = {}
  <2>1. <<>> \in Seq(Game)
    BY EmptySeq
  <2> QED
    BY <2>1, SeqFacts
<1>4. \A i \in DOMAIN queue : queue[i] \in Game
  BY <1>1, SeqFacts
<1>5. /\ \A i, j \in DOMAIN queue : queue[i] = queue[j] => i = j
      /\ \A i \in DOMAIN queue : queue[i] # cur /\ queue[i] \notin acked /\ queue[i] <= Due
      /\ cur <= Due /\ \A g \in Game : g > Due => g \notin acked /\ answer[g] = "none"
  BY DEF Queues, Once
<1>6. Due >= 0
  <2>1. cur \in 0 .. Games
    BY DEF TypeOK, ChainTypeOK
  <2> QED
    BY <1>2, <1>5, <2>1
<1>7. CASE queue' = <<>> /\ \A g \in Game : answer'[g] = "none"
  <2>1. Once'
    BY <1>1, <1>2, <1>3, <1>5, <1>6, <1>7 DEF Once
  <2>2. Room'
    BY <1>1, <1>3, <1>7 DEF Room
  <2>3. Told'
    BY <1>7 DEF Told
  <2> QED
    BY <2>1, <2>2, <2>3 DEF Queues
<1>8. CASE /\ queue' = queue /\ cur \in Game /\ Answer("raised")
           /\ broken' = (broken \/ slice # <<>>)
  <2>1. \A g \in Game : answer'[g] = IF g = cur THEN "raised" ELSE answer[g]
    BY <1>1, <1>8 DEF Answer
  <2>2. Once'
    <3>1. \A i \in DOMAIN queue : queue[i] # NoGame
      BY <1>2, <1>4
    <3>2. NoGame \notin acked /\ NoGame <= Due
      BY <1>1, <1>2, <1>6
    <3>3. \A g \in Game : g > Due => g # cur
      BY <1>2, <1>5, <1>8
    <3> QED
      BY <1>3, <1>5, <1>8, <2>1, <3>1, <3>2, <3>3 DEF Once
  <2>3. Room'
    BY <1>8 DEF Queues, Room
  <2>4. Told'
    <3> SUFFICES ASSUME NEW g \in Game, answer'[g] = "queued"
                 PROVE  Owed(g)' \/ broken'
      BY DEF Told
    <3>1. g # cur /\ answer[g] = "queued"
      BY <2>1
    <3>2. \/ broken
          \/ \E i \in DOMAIN queue : queue[i] = g
          \/ \E i \in DOMAIN slice : slice[i] = g
      BY <3>1 DEF Queues, Told, Owed
    <3>3. CASE \E i \in DOMAIN slice : slice[i] = g
      <4>1. slice # <<>>
        BY <1>3, <3>3
      <4> QED
        BY <1>8, <4>1
    <3>4. CASE \E i \in DOMAIN queue : queue[i] = g
      BY <1>8, <3>4 DEF Owed
    <3> QED
      BY <1>8, <3>2, <3>3, <3>4
  <2> QED
    BY <2>2, <2>3, <2>4 DEF Queues
<1> QED
  BY <1>7, <1>8

\* The whole queue becomes the slice of a drain.
LEMMA QueuesDrained ==
  ASSUME TypeOK, ChainTypeOK', Caller, Queues, phase = "idle", queue # <<>>, Goto(queue), queue' = <<>>,
         UNCHANGED <<answer, broken, acked, game>>
  PROVE  Queues'
<1>1. /\ queue \in Seq(Game) /\ slice = <<>> /\ acked \subseteq Game /\ cur = NoGame
      /\ QueueDepth \in Nat /\ game \in 0 .. Games
  BY BoundsAreNaturals DEF TypeOK, ChainTypeOK, HookTypeOK, Caller
<1>2. NoGame \notin Game /\ Game \subseteq Int
  BY DEF Game, NoGame
<1>3. /\ slice' \in Seq(Game)
      /\ phase' = "send" /\ cur' = queue[1] /\ cur' \in Game
      /\ 1 \in DOMAIN queue /\ Len(slice') = Len(queue) - 1
      /\ \A i \in DOMAIN slice' : i + 1 \in DOMAIN queue /\ i + 1 # 1 /\ slice'[i] = queue[i + 1]
      /\ \A i \in DOMAIN queue \ {1} : i - 1 \in DOMAIN slice' /\ slice'[i - 1] = queue[i]
  BY <1>1, GotoFacts
<1>4. /\ \A i \in DOMAIN queue : queue[i] \in Game
      /\ Len(queue) \in Nat /\ DOMAIN queue = 1 .. Len(queue)
      /\ DOMAIN <<>> = {} /\ Len(<<>>) = 0 /\ \A j \in DOMAIN slice' : j \in Int
  <2>1. <<>> \in Seq(Game)
    BY EmptySeq
  <2>2. DOMAIN slice' = 1 .. Len(slice')
    BY <1>3, SeqFacts
  <2>3. \A j \in DOMAIN slice' : j \in Int
    BY <2>2
  <2> QED
    BY <1>1, <2>1, <2>3, SeqFacts
<1>5. Due = game /\ Due' = game
  BY <1>3 DEF Due, Ahead
<1>6. /\ \A i, j \in DOMAIN queue : queue[i] = queue[j] => i = j
      /\ \A i \in DOMAIN queue : queue[i] \notin acked /\ queue[i] <= game
      /\ \A g \in Game : g > game => g \notin acked /\ answer[g] = "none"
  BY <1>5 DEF Queues, Once
<1>7. Once'
  <2>1. \A i, j \in DOMAIN slice' : slice'[i] = slice'[j] => i = j
    <3> SUFFICES ASSUME NEW i \in DOMAIN slice', NEW j \in DOMAIN slice', slice'[i] = slice'[j]
                 PROVE  i = j
      OBVIOUS
    <3>1. PICK k \in DOMAIN queue : k = i + 1 /\ slice'[i] = queue[k]
      BY <1>3
    <3>2. PICK l \in DOMAIN queue : l = j + 1 /\ slice'[j] = queue[l]
      BY <1>3
    <3>3. k = l /\ i \in Int /\ j \in Int
      BY <1>4, <1>6, <3>1, <3>2
    <3> QED
      BY <3>1, <3>2, <3>3
  <2>2. \A i \in DOMAIN slice' : slice'[i] # cur' /\ slice'[i] \notin acked /\ slice'[i] <= game
    <3> SUFFICES ASSUME NEW i \in DOMAIN slice'
                 PROVE  slice'[i] # cur' /\ slice'[i] \notin acked /\ slice'[i] <= game
      OBVIOUS
    <3>1. PICK k \in DOMAIN queue : k = i + 1 /\ k # 1 /\ slice'[i] = queue[k]
      BY <1>3
    <3> QED
      BY <1>3, <1>6, <3>1
  <2>3. cur' \notin acked /\ cur' <= game
    BY <1>3, <1>6
  <2> QED
    BY <1>4, <1>5, <1>6, <2>1, <2>2, <2>3 DEF Once
<1>8. Room'
  <2>1. Len(queue) <= QueueDepth
    BY DEF Queues, Room
  <2> QED
    BY <1>1, <1>3, <1>4, <2>1 DEF Room
<1>9. Told'
  <2> SUFFICES ASSUME NEW g \in Game, answer'[g] = "queued"
               PROVE  Owed(g)' \/ broken'
    BY DEF Told
  <2>1. broken \/ \E i \in DOMAIN queue : queue[i] = g
    BY <1>1, <1>2, <1>4 DEF Queues, Told, Owed
  <2>2. CASE \E i \in DOMAIN queue : queue[i] = g
    <3>1. PICK i \in DOMAIN queue : queue[i] = g
      BY <2>2
    <3>2. CASE i = 1
      BY <1>3, <3>1, <3>2 DEF Owed
    <3>3. CASE i # 1
      <4>1. i - 1 \in DOMAIN slice' /\ slice'[i - 1] = g
        BY <1>3, <3>1, <3>3
      <4> QED
        BY <4>1 DEF Owed
    <3> QED
      BY <3>2, <3>3
  <2> QED
    BY <2>1, <2>2
<1> QED
  BY <1>7, <1>8, <1>9 DEF Queues

\* The report of the game that has just ended is put to the chain.
LEMMA QueuesAsked ==
  ASSUME TypeOK, Caller, Queues, phase = "declare", phase' = "send", cur' = game,
         UNCHANGED <<queue, slice, answer, broken, acked, game>>
  PROVE  Queues'
<1>1. /\ queue \in Seq(Game) /\ slice = <<>> /\ cur = NoGame /\ game \in Game /\ acked \subseteq Game
  BY DEF TypeOK, ChainTypeOK, HookTypeOK, Caller, Ahead
<1>2. NoGame \notin Game /\ Game \subseteq Int
  BY DEF Game, NoGame
<1>3. Due = game - 1 /\ Due' = game
  BY DEF Due, Ahead
<1>4. \A i \in DOMAIN queue : queue[i] \in Int
  BY <1>1, <1>2, SeqFacts
<1>5. game > Due /\ answer[game] = "none" /\ game \notin acked
  BY <1>1, <1>2, <1>3 DEF Queues, Once
<1>6. DOMAIN slice = {} /\ DOMAIN slice' = {}
  <2>1. <<>> \in Seq(Game) /\ Len(<<>>) = 0
    BY EmptySeq
  <2> QED
    BY <1>1, <2>1, SeqFacts
<1>7. Once'
  BY <1>1, <1>2, <1>3, <1>4, <1>5, <1>6 DEF Queues, Once
<1>8. Room'
  BY <1>1, <1>5 DEF Queues, Room
<1>9. Told'
  <2> SUFFICES ASSUME NEW g \in Game, answer[g] = "queued"
               PROVE  Owed(g)' \/ broken'
    BY DEF Told
  <2> QED
    BY <1>1, <1>2 DEF Queues, Told, Owed
<1> QED
  BY <1>7, <1>8, <1>9 DEF Queues

\* The games and phases of the hook's steps.
LEMMA HookMoves ==
  ASSUME HookStep, TypeOK, Caller
  PROVE  /\ \/ phase = "idle" /\ phase' = "count" /\ game' = game + 1
            \/ phase \in Ahead /\ phase' \in Ahead \cup {"idle", "down"} /\ game' = game
         /\ game' \in Game /\ Due \in Int /\ Due' \in Int /\ Due <= Due'
         /\ slice = <<>> /\ cur = NoGame
<1>1. game \in 0 .. Games /\ Games \in Nat /\ slice = <<>> /\ cur = NoGame
  BY BoundsAreNaturals, HookFrame DEF TypeOK, HookTypeOK, Caller, Ahead
<1>2. CASE GameEnds
  BY <1>1, <1>2 DEF GameEnds, Due, Ahead, Game
<1>3. CASE Counted \/ CountDenied
  BY <1>1, <1>3 DEF Counted, CountDenied, Step, Due, Ahead, Game, Caller
<1>4. CASE Journalled \/ JournalDenied
  BY <1>1, <1>4 DEF Journalled, JournalDenied, Step, Due, Ahead, Game, Caller
<1>5. CASE Recorded \/ RecordDenied
  BY <1>1, <1>5 DEF Recorded, RecordDenied, Step, Due, Ahead, Game, Caller
<1>6. CASE Refused
  BY <1>1, <1>6 DEF Refused, ChainRefused, Step, Due, Ahead, Game, Caller
<1> QED
  BY <1>2, <1>3, <1>4, <1>5, <1>6 DEF HookStep

LEMMA CallerStep ==
  ASSUME TypeOK, Caller, Queues, [ReportNext]_reportVars
  PROVE  Caller'
<1>0. /\ ChainTypeOK /\ slice \in Seq(Game) /\ phase \in Phases
      /\ (phase # "idle" => game \in Game)
  BY DEF TypeOK, ChainTypeOK, Caller
<1>1. CASE HookStep
  BY <1>1, HookFrame, HookMoves DEF Caller, memory, Busy
<1>2. CASE AskStep
  <2>1. game \in Game /\ slice = <<>>
    BY <1>2, AskFrame DEF Caller, Ahead
  <2> QED
    BY <1>2, <2>1, AskFrame DEF Caller, Ahead, Busy
\* Where the chain goes on: a busy caller stays at its game only in a dry run.
<1>3. ASSUME phase \in Busy, game' = game, sink' = sink, Goto(slice)
      PROVE  Caller'
  <2>1. \/ slice = <<>> /\ phase' = "idle" /\ cur' = NoGame /\ slice' = <<>>
        \/ slice # <<>> /\ phase' = "send" /\ cur' \in Game
    BY <1>0, <1>3, GotoFacts
  <2> QED
    BY <1>0, <1>3, <2>1 DEF Caller, Busy, Ahead
<1>4. ASSUME phase \in Busy, phase' \in Busy, UNCHANGED <<game, sink, cur, slice>>
      PROVE  Caller'
  BY <1>4 DEF Caller, Busy, Ahead
<1>5. CASE DrainStep
  <2>1. /\ sink = "handed" /\ sink' = sink /\ game' = game /\ phase = "idle" /\ Goto(queue) /\ queue # <<>>
        /\ queue \in Seq(Game)
    BY <1>5 DEF DrainStep, Drain, Keep, TypeOK, ChainTypeOK
  <2>2. phase' = "send" /\ cur' \in Game
    BY <2>1, GotoFacts
  <2>3. game \in Game
    <3>1. /\ 1 \in DOMAIN queue /\ queue[1] \in Game
      BY <2>1, TailFacts
    <3>2. queue[1] <= game /\ game \in 0 .. Games
      BY <2>1, <3>1 DEF Queues, Once, Due, Ahead, TypeOK, HookTypeOK
    <3> QED
      BY <3>1, <3>2 DEF Game
  <2> QED
    BY <2>1, <2>2, <2>3 DEF Caller, Ahead
<1>6. CASE SendStep
  <2>1. sink' = sink /\ game' = game
    BY <1>6 DEF SendStep, Keep
  <2>2. CASE Refuse /\ phase = "send"
    BY <1>3, <2>1, <2>2 DEF Refuse, Busy
  <2>3. CASE phase \in Busy /\ phase' \in Busy /\ UNCHANGED <<cur, slice>>
    BY <1>4, <2>1, <2>3
  <2>4. CASE UNCHANGED <<phase, cur, slice>>
    BY <2>1, <2>4 DEF Caller
  <2> QED
    BY <1>0, <1>6, <2>2, <2>3, <2>4, SendFacts, WindowFacts DEF Busy, memory
<1>7. CASE RaiseStep
  <2>1. /\ phase = "send" /\ Goto(<<>>) /\ sink' = sink /\ game' = game
    BY <1>7 DEF RaiseStep, SendRaises, Sending
  <2> QED
    BY <1>0, <2>1 DEF Goto, Caller, Busy, Ahead
<1>8. CASE CallStep
  <2>1. phase = "call" /\ sink' = sink /\ game' = game /\ cur \in Game
    BY <1>8, CallFrame DEF Caller, Busy
  <2>2. CASE Sent
    BY <1>3, <2>1, <2>2 DEF Sent, Busy
  <2>3. CASE Failed
    <3>1. CASE phase' = "acquire" /\ UNCHANGED <<cur, queue, slice, answer>>
      BY <1>4, <2>1, <3>1 DEF Busy
    <3>2. CASE Refuse
      BY <1>3, <2>1, <3>2 DEF Refuse, Busy
    <3> QED
      BY <1>0, <2>3, <3>1, <3>2, FailedFacts
  <2> QED
    BY <1>8, <2>2, <2>3, CallFrame
<1>9. CASE Late
  <2>1. UNCHANGED <<phase, memory, sink, game>>
    BY <1>9 DEF Late, Straggles, Keep
  <2> QED
    BY <2>1 DEF Caller, memory
<1>10. CASE Restart
  <2>1. phase' = "idle" /\ cur' = NoGame /\ slice' = <<>>
    BY <1>10 DEF Restart, Renew
  <2> QED
    BY <2>1 DEF Caller, Busy
<1>11. CASE Kill
  BY <1>0, <1>11, KillFrame DEF Caller, Busy, Ahead
<1>12. CASE Still
  BY <1>12 DEF Still, reportVars, chainVars, memory, Caller
<1> QED
  BY <1>1, <1>2, <1>5, <1>6, <1>7, <1>8, <1>9, <1>10, <1>11, <1>12, StepsAre

LEMMA QueuesStep ==
  ASSUME TypeOK, ChainTypeOK', Caller, Queues, [ReportNext]_reportVars
  PROVE  Queues'
<1>0. /\ ChainTypeOK /\ slice \in Seq(Game) /\ game \in Int /\ Due \in Int
      /\ {"queued", "dropped", "sent"} \subseteq Answers
  <2>1. game \in 0 .. Games /\ ChainTypeOK /\ slice \in Seq(Game)
    BY DEF TypeOK, HookTypeOK, ChainTypeOK
  <2>2. game \in Int /\ Due \in Int
    BY <2>1 DEF Due
  <2> QED
    BY <2>1, <2>2 DEF Answers
<1>1. CASE HookStep
  <2>1. UNCHANGED <<cur, queue, slice, answer, broken, acked>> /\ phase' \notin Busy
    BY <1>1, HookFrame DEF memory, record
  <2> QED
    BY <1>1, <2>1, HookMoves, QueuesStill
<1>2. CASE AskStep
  <2>1. /\ phase = "declare" /\ phase' = "send" /\ cur' = game
        /\ UNCHANGED <<queue, slice, answer, broken, acked, game>>
    BY <1>2, AskFrame DEF record
  <2> QED
    BY <2>1, QueuesAsked
<1>3. CASE DrainStep
  <2>1. /\ phase = "idle" /\ queue # <<>> /\ Goto(queue) /\ queue' = <<>>
        /\ UNCHANGED <<answer, broken, acked, game>>
    BY <1>3 DEF DrainStep, Drain, Keep, record
  <2> QED
    BY <2>1, QueuesDrained
\* A busy caller that answers one report and goes on.
<1>4. ASSUME phase \in Busy, cur \in Game, Refuse, UNCHANGED <<broken, acked, game>>
      PROVE  Queues'
  <2>1. /\ Goto(slice)
        /\ \/ queue' = queue /\ Answer("dropped")
           \/ queue' = Append(queue, cur) /\ Answer("queued") /\ Len(queue) < QueueDepth
    BY <1>0, <1>4, RefuseFacts
  <2>2. Due = game /\ Due' = game
    BY <1>0, <1>4, <2>1, GotoFacts DEF Due, Busy, Ahead
  <2>3. CASE queue' = queue /\ Answer("dropped")
    BY <1>0, <1>4, <2>1, <2>2, <2>3, QueuesGoOn
  <2>4. CASE queue' = Append(queue, cur) /\ Answer("queued") /\ Len(queue) < QueueDepth
    BY <1>0, <1>4, <2>1, <2>2, <2>4, QueuesGoOn
  <2> QED
    BY <2>1, <2>3, <2>4
<1>5. ASSUME UNCHANGED <<cur, queue, slice, answer, broken, acked, game>>,
             phase' = phase \/ (phase \in Busy /\ phase' \in Busy)
      PROVE  Queues'
  <2>1. Due' = Due
    BY <1>0, <1>5 DEF Due, Busy, Ahead
  <2> QED
    BY <1>0, <1>5, <2>1, QueuesStill
<1>6. CASE SendStep
  <2>1. game' = game
    BY <1>6 DEF SendStep, Keep
  <2>2. CASE phase = "send" /\ Refuse /\ UNCHANGED <<tries, tokens, empties, locked, quota, broken, record, windows, faults>>
    BY <1>4, <2>1, <2>2 DEF Caller, Busy, record
  <2>3. CASE UNCHANGED <<cur, queue, slice, answer, broken, acked>> /\ (phase' = phase \/ (phase \in Busy /\ phase' \in Busy))
    BY <1>5, <2>1, <2>3
  <2>4. CASE WindowEnds
    BY <1>0, <2>3, <2>4, WindowFacts DEF memory
  <2> QED
    BY <1>0, <1>6, <2>2, <2>3, <2>4, SendFacts DEF Busy, record
<1>7. CASE RaiseStep
  <2>1. /\ phase = "send" /\ Goto(<<>>) /\ game' = game /\ queue' = queue /\ Answer("raised")
        /\ broken' = (broken \/ slice # <<>>) /\ acked' = acked
    BY <1>7 DEF RaiseStep, SendRaises, Sending, record
  <2>2. phase' = "idle" /\ cur' = NoGame /\ slice' = <<>>
    BY <2>1 DEF Goto
  <2>3. Due' = Due /\ cur \in Game
    BY <2>1, <2>2 DEF Due, Ahead, Caller, Busy
  <2> QED
    BY <2>1, <2>2, <2>3, QueuesEmptied DEF Busy
<1>8. CASE CallStep
  <2>1. phase = "call" /\ broken' = broken /\ game' = game /\ cur \in Game /\ phase \in Busy
    BY <1>8, CallFrame DEF Caller, Busy
  <2>2. CASE Sent
    <3>1. Goto(slice) /\ Answer("sent") /\ acked' = acked \cup {cur} /\ queue' = queue
      BY <1>0, <2>1, <2>2, SentFacts
    <3>2. Due' = Due
      BY <1>0, <2>1, <3>1, GotoFacts DEF Due, Ahead
    <3> QED
      BY <1>0, <2>1, <3>1, <3>2, QueuesGoOn
  <2>3. CASE Failed
    <3>1. acked' = acked
      BY <1>0, <2>3, FailedFacts
    <3>2. CASE phase' = "acquire" /\ UNCHANGED <<cur, queue, slice, answer>>
      BY <1>5, <2>1, <3>1, <3>2 DEF Busy
    <3>3. CASE Refuse
      BY <1>4, <2>1, <3>1, <3>3
    <3> QED
      BY <1>0, <2>3, <3>2, <3>3, FailedFacts
  <2> QED
    BY <1>8, <2>2, <2>3, CallFrame
<1>9. CASE Late
  BY <1>5, <1>9 DEF Late, Straggles, Keep, memory
<1>10. CASE Restart
  <2>1. /\ phase' = "idle" /\ cur' = NoGame /\ slice' = <<>> /\ queue' = <<>> /\ game' = game /\ acked' = acked
        /\ answer' = [g \in Game |-> "none"] /\ phase \in {"idle", "down"}
    BY <1>10 DEF Restart, Renew, Keep, record
  <2>2. Due' = Due /\ \A g \in Game : answer'[g] = "none"
    BY <2>1 DEF Due, Ahead
  <2> QED
    BY <2>1, <2>2, QueuesEmptied DEF Busy
<1>11. CASE Kill
  <2>1. /\ UNCHANGED <<cur, queue, slice, answer, broken, acked, game>> /\ phase' = "down"
    BY <1>11, KillFrame DEF memory, record
  <2>2. Due' = game /\ Due <= game
    BY <1>0, <2>1 DEF Due, Ahead
  <2> QED
    BY <1>0, <2>1, <2>2, QueuesStill DEF Busy
<1>12. CASE Still
  BY <1>5, <1>12 DEF Still, reportVars, chainVars, memory, record
<1> QED
  BY <1>1, <1>2, <1>3, <1>6, <1>7, <1>8, <1>9, <1>10, <1>11, <1>12, StepsAre

-----------------------------------------------------------------------------
(* What was delivered.                                                     *)

LEMMA PostedStep ==
  ASSUME TypeOK, Caller, Queues, Posted, [ReportNext]_reportVars
  PROVE  Posted'
<1>0. /\ ChainTypeOK /\ acked \subseteq Game
      /\ mails \in [Game -> Nat] /\ stray \in [Game -> Nat] /\ late \in [Game -> Nat]
      /\ \A g \in acked : mails[g] >= 1
      /\ \A g \in Game : mails[g] + stray[g] <= late[g] + (IF g \in acked THEN 1 ELSE 0)
  BY DEF TypeOK, ChainTypeOK, Posted
<1>1. ASSUME UNCHANGED <<acked, mails, stray, late>>
      PROVE  Posted'
  BY <1>1 DEF Posted
<1>2. CASE CallStep
  <2>1. cur \in Game /\ cur \notin acked
    BY <1>2, CallFrame DEF Caller, Busy, Queues, Once
  <2>2. CASE Sent /\ mails' = [mails EXCEPT ![cur] = @ + 1] /\ UNCHANGED <<stray, late>>
    <3>1. acked' = acked \cup {cur}
      BY <1>0, <2>1, <2>2, SentFacts
    <3>2. \A g \in Game : mails'[g] = IF g = cur THEN mails[g] + 1 ELSE mails[g]
      BY <1>0, <2>2
    <3>3. \A g \in acked' : mails'[g] >= 1
      BY <1>0, <2>1, <3>1, <3>2
    <3>4. ASSUME NEW g \in Game
          PROVE  mails'[g] + stray'[g] <= late'[g] + (IF g \in acked' THEN 1 ELSE 0)
      <4>1. mails[g] \in Nat /\ stray[g] \in Nat /\ late[g] \in Nat
        BY <1>0
      <4>2. mails[g] + stray[g] <= late[g] + (IF g \in acked THEN 1 ELSE 0)
        BY <1>0
      <4> QED
        BY <2>1, <2>2, <3>1, <3>2, <4>1, <4>2
    <3> QED
      BY <3>3, <3>4 DEF Posted
  <2>3. CASE Failed /\ UNCHANGED <<mails, stray, late>>
    BY <1>0, <1>1, <2>3, FailedFacts
  <2>4. CASE /\ Failed /\ mails' = mails /\ late' = [late EXCEPT ![cur] = @ + 1]
             /\ stray' = [stray EXCEPT ![cur] = @ + 1]
    <3>1. acked' = acked
      BY <1>0, <2>4, FailedFacts
    <3>2. ASSUME NEW g \in Game
          PROVE  mails'[g] + stray'[g] <= late'[g] + (IF g \in acked' THEN 1 ELSE 0)
      <4>1. mails[g] \in Nat /\ stray[g] \in Nat /\ late[g] \in Nat
        BY <1>0
      <4>2. mails[g] + stray[g] <= late[g] + (IF g \in acked THEN 1 ELSE 0)
        BY <1>0
      <4>3. \/ stray'[g] = stray[g] + 1 /\ late'[g] = late[g] + 1
            \/ stray'[g] = stray[g] /\ late'[g] = late[g]
        BY <1>0, <2>4
      <4> QED
        BY <2>4, <3>1, <4>1, <4>2, <4>3
    <3> QED
      BY <1>0, <2>4, <3>1, <3>2 DEF Posted
  <2> QED
    BY <1>2, <2>2, <2>3, <2>4, CallFrame
<1>3. CASE Late
  <2>1. PICK h \in Game : Straggles(h)
    BY <1>3 DEF Late
  <2>2. /\ stray' = [stray EXCEPT ![h] = @ - 1] /\ acked' = acked /\ late' = late
        /\ mails' = mails \/ mails' = [mails EXCEPT ![h] = @ + 1]
    BY <2>1 DEF Straggles
  <2>3. ASSUME NEW g \in Game
        PROVE  /\ mails'[g] + stray'[g] <= late'[g] + (IF g \in acked' THEN 1 ELSE 0)
               /\ mails'[g] >= mails[g]
    <3>1. mails[g] \in Nat /\ stray[g] \in Nat /\ late[g] \in Nat
      BY <1>0
    <3>2. mails[g] + stray[g] <= late[g] + (IF g \in acked THEN 1 ELSE 0)
      BY <1>0
    <3>3. \/ stray'[g] = stray[g] /\ mails'[g] = mails[g]
          \/ stray'[g] = stray[g] - 1 /\ mails'[g] \in {mails[g], mails[g] + 1}
      BY <1>0, <2>2
    <3> QED
      BY <2>2, <3>1, <3>2, <3>3
  <2>4. \A g \in acked : mails'[g] \in Int /\ mails[g] \in Int
    BY <1>0, <2>2
  <2> QED
    BY <1>0, <2>2, <2>3, <2>4 DEF Posted
<1>4. CASE HookStep
  BY <1>1, <1>4, HookFrame DEF record
<1>5. CASE AskStep
  BY <1>1, <1>5, AskFrame DEF record
<1>6. CASE DrainStep \/ RaiseStep
  BY <1>1, <1>6 DEF DrainStep, Drain, RaiseStep, SendRaises, record
<1>7. CASE SendStep
  BY <1>0, <1>1, <1>7, SendFacts, WindowFacts DEF record
<1>8. CASE Restart
  BY <1>1, <1>8 DEF Restart, record
<1>9. CASE Kill
  BY <1>1, <1>9, KillFrame DEF record
<1>10. CASE Still
  BY <1>1, <1>10 DEF Still, reportVars, chainVars, record
<1> QED
  BY <1>2, <1>3, <1>4, <1>5, <1>6, <1>7, <1>8, <1>9, <1>10, StepsAre

-----------------------------------------------------------------------------
(* The quota file.                                                         *)

LEMMA QuotaStep ==
  ASSUME TypeOK, ChainTypeOK', QuotaBook, [ReportNext]_reportVars
  PROVE  QuotaBook'
<1>0. /\ ChainTypeOK /\ quota \in FileOf(Nat) /\ claims \in Nat /\ faults \in Nat /\ Ceiling \in Nat
      /\ Used \in Nat /\ Used' \in Nat /\ claims' \in Nat
      /\ Readable(quota.target) => Used = quota.target
      /\ Readable(quota'.target) => Used' = quota'.target
      /\ \A v \in Nat : Readable(v)
  <2>1. /\ ChainTypeOK /\ quota \in FileOf(Nat) /\ claims \in Nat /\ faults \in Nat
        /\ quota' \in FileOf(Nat) /\ claims' \in Nat
    BY DEF TypeOK, ChainTypeOK
  <2>2. Used \in Nat /\ (Readable(quota.target) => Used = quota.target)
    BY <2>1, UsedIsCount
  <2>3. Used' \in Nat /\ (Readable(quota'.target) => Used' = quota'.target)
    <3>1. Load(quota') \in Nat \cup {Absent, Torn}
      BY <2>1 DEF FileOf, Load
    <3> QED
      BY <3>1 DEF Used, Readable, Load
  <2>4. \A v \in Nat : Readable(v)
    BY MarkersAside DEF Readable
  <2> QED
    BY <2>1, <2>2, <2>3, <2>4, BoundsAreNaturals
<1>1. ASSUME UNCHANGED <<quota, claims>>, faults' \in {faults, faults + 1}
      PROVE  QuotaBook'
  <2>1. /\ faults' = 0 => faults = 0
        /\ faults' <= 1 => faults <= 1
        /\ Used' = Used
    BY <1>0, <1>1 DEF Used
  <2> QED
    BY <1>1, <2>1 DEF QuotaBook
\* One write that a fault falls into.
<1>2. ASSUME claims' = claims, faults' = faults + 1,
             quota' = quota \/ quota' \in LeftByKill(quota, Used + 1)
      PROVE  QuotaBook'
  <2> SUFFICES ASSUME faults' <= 1
               PROVE  claims <= Used' /\ claims <= Ceiling
    BY <1>0, <1>2 DEF QuotaBook
  <2>1. /\ Readable(quota.target) \/ (quota.target = Absent /\ claims = 0)
        /\ claims <= Used /\ claims <= Ceiling
    BY <1>0, <1>2 DEF QuotaBook
  <2>2. CASE quota' = quota
    BY <2>1, <2>2 DEF Used
  <2>3. CASE quota' \in LeftByKill(quota, Used + 1)
    <3>1. CASE Readable(quota.target)
      <4>1. PICK g : g = quota'
        OBVIOUS
      <4>2. Load(g) \in {quota.target, Used + 1}
        BY <1>0, <2>3, <3>1, <4>1, CutWrites, MarkersAside
      <4>3. quota.target = Used /\ Used + 1 \in Nat
        BY <1>0, <3>1
      <4>4. Used' \in {Used, Used + 1}
        BY <1>0, <4>1, <4>2, <4>3 DEF Used
      <4> QED
        BY <1>0, <2>1, <4>4
    <3>2. CASE claims = 0
      BY <1>0, <3>2
    <3> QED
      BY <2>1, <3>1, <3>2
  <2> QED
    BY <1>2, <2>2, <2>3
<1>3. CASE HookStep
  BY <1>1, <1>3, HookFrame DEF record
<1>4. CASE AskStep
  BY <1>1, <1>4, AskFrame DEF record
<1>5. CASE DrainStep
  BY <1>0, <1>1, <1>5 DEF DrainStep, Drain, record
<1>6. CASE SendStep
  <2>1. CASE UNCHANGED <<quota, claims>> /\ faults' = faults
    BY <1>1, <2>1
  <2>2. CASE /\ Used < Ceiling /\ quota' = Written(quota, Used + 1) /\ claims' = claims + 1
             /\ faults' = faults
    <3>1. PICK v \in Nat : v = Used + 1
      BY <1>0
    <3>2. quota'.target = v
      BY <1>0, <2>2, <3>1, WriteIsWhole
    <3>3. Used' = Used + 1 /\ Readable(quota'.target)
      BY <1>0, <3>1, <3>2
    <3> QED
      BY <1>0, <2>2, <3>3 DEF QuotaBook
  <2>3. CASE WindowEnds
    <3>1. /\ claims' = 0 /\ faults' = faults
          /\ Readable(quota.target) => quota'.target = 0
          /\ ~Readable(quota.target) => quota'.target = quota.target
      BY <1>0, <2>3, WindowFacts
    <3>2. faults = 0 => Readable(quota'.target) \/ quota'.target = Absent
      BY <1>0, <3>1 DEF QuotaBook
    <3> QED
      BY <1>0, <3>1, <3>2 DEF QuotaBook
  <2> QED
    BY <1>0, <1>6, <2>1, <2>2, <2>3, SendFacts DEF record
<1>7. CASE RaiseStep
  <2>1. faults' = faults + 1 /\ quota' \in LeftByDenial(quota, Used + 1) /\ claims' = claims
    BY <1>7 DEF RaiseStep, SendRaises, record
  <2> QED
    BY <1>2, <2>1, DeniedIsCut
<1>8. CASE CallStep
  BY <1>1, <1>8, CallFrame
<1>9. CASE Late \/ Restart \/ Still
  BY <1>0, <1>1, <1>9 DEF Late, Straggles, Restart, Still, reportVars, chainVars, record
<1>10. CASE Kill
  BY <1>2, <1>10, KillFrame DEF record
<1> QED
  BY <1>3, <1>4, <1>5, <1>6, <1>7, <1>8, <1>9, <1>10, StepsAre

-----------------------------------------------------------------------------
(* The journals.                                                           *)

\* The index that is drawn next is free, and beyond every journal.
LEMMA NextIndex ==
  ASSUME TypeOK, Caller, JournalBook, phase = "log"
  PROVE  /\ NextSubGameIndex \in Game /\ NextSubGameIndex <= game
         /\ \A n \in Game : logs[n] # Absent => n < NextSubGameIndex
<1> DEFINE S == {n \in Game : \E m \in n .. Games : logs[m] # Absent}
<1> DEFINE k == Cardinality(S)
<1>1. /\ game \in Game /\ Games \in Nat /\ Game = 1 .. Games
      /\ \A n \in Game : logs[n] # Absent => n <= game - 1
  BY BoundsAreNaturals DEF Caller, JournalBook, Game
<1>2. S \subseteq 1 .. game - 1
  <2> SUFFICES ASSUME NEW n \in Game, NEW m \in n .. Games, logs[m] # Absent
               PROVE  n \in 1 .. game - 1
    OBVIOUS
  <2>1. m \in Game /\ n <= m /\ n >= 1 /\ n \in Int /\ m \in Int
    BY <1>1
  <2>2. m <= game - 1
    BY <1>1, <2>1
  <2> QED
    BY <1>1, <2>1, <2>2
<1>3. IsFiniteSet(S) /\ k \in Nat /\ k <= game - 1
  <2>1. IsFiniteSet(1 .. game - 1) /\ Cardinality(1 .. game - 1) = game - 1
    BY <1>1, FS_Interval
  <2>2. IsFiniteSet(S) /\ k <= Cardinality(1 .. game - 1)
    BY <1>2, <2>1, FS_Subset
  <2> QED
    BY <2>1, <2>2, FS_CardinalityType
<1>4. ASSUME NEW m \in Game, logs[m] # Absent
      PROVE  m <= k
  <2>1. 1 .. m \subseteq S
    BY <1>1, <1>4
  <2>2. Cardinality(1 .. m) = m /\ m \in Nat
    BY <1>1, FS_Interval
  <2> QED
    BY <1>3, <2>1, <2>2, FS_Subset
<1>5. NextSubGameIndex = 1 + k
  BY DEF NextSubGameIndex
<1> HIDE DEF k
<1>6. \A n \in Game : logs[n] # Absent => n < 1 + k
  BY <1>1, <1>3, <1>4
<1> QED
  BY <1>1, <1>3, <1>5, <1>6

\* How game, phase and index move together.
LEMMA PhaseMoves ==
  ASSUME TypeOK, Caller, [ReportNext]_reportVars
  PROVE  /\ \/ phase = "idle" /\ phase' = "count" /\ game' = game + 1
            \/ /\ game' = game
               /\ phase' \in {"count", "log"} => phase \in {"count", "log"}
               /\ phase' = "count" => phase = "count"
               /\ phase' = "result" => phase \in {"log", "result"}
               /\ phase' = "declare" => phase \in {"result", "declare"}
               /\ phase' \in Busy => phase \notin Ahead \/ phase = "declare"
         /\ game' \in 0 .. Games /\ Listed \in Int /\ Listed' \in Int /\ Listed <= Listed'
<1>0. /\ game \in 0 .. Games /\ Games \in Nat /\ phase \in Phases /\ slice \in Seq(Game) /\ ChainTypeOK
      /\ phase \in Busy => cur \in Game
  BY BoundsAreNaturals DEF TypeOK, HookTypeOK, ChainTypeOK, Caller
<1> DEFINE Q == \/ phase = "idle" /\ phase' = "count" /\ game' = game + 1
                \/ /\ game' = game
                   /\ phase' \in {"count", "log"} => phase \in {"count", "log"}
                   /\ phase' = "count" => phase = "count"
                   /\ phase' = "result" => phase \in {"log", "result"}
                   /\ phase' = "declare" => phase \in {"result", "declare"}
                   /\ phase' \in Busy => phase \notin Ahead \/ phase = "declare"
<1>1. CASE HookStep
  <2>1. Q /\ (phase = "idle" => game < Games)
    BY <1>0, <1>1 DEF HookStep, GameEnds, Counted, CountDenied, Journalled,
       JournalDenied, Recorded, RecordDenied, Refused, ChainRefused, Step, Busy
  <2>2. phase = "idle" => phase' = "count"
    BY <1>1 DEF HookStep, GameEnds, Counted, CountDenied, Journalled,
       JournalDenied, Recorded, RecordDenied, Refused, ChainRefused, Step
  <2> QED
    BY <1>0, <2>1, <2>2 DEF Listed
<1>2. CASE ~HookStep
  <2>1. game' = game /\ (phase' = phase \/ phase' \notin Ahead)
                     /\ (phase' \in Busy => phase \notin Ahead \/ phase = "declare" \/ phase' = phase)
    <3>1. CASE AskStep
      BY <3>1, AskFrame DEF Ahead
    <3>2. CASE DrainStep
      BY <3>2 DEF DrainStep, Drain, Goto, Keep, Ahead
    <3>3. CASE SendStep
      <4>1. game' = game
        BY <3>3 DEF SendStep, Keep
      <4>2. CASE Refuse /\ phase = "send"
        BY <4>1, <4>2 DEF Refuse, Goto, Ahead
      <4> QED
        BY <1>0, <3>3, <4>1, <4>2, SendFacts, WindowFacts DEF Ahead
    <3>4. CASE RaiseStep
      BY <3>4 DEF RaiseStep, SendRaises, Sending, Goto, Ahead
    <3>5. CASE CallStep
      <4>1. game' = game /\ phase = "call"
        BY <3>5, CallFrame
      <4>2. CASE Sent
        BY <4>1, <4>2 DEF Sent, Goto, Ahead
      <4>3. CASE Failed
        <5>1. CASE Refuse
          BY <4>1, <5>1 DEF Refuse, Goto, Ahead
        <5> QED
          BY <1>0, <4>1, <4>3, <5>1, FailedFacts DEF Ahead
      <4> QED
        BY <3>5, <4>2, <4>3, CallFrame
    <3>6. CASE Late \/ Restart \/ Still
      BY <3>6 DEF Late, Straggles, Restart, Still, reportVars, chainVars, Keep, Ahead
    <3>7. CASE Kill
      BY <3>7, KillFrame DEF Ahead, Busy
    <3> QED
      BY <1>2, <3>1, <3>2, <3>3, <3>4, <3>5, <3>6, <3>7, StepsAre
  <2> QED
    BY <1>0, <2>1 DEF Listed, Ahead, Busy
<1> QED
  BY <1>1, <1>2

\* How the journals grow: by one, the next, and otherwise not at all.
LEMMA JournalMoves ==
  ASSUME TypeOK, Caller, JournalBook, [ReportNext]_reportVars
  PROVE  /\ \/ logs' = logs
            \/ phase = "log" /\ \E left \in {Absent, Torn, game} :
                 logs' = [logs EXCEPT ![NextSubGameIndex] = left]
         /\ \/ index' = index /\ ~(phase = "log" /\ phase' = "result")
            \/ /\ phase = "log" /\ phase' = "result" /\ game' = game /\ index' = NextSubGameIndex
               /\ logs' = [logs EXCEPT ![NextSubGameIndex] = game]
<1>1. CASE Journalled
  BY <1>1 DEF Journalled, Step
<1>2. CASE ~Journalled /\ HookStep
  BY <1>2 DEF HookStep, GameEnds, Counted, CountDenied, JournalDenied, Recorded, RecordDenied, Refused, ChainRefused, Step, files
<1>3. CASE AskStep
  BY <1>3, AskFrame
<1>4. CASE DrainStep \/ SendStep \/ RaiseStep \/ Late \/ Restart \/ Still
  <2>1. logs' = logs /\ index' = index
    BY <1>4 DEF DrainStep, SendStep, RaiseStep, Late, Restart, Still, reportVars, Keep, files
  <2>2. ~(phase = "log" /\ phase' = "result")
    <3>1. CASE DrainStep \/ RaiseStep \/ Restart
      BY <3>1 DEF DrainStep, Drain, RaiseStep, SendRaises, Sending, Restart
    <3>2. CASE Late \/ Still
      BY <3>2 DEF Late, Straggles, Still, reportVars, chainVars
    <3>3. CASE SendStep
      <4>1. CASE Refuse /\ phase = "send"
        BY <4>1
      <4> QED
        BY <3>3, <4>1, SendFacts, WindowFacts DEF TypeOK
    <3> QED
      BY <1>4, <3>1, <3>2, <3>3
  <2> QED
    BY <2>1, <2>2
<1>5. CASE CallStep
  BY <1>5, CallFrame
<1>6. CASE Kill
  BY <1>6, KillFrame
<1> QED
  BY <1>1, <1>2, <1>3, <1>4, <1>5, <1>6, StepsAre

LEMMA JournalStep ==
  ASSUME TypeOK, Caller, JournalBook, [ReportNext]_reportVars
  PROVE  /\ JournalBook'
         /\ logs' \in [Game -> Game \cup {Absent, Torn}] /\ index' \in 0 .. Games
         /\ \A n \in Game : logs[n] # Absent => logs'[n] = logs[n]
<1> DEFINE Bound == IF phase \in {"count", "log"} THEN game - 1 ELSE game
<1>0. /\ logs \in [Game -> Game \cup {Absent, Torn}] /\ index \in 0 .. Games
      /\ game \in 0 .. Games /\ Games \in Nat /\ Game = 1 .. Games
      /\ phase # "idle" => game \in Game
      /\ \A n \in Game : logs[n] # Absent => n <= Bound
  BY BoundsAreNaturals DEF TypeOK, HookTypeOK, Caller, JournalBook, Game
<1>1. Bound \in Int /\ Bound' \in Int /\ Bound <= Bound'
  BY <1>0, PhaseMoves
<1>2. CASE logs' = logs /\ index' = index /\ ~(phase = "log" /\ phase' = "result")
  <2>1. \A n \in Game : logs'[n] # Absent => n <= Bound'
    BY <1>0, <1>1, <1>2
  <2>2. phase' = "result" => phase = "result" /\ game' = game
    BY <1>2, PhaseMoves
  <2> QED
    BY <1>0, <1>2, <2>1, <2>2 DEF JournalBook
<1>3. CASE phase = "log"
  <2>1. PICK k \in Game : k = NextSubGameIndex
    BY <1>3, NextIndex
  <2>2. k <= game /\ \A n \in Game : logs[n] # Absent => n < k
    BY <1>3, <2>1, NextIndex
  <2>3. game' = game /\ (phase' = "log" => Bound' = game - 1) /\ (phase' # "log" => Bound' = game)
    BY <1>3, PhaseMoves
  <2>4. CASE logs' = logs /\ ~(phase' = "result")
    BY <1>2, <1>3, <2>4, JournalMoves
  <2>5. ASSUME NEW left \in {Absent, Torn, game}, logs' = [logs EXCEPT ![k] = left], phase' # "log"
        PROVE  /\ \A n \in Game : logs'[n] # Absent => n <= Bound'
               /\ logs' \in [Game -> Game \cup {Absent, Torn}]
               /\ \A n \in Game : logs[n] # Absent => logs'[n] = logs[n]
    <3>1. game \in Game /\ left \in Game \cup {Absent, Torn}
      BY <1>0, <1>3
    <3>2. \A n \in Game : logs'[n] = IF n = k THEN left ELSE logs[n]
      BY <1>0, <2>1, <2>5
    <3>3. \A n \in Game : logs'[n] # Absent => n <= k
      BY <1>0, <2>1, <2>2, <3>2
    <3>4. logs' \in [Game -> Game \cup {Absent, Torn}]
      BY <1>0, <2>1, <2>5, <3>1
    <3>5. \A n \in Game : logs[n] # Absent => logs'[n] = logs[n]
      BY <1>0, <2>1, <2>2, <3>2
    <3> QED
      BY <1>0, <2>1, <2>2, <2>3, <2>5, <3>3, <3>4, <3>5
  <2>6. CASE logs' # logs \/ phase' = "result"
    <3>1. phase' # "log"
      <4>1. CASE HookStep
        BY <1>3, <2>6, <4>1 DEF HookStep, GameEnds, Counted, CountDenied, Journalled,
           JournalDenied, Recorded, RecordDenied, Refused, ChainRefused, Step, files
      <4>2. CASE Kill
        BY <4>2, KillFrame
      <4>3. CASE ~HookStep /\ ~Kill /\ phase' # "result"
        <5>1. logs' = logs
          <6>1. CASE AskStep
            BY <6>1, AskFrame
          <6>2. CASE CallStep
            BY <6>2, CallFrame
          <6> QED
            BY <4>3, <6>1, <6>2, StepsAre
               DEF DrainStep, SendStep, RaiseStep, Late, Restart, Still, reportVars, Keep, files
        <5> QED
          BY <2>6, <4>3, <5>1
      <4> QED
        BY <4>1, <4>2, <4>3
    <3>2. CASE phase' = "result"
      <4>1. index' = k /\ logs' = [logs EXCEPT ![k] = game]
        BY <1>3, <2>1, <3>2, JournalMoves
      <4>2. logs'[k] = game /\ \A n \in Game : n > k => logs'[n] = Absent
        <5>1. \A n \in Game : n > k => logs[n] = Absent
          BY <1>0, <2>1, <2>2
        <5> QED
          BY <1>0, <2>1, <4>1, <5>1
      <4> QED
        BY <1>0, <2>1, <2>3, <2>5, <3>1, <3>2, <4>1, <4>2 DEF JournalBook
    <3>3. CASE phase' # "result"
      <4>1. index' = index
        BY <3>3, JournalMoves
      <4>2. PICK left \in {Absent, Torn, game} : logs' = [logs EXCEPT ![k] = left]
        BY <2>1, <2>6, <3>3, JournalMoves
      <4> QED
        BY <1>0, <2>5, <3>1, <3>3, <4>1, <4>2 DEF JournalBook
    <3> QED
      BY <3>2, <3>3
  <2> QED
    BY <2>4, <2>6
<1> QED
  BY <1>2, <1>3, JournalMoves

-----------------------------------------------------------------------------
(* The series file and the reports.                                        *)

LEMMA SeriesRead ==
  ASSUME TypeOK, SeriesBook
  PROVE  /\ ReadSeries \in Seq(Entry) /\ WellKept(ReadSeries)
         /\ Readable(series.target) => ReadSeries = series.target
<1>1. series \in FileOf(Seq(Entry))
  BY DEF TypeOK, HookTypeOK
<1>2. <<>> \in Seq(Entry) /\ WellKept(<<>>)
  <2>1. <<>> \in Seq(Entry) /\ DOMAIN <<>> = {}
    BY EmptySeq, SeqFacts
  <2> QED
    BY <2>1 DEF WellKept, Journals
<1>3. CASE Readable(series.target)
  <2>1. ReadSeries = series["target"] /\ series["target"] \in Seq(Entry)
    BY <1>1, <1>3 DEF ReadSeries, Entries, Load, Readable, FileOf
  <2> QED
    BY <1>3, <2>1 DEF SeriesBook
<1>4. CASE ~Readable(series.target) /\ Readable(series.prev)
  <2>1. ReadSeries = series["prev"] /\ series["prev"] \in Seq(Entry)
    BY <1>1, <1>4 DEF ReadSeries, Entries, Load, Readable, FileOf
  <2> QED
    BY <1>4, <2>1 DEF SeriesBook
<1>5. CASE ~Readable(series.target) /\ ~Readable(series.prev)
  <2>1. ReadSeries = <<>>
    BY <1>5 DEF ReadSeries, Entries, Load
  <2> QED
    BY <1>2, <1>5, <2>1
<1> QED
  BY <1>3, <1>4, <1>5

\* The game that is recorded comes behind all that were, and so does its journal.
LEMMA NextSeriesKept ==
  ASSUME TypeOK, Caller, JournalBook, SeriesBook, phase = "result"
  PROVE  /\ NextSeries \in Seq(Entry) /\ Journals(NextSeries)
         /\ \A i \in DOMAIN NextSeries : NextSeries[i].game <= game
         /\ GamesIn(NextSeries) = GamesIn(ReadSeries) \cup {game}
<1>1. PICK s \in Seq(Entry) : s = ReadSeries
  BY SeriesRead
<1>2. PICK e : e = [index |-> index, game |-> game]
  OBVIOUS
<1>3. /\ game \in Game /\ index \in Game /\ Game = 1 .. Games /\ Games \in Nat
      /\ logs[index] = game /\ \A n \in Game : n > index => logs[n] = Absent
      /\ Absent \notin Game
  BY MarkersAside, BoundsAreNaturals DEF Caller, JournalBook, Game
<1>4. e \in Entry /\ e.index = index /\ e.game = game
  BY <1>2, <1>3 DEF Entry
<1>5. /\ Journals(s) /\ \A i \in DOMAIN s : s[i].game <= game - 1
  BY <1>1, SeriesRead DEF WellKept, Listed
<1>6. /\ DOMAIN s = 1 .. Len(s) /\ Len(s) \in Nat
      /\ \A i \in DOMAIN s : s[i] \in Entry
  BY SeqFacts
<1>7. ASSUME NEW i \in DOMAIN s
      PROVE  /\ s[i].index \in Game /\ s[i].game \in Game
             /\ s[i].index < index /\ s[i].game < game /\ logs[s[i].index] = s[i].game
  <2>1. /\ s[i].index \in Game /\ s[i].game \in Game /\ logs[s[i].index] = s[i].game
        /\ s[i].game <= game - 1
    BY <1>5, <1>6 DEF Entry, Journals
  <2>2. s[i].game < game /\ s[i].game # game /\ s[i].index # index
    BY <1>3, <2>1
  <2>3. ~(s[i].index > index)
    BY <1>3, <2>1
  <2> QED
    BY <1>3, <2>1, <2>2, <2>3
<1>8. PICK t : t = Append(s, e)
  OBVIOUS
<1>9. /\ t \in Seq(Entry) /\ DOMAIN t = 1 .. Len(s) + 1
      /\ \A i \in DOMAIN s : i \in DOMAIN t /\ t[i] = s[i]
      /\ t[Len(s) + 1] = e
      /\ \A i \in DOMAIN t : i \in DOMAIN s \/ i = Len(s) + 1
  BY <1>4, <1>8, AppendFacts
<1>10. NextSeries = t
  BY <1>1, <1>2, <1>8 DEF NextSeries
<1>11. ASSUME NEW i \in DOMAIN t
       PROVE  /\ logs[t[i].index] = t[i].game /\ t[i].game <= game
              /\ \A j \in 1 .. i - 1 : t[j].index < t[i].index /\ t[j].game < t[i].game
  <2>1. CASE i \in DOMAIN s
    <3>1. \A j \in 1 .. i - 1 : j \in DOMAIN s
      BY <1>6, <2>1
    <3>2. \A j \in 1 .. i - 1 : s[j].index < s[i].index /\ s[j].game < s[i].game
      BY <1>5, <2>1 DEF Journals
    <3>3. logs[t[i].index] = t[i].game /\ t[i].game <= game
      BY <1>3, <1>7, <1>9, <2>1
    <3> QED
      BY <1>9, <2>1, <3>1, <3>2, <3>3
  <2>2. CASE i = Len(s) + 1
    <3>1. \A j \in 1 .. i - 1 : j \in DOMAIN s
      BY <1>6, <2>2
    <3>2. t[i] = e
      BY <1>9, <2>2
    <3> QED
      BY <1>3, <1>4, <1>7, <1>9, <3>1, <3>2
  <2> QED
    BY <1>9, <2>1, <2>2
<1>12. GamesIn(t) = GamesIn(s) \cup {game}
  <2>1. ASSUME NEW x
        PROVE  x \in GamesIn(t) <=> x \in GamesIn(s) \cup {game}
    <3>1. x \in GamesIn(t) <=> \E i \in DOMAIN t : x = t[i].game
      BY DEF GamesIn
    <3>2. x \in GamesIn(s) <=> \E i \in DOMAIN s : x = s[i].game
      BY DEF GamesIn
    <3>3. Len(s) + 1 \in DOMAIN t
      BY <1>6, <1>9
    <3>4. (\E i \in DOMAIN t : x = t[i].game) <=> (\E i \in DOMAIN s : x = s[i].game) \/ x = game
      BY <1>4, <1>9, <3>3
    <3> QED
      BY <3>1, <3>2, <3>4
  <2> QED
    BY <2>1
<1> QED
  BY <1>1, <1>9, <1>10, <1>11, <1>12 DEF Journals

\* A series stays well kept while the journals grow and the games go on.
LEMMA WellKeptStays ==
  ASSUME TypeOK, NEW s \in Seq(Entry), Journals(s),
         \A i \in DOMAIN s : s[i].game <= Listed',
         \A n \in Game : logs[n] # Absent => logs'[n] = logs[n]
  PROVE  WellKept(s)'
<1>1. \A i \in DOMAIN s : s[i] \in Entry
  BY SeqFacts
<1>2. Absent \notin Game
  BY MarkersAside
<1>3. ASSUME NEW i \in DOMAIN s
      PROVE  logs'[s[i].index] = s[i].game
  <2>1. s[i].index \in Game /\ s[i].game \in Game /\ logs[s[i].index] = s[i].game
    BY <1>1 DEF Journals, Entry
  <2> QED
    BY <1>2, <2>1
<1>4. \A i \in DOMAIN s : \A j \in 1 .. i - 1 : s[j].index < s[i].index /\ s[j].game < s[i].game
  BY DEF Journals
<1> QED
  BY <1>3, <1>4 DEF WellKept, Journals

\* What is written over the series file, and by whom.
Source(v) ==
  \/ phase = "result" /\ v = NextSeries /\ phase' # "result" /\ game' = game
  \/ phase = "call" /\ sink = "dry_run" /\ cur \in Game /\ v = report[cur] /\ game' = game

LEMMA SeriesMoves ==
  ASSUME TypeOK, Caller, [ReportNext]_reportVars
  PROVE  /\ faults' \in {faults, faults + 1}
         /\ \/ series' = series
            \/ \E v : /\ Source(v)
                      /\ \/ faults' = faults /\ series' = Written(series, v)
                         \/ faults' = faults + 1 /\ series' \in LeftByKill(series, v)
         /\ \/ report' = report /\ recorded' = recorded /\ ~(phase = "result" /\ phase' = "declare")
            \/ /\ phase = "result" /\ phase' = "declare" /\ recorded' = recorded \cup {game}
               /\ report' = [report EXCEPT ![game] = NextSeries] /\ faults' = faults
               /\ series' = Written(series, NextSeries)
<1>0. ChainTypeOK /\ faults \in Nat
  BY DEF TypeOK, ChainTypeOK
<1>1. CASE Recorded
  BY <1>1 DEF Recorded, Step, Source
<1>2. CASE RecordDenied
  <2>1. /\ phase = "result" /\ phase' = "idle" /\ faults' = faults + 1 /\ game' = game
        /\ series' \in LeftByDenial(series, NextSeries) /\ report' = report /\ recorded' = recorded
    BY <1>2 DEF RecordDenied, Step, Denied
  <2> QED
    BY <2>1, DeniedIsCut DEF Source
<1>3. CASE HookStep /\ ~Recorded /\ ~RecordDenied
  <2>1. series' = series /\ report' = report /\ recorded' = recorded
    BY <1>3 DEF HookStep, GameEnds, Counted, CountDenied, Journalled, JournalDenied, Refused, ChainRefused,
       files
  <2>2. phase # "result"
    BY <1>3 DEF HookStep, GameEnds, Counted, CountDenied, Journalled, JournalDenied, Refused, ChainRefused,
       Step
  <2> QED
    BY <1>3, <2>1, <2>2, HookFrame
<1>4. CASE AskStep
  BY <1>4, AskFrame
<1>5. CASE DrainStep \/ SendStep \/ RaiseStep \/ Late \/ Restart \/ Still
  <2>1. series' = series /\ report' = report /\ recorded' = recorded
    BY <1>5 DEF DrainStep, SendStep, RaiseStep, Late, Restart, Still, reportVars, Keep, files
  <2>2. faults' \in {faults, faults + 1} /\ ~(phase = "result" /\ phase' = "declare")
    <3>1. CASE DrainStep \/ RaiseStep \/ Restart
      BY <3>1 DEF DrainStep, Drain, RaiseStep, SendRaises, Sending, Restart
    <3>2. CASE Late \/ Still
      BY <3>2 DEF Late, Straggles, Still, reportVars, chainVars
    <3>3. CASE SendStep
      <4>1. faults' = faults
        BY <1>0, <3>3, SendFacts, WindowFacts
      <4>2. phase = "result" => phase' = "result"
        BY <1>0, <3>3, SendFacts, WindowFacts
      <4> QED
        BY <4>1, <4>2
    <3> QED
      BY <1>5, <3>1, <3>2, <3>3
  <2> QED
    BY <2>1, <2>2
<1>6. CASE CallStep
  <2>1. /\ phase = "call" /\ cur \in Game /\ game' = game /\ report' = report /\ recorded' = recorded
        /\ faults' \in {faults, faults + 1}
    BY <1>6, CallFrame DEF Caller, Busy
  <2>2. \/ series' = series
        \/ sink = "dry_run" /\ faults' = faults /\ series' = Written(series, report[cur])
        \/ sink = "dry_run" /\ faults' = faults + 1 /\ series' \in LeftByKill(series, report[cur])
    BY <1>6, CallFrame, DeniedIsCut
  <2> QED
    BY <2>1, <2>2 DEF Source
<1>7. CASE Kill
  BY <1>7, KillFrame DEF Source, Caller, Busy
<1> QED
  BY <1>1, <1>2, <1>3, <1>4, <1>5, <1>6, <1>7, StepsAre DEF HookStep

LEMMA SourceKept ==
  ASSUME TypeOK, Caller, JournalBook, SeriesBook, [ReportNext]_reportVars, NEW v, Source(v)
  PROVE  v \in Seq(Entry) /\ Journals(v) /\ \A i \in DOMAIN v : v[i].game <= Listed'
<1>1. CASE phase = "result" /\ v = NextSeries /\ phase' # "result" /\ game' = game
  <2>1. Listed' = game
    BY <1>1, PhaseMoves DEF Listed
  <2> QED
    BY <1>1, <2>1, NextSeriesKept
<1>2. CASE cur \in Game /\ v = report[cur]
  <2>1. v \in Seq(Entry) /\ WellKept(v)
    BY <1>2 DEF TypeOK, HookTypeOK, SeriesBook
  <2>2. \A i \in DOMAIN v : v[i].game \in Int
    <3>1. \A i \in DOMAIN v : v[i] \in Entry
      BY <2>1, SeqFacts
    <3> QED
      BY <3>1 DEF Entry, Game
  <2>3. Listed \in Int /\ Listed' \in Int /\ Listed <= Listed'
    BY PhaseMoves
  <2> QED
    BY <2>1, <2>2, <2>3 DEF WellKept
<1> QED
  BY <1>1, <1>2 DEF Source

LEMMA SeriesStep ==
  ASSUME TypeOK, Caller, JournalBook, SeriesBook, [ReportNext]_reportVars
  PROVE  /\ SeriesBook'
         /\ series' \in FileOf(Seq(Entry)) /\ report' \in [Game -> Seq(Entry)]
<1> DEFINE Kept(v) == v \in Seq(Entry) /\ Journals(v) /\ \A i \in DOMAIN v : v[i].game <= Listed'
<1>0. /\ series \in FileOf(Seq(Entry)) /\ report \in [Game -> Seq(Entry)]
      /\ Listed \in Int /\ Listed' \in Int /\ Listed <= Listed'
      /\ \A n \in Game : logs[n] # Absent => logs'[n] = logs[n]
      /\ Absent \notin Seq(Entry) /\ Torn \notin Seq(Entry)
  BY PhaseMoves, JournalStep, MarkersAside DEF TypeOK, HookTypeOK
<1>1. ASSUME NEW v \in Seq(Entry), WellKept(v)
      PROVE  Kept(v)
  <2>1. \A i \in DOMAIN v : v[i].game \in Int
    <3>1. \A i \in DOMAIN v : v[i] \in Entry
      BY SeqFacts
    <3> QED
      BY <3>1 DEF Entry, Game
  <2> QED
    BY <1>0, <1>1, <2>1 DEF WellKept
<1>2. ASSUME NEW v, Kept(v)
      PROVE  WellKept(v)'
  BY <1>0, <1>2, WellKeptStays
<1>3. \A k \in {"tmp", "target", "prev"} : series[k] \in Seq(Entry) \cup {Absent, Torn}
  BY <1>0 DEF FileOf
<1>4. ASSUME NEW k \in {"tmp", "target", "prev"}, Readable(series[k])
      PROVE  Kept(series[k])
  <2>1. PICK v : v = series[k]
    OBVIOUS
  <2>2. v \in Seq(Entry) /\ WellKept(v)
    BY <1>3, <1>4, <2>1 DEF Readable, SeriesBook
  <2> QED
    BY <1>1, <2>1, <2>2
<1>5. series' \in FileOf(Seq(Entry)) /\ \A k \in {"tmp", "target", "prev"} :
                                          Readable(series'[k]) => Kept(series'[k])
  <2>1. CASE series' = series
    BY <1>0, <1>4, <2>1
  <2>2. CASE series' # series
    <3>1. PICK v : /\ Source(v)
                   /\ series' = Written(series, v) \/ series' \in LeftByKill(series, v)
      BY <2>2, SeriesMoves
    <3>2. Kept(v)
      BY <3>1, SourceKept
    <3>3. PICK g : g = series'
      OBVIOUS
    <3>4. g \in LeftByKill(series, v)
      BY <3>1, <3>3, DeniedIsCut
    <3>5. /\ g \in FileOf(Seq(Entry))
          /\ \A k \in {"tmp", "target", "prev"} :
               g[k] \in {series.tmp, series.target, series.prev, v, Absent, Torn}
      BY <1>0, <3>2, <3>4, CutWrites
    <3>6. ASSUME NEW k \in {"tmp", "target", "prev"}, Readable(g[k])
          PROVE  Kept(g[k])
      <4>1. \/ g[k] = v
            \/ \E l \in {"tmp", "target", "prev"} : g[k] = series[l]
        BY <3>5, <3>6 DEF Readable
      <4>2. CASE \E l \in {"tmp", "target", "prev"} : g[k] = series[l]
        <5>1. PICK l \in {"tmp", "target", "prev"} : g[k] = series[l]
          BY <4>2
        <5>2. Readable(series[l])
          BY <3>6, <5>1
        <5>3. Kept(series[l])
          BY <1>4, <5>2
        <5> QED
          BY <5>1, <5>3
      <4> QED
        BY <3>2, <4>1, <4>2
    <3> QED
      BY <3>3, <3>5, <3>6
  <2> QED
    BY <2>1, <2>2
<1>6. report' \in [Game -> Seq(Entry)] /\ \A g \in Game : Kept(report'[g])
  <2>1. \A g \in Game : Kept(report[g])
    <3> SUFFICES ASSUME NEW g \in Game
                 PROVE  Kept(report[g])
      OBVIOUS
    <3>1. PICK v : v = report[g]
      OBVIOUS
    <3>2. v \in Seq(Entry) /\ WellKept(v)
      BY <1>0, <3>1 DEF SeriesBook
    <3> QED
      BY <1>1, <3>1, <3>2
  <2>2. CASE report' = report
    BY <1>0, <2>1, <2>2
  <2>3. CASE /\ phase = "result" /\ phase' = "declare" /\ report' = [report EXCEPT ![game] = NextSeries]
    <3>1. PICK v : v = NextSeries
      OBVIOUS
    <3>2. game' = game
      BY <2>3, PhaseMoves
    <3>3. Kept(v)
      BY <2>3, <3>1, <3>2, SourceKept DEF Source
    <3>4. \A g \in Game : report'[g] = IF g = game THEN v ELSE report[g]
      BY <1>0, <2>3, <3>1
    <3>5. report' \in [Game -> Seq(Entry)]
      BY <1>0, <2>3, <3>1, <3>3
    <3>6. ASSUME NEW g \in Game
          PROVE  Kept(report'[g])
      <4>1. CASE g = game
        BY <3>3, <3>4, <4>1
      <4>2. CASE g # game
        <5>1. Kept(report[g]) /\ report'[g] = report[g]
          BY <2>1, <3>4, <4>2
        <5> QED
          BY <5>1
      <4> QED
        BY <4>1, <4>2
    <3> QED
      BY <3>5, <3>6
  <2> QED
    BY <2>2, <2>3, SeriesMoves
<1> HIDE DEF Kept
<1>7. \A k \in {"tmp", "target", "prev"} : Readable(series'[k]) => WellKept(series[k])'
  <2> SUFFICES ASSUME NEW k \in {"tmp", "target", "prev"}, Readable(series'[k])
               PROVE  WellKept(series[k])'
    OBVIOUS
  <2>1. PICK v : v = series'[k]
    OBVIOUS
  <2>2. Kept(v)
    BY <1>5, <2>1
  <2>3. WellKept(v)'
    BY <1>2, <2>2
  <2> QED
    BY <2>1, <2>3 DEF WellKept, Journals
<1>8. \A g \in Game : WellKept(report[g])'
  <2> SUFFICES ASSUME NEW g \in Game
               PROVE  WellKept(report[g])'
    OBVIOUS
  <2>1. PICK v : v = report'[g]
    OBVIOUS
  <2>2. Kept(v)
    BY <1>6, <2>1
  <2>3. WellKept(v)'
    BY <1>2, <2>2
  <2> QED
    BY <2>1, <2>3 DEF WellKept, Journals
<1> QED
  BY <1>5, <1>6, <1>7, <1>8 DEF SeriesBook, Readable

LEMMA HookTypes ==
  ASSUME TypeOK, Caller, JournalBook, SeriesBook, [ReportNext]_reportVars
  PROVE  HookTypeOK'
<1>0. /\ sink \in Sinks /\ recorded \subseteq Game /\ asked \subseteq Game /\ struck \subseteq Game
      /\ phase # "idle" => game \in Game
      /\ phase \in Busy => cur \in Game
  BY DEF TypeOK, HookTypeOK, Caller
<1>1. recorded' \subseteq Game
  <2>1. recorded' = recorded \/ (phase = "result" /\ recorded' = recorded \cup {game})
    BY SeriesMoves
  <2> QED
    BY <1>0, <2>1
<1>2. sink' = sink /\ (asked' = asked \/ (game \in Game /\ asked' = asked \cup {game}))
      /\ (struck' = struck \/ (game \in Game /\ struck' = struck \cup {game})
                           \/ (cur \in Game /\ struck' = struck \cup {cur}))
  <2>1. CASE HookStep
    BY <1>0, <2>1 DEF HookStep, GameEnds, Counted, CountDenied, Journalled, JournalDenied,
       Recorded, RecordDenied, Refused, ChainRefused, Step, Denied, files
  <2>2. CASE AskStep
    BY <1>0, <2>2, AskFrame
  <2>3. CASE DrainStep \/ SendStep \/ Late \/ Restart \/ Still
    BY <2>3 DEF DrainStep, SendStep, Late, Restart, Still, reportVars, Keep, files
  <2>4. CASE RaiseStep
    BY <1>0, <2>4 DEF RaiseStep, SendRaises, Sending, Busy, files
  <2>5. CASE CallStep
    BY <2>5, CallFrame
  <2>6. CASE Kill
    BY <1>0, <2>6, KillFrame
  <2> QED
    BY <2>1, <2>2, <2>3, <2>4, <2>5, <2>6, StepsAre
<1>3. game' \in 0 .. Games
  BY PhaseMoves
<1>4. sink' \in Sinks /\ asked' \subseteq Game /\ struck' \subseteq Game
  BY <1>0, <1>2
<1> QED
  BY <1>1, <1>3, <1>4, JournalStep, SeriesStep DEF HookTypeOK

-----------------------------------------------------------------------------
(* What is on record.                                                      *)

LEMMA RecordStep ==
  ASSUME TypeOK, HookTypeOK', Caller, JournalBook, SeriesBook, SeriesBook', RecordBook,
         [ReportNext]_reportVars
  PROVE  RecordBook'
<1>0. /\ series \in FileOf(Seq(Entry)) /\ series' \in FileOf(Seq(Entry))
      /\ Absent \notin Seq(Entry) /\ Torn \notin Seq(Entry)
      /\ faults \in Nat /\ faults' \in {faults, faults + 1}
      /\ phase # "idle" => game \in Game
      /\ report \in [Game -> Seq(Entry)]
      /\ \A v \in Seq(Entry) : Readable(v)
  BY MarkersAside, SeriesMoves DEF TypeOK, HookTypeOK, ChainTypeOK, Caller, Readable
<1>1. /\ faults' = 0 => faults = 0 /\ faults' = faults
      /\ faults' <= 1 => faults <= 1 /\ (faults' # faults => faults = 0)
  BY <1>0
\* A series that holds every recorded game, whole or cut short.
<1>2. ASSUME NEW v \in Seq(Entry), faults' <= 1, recorded' \subseteq GamesIn(v),
             recorded \subseteq recorded',
             \/ faults' = faults /\ series' = Written(series, v)
             \/ faults' = faults + 1 /\ series' \in LeftByKill(series, v) /\ recorded' = recorded
      PROVE  /\ recorded' \subseteq GamesIn(ReadSeries')
             /\ faults' = 0 => Readable(series'.target)
  <2>1. CASE faults' = faults /\ series' = Written(series, v)
    <3>1. series'.target = v
      BY <1>0, <2>1, WriteIsWhole
    <3>2. Readable(series'.target) /\ ReadSeries' = v
      BY <1>0, <3>1 DEF ReadSeries, Entries, Load
    <3> QED
      BY <1>2, <3>2
  <2>2. CASE faults' = faults + 1 /\ series' \in LeftByKill(series, v) /\ recorded' = recorded
    <3>1. /\ faults = 0
          /\ Readable(series.target) \/ (series.target = Absent /\ recorded = {})
          /\ recorded \subseteq GamesIn(ReadSeries)
      BY <1>0, <1>2, <2>2 DEF RecordBook
    <3>2. CASE Readable(series.target)
      <4>1. PICK g : g = series'
        OBVIOUS
      <4>2. Load(g) \in {series.target, v}
        BY <1>0, <2>2, <3>2, <4>1, CutWrites
      <4>3. series.target = ReadSeries /\ series.target \in Seq(Entry)
        BY <1>0, <3>2, SeriesRead DEF FileOf, Readable
      <4>4. ReadSeries' = Load(g)
        BY <1>0, <4>1, <4>2, <4>3 DEF ReadSeries, Entries
      <4> QED
        BY <1>0, <1>2, <2>2, <3>1, <4>2, <4>3, <4>4
    <3>3. CASE recorded = {}
      BY <1>0, <2>2, <3>1, <3>3
    <3> QED
      BY <3>1, <3>2, <3>3
  <2> QED
    BY <1>2, <2>1, <2>2
\* The report a dry run is about to write.
<1>3. faults' <= 1 /\ (phase' = "declare" \/ (sink' = "dry_run" /\ phase' \in Busy)) =>
        recorded' \subseteq GamesIn(report'[game'])
  <2> SUFFICES ASSUME faults' <= 1, phase' = "declare" \/ (sink' = "dry_run" /\ phase' \in Busy)
               PROVE  recorded' \subseteq GamesIn(report'[game'])
    OBVIOUS
  <2>0. game' = game
    BY PhaseMoves DEF Busy
  <2>1. CASE /\ phase = "result" /\ phase' = "declare" /\ recorded' = recorded \cup {game}
             /\ report' = [report EXCEPT ![game] = NextSeries]
    <3>1. recorded \subseteq GamesIn(ReadSeries) /\ GamesIn(NextSeries) = GamesIn(ReadSeries) \cup {game}
      BY <1>1, <2>1, NextSeriesKept DEF RecordBook
    <3>2. report'[game] = NextSeries
      BY <1>0, <2>1
    <3> QED
      BY <2>0, <2>1, <3>1, <3>2
  <2>2. CASE report' = report /\ recorded' = recorded /\ ~(phase = "result" /\ phase' = "declare")
    <3>1. phase' = "declare" => phase = "declare"
      BY <2>2, PhaseMoves
    <3>2. sink' = "dry_run" /\ phase' \in Busy => sink = "dry_run" /\ (phase \in Busy \/ phase = "declare")
      <4> SUFFICES ASSUME sink' = "dry_run", phase' \in Busy
                   PROVE  sink = "dry_run" /\ (phase \in Busy \/ phase = "declare")
        OBVIOUS
      <4>1. CASE HookStep
        BY <4>1, HookFrame
      <4>2. CASE AskStep
        BY <4>2, AskFrame
      <4>3. CASE DrainStep
        BY <4>3 DEF DrainStep, Keep
      <4>4. CASE SendStep
        <5>1. phase' = phase \/ phase \in Busy
          BY <4>4, SendFacts, WindowFacts DEF Busy, TypeOK
        <5> QED
          BY <4>4, <5>1 DEF SendStep, Keep
      <4>5. CASE RaiseStep
        BY <4>5 DEF RaiseStep, SendRaises, Goto, Busy
      <4>6. CASE CallStep
        BY <4>6, CallFrame DEF Busy
      <4>7. CASE Late \/ Still \/ Restart
        BY <4>7 DEF Late, Straggles, Still, Restart, reportVars, chainVars, Keep, Busy
      <4>8. CASE Kill
        BY <4>8, KillFrame DEF Busy
      <4> QED
        BY <4>1, <4>2, <4>3, <4>4, <4>5, <4>6, <4>7, <4>8, StepsAre
    <3> QED
      BY <1>1, <2>0, <2>2, <3>1, <3>2 DEF RecordBook
  <2> QED
    BY <2>1, <2>2, SeriesMoves
\* The file itself.
<1>4. /\ faults' <= 1 => recorded' \subseteq GamesIn(ReadSeries')
      /\ faults' = 0 => Readable(series'.target) \/ (series'.target = Absent /\ recorded' = {})
  <2> SUFFICES ASSUME faults' <= 1
               PROVE  /\ recorded' \subseteq GamesIn(ReadSeries')
                      /\ faults' = 0 => Readable(series'.target) \/ (series'.target = Absent /\ recorded' = {})
    BY <1>0
  <2>1. CASE /\ phase = "result" /\ phase' = "declare" /\ recorded' = recorded \cup {game}
             /\ faults' = faults /\ series' = Written(series, NextSeries)
    <3>1. PICK v : v = NextSeries
      OBVIOUS
    <3>2. v \in Seq(Entry) /\ GamesIn(v) = GamesIn(ReadSeries) \cup {game}
      BY <2>1, <3>1, NextSeriesKept
    <3>3. recorded \subseteq GamesIn(ReadSeries)
      BY <1>1 DEF RecordBook
    <3> QED
      BY <1>2, <2>1, <3>1, <3>2, <3>3
  <2>2. CASE recorded' = recorded /\ series' = series
    <3>1. ReadSeries' = ReadSeries
      BY <2>2 DEF ReadSeries
    <3> QED
      BY <1>1, <2>2, <3>1 DEF RecordBook
  <2>3. CASE recorded' = recorded /\ series' # series
    <3>1. PICK v : /\ Source(v)
                   /\ \/ faults' = faults /\ series' = Written(series, v)
                      \/ faults' = faults + 1 /\ series' \in LeftByKill(series, v)
      BY <2>3, SeriesMoves
    <3>2. v \in Seq(Entry)
      BY <3>1, SourceKept
    <3>3. recorded \subseteq GamesIn(v)
      <4>1. CASE phase = "result" /\ v = NextSeries
        <5>1. recorded \subseteq GamesIn(ReadSeries) /\ GamesIn(NextSeries) = GamesIn(ReadSeries) \cup {game}
          BY <1>1, <4>1, NextSeriesKept DEF RecordBook
        <5> QED
          BY <4>1, <5>1
      <4>2. CASE phase = "call" /\ sink = "dry_run" /\ v = report[cur]
        <5>1. cur = game
          BY <4>2 DEF Caller, Busy
        <5> QED
          BY <1>1, <4>2, <5>1 DEF RecordBook, Busy
      <4> QED
        BY <3>1, <4>1, <4>2 DEF Source
    <3> QED
      BY <1>2, <2>3, <3>1, <3>2, <3>3
  <2> QED
    BY <2>1, <2>2, <2>3, SeriesMoves
<1> QED
  BY <1>3, <1>4 DEF RecordBook

\* The sink is chosen once, with the process and its configuration.
LEMMA SinkStays ==
  ASSUME [ReportNext]_reportVars, TypeOK
  PROVE  sink' = sink
<1>1. CASE HookStep
  BY <1>1, HookFrame
<1>2. CASE AskStep
  BY <1>2, AskFrame
<1>3. CASE DrainStep \/ SendStep \/ Late \/ Restart \/ Still
  BY <1>3 DEF DrainStep, SendStep, Late, Restart, Still, reportVars, Keep
<1>4. CASE RaiseStep
  BY <1>4 DEF RaiseStep
<1>5. CASE CallStep
  BY <1>5, CallFrame
<1>6. CASE Kill
  BY <1>6, KillFrame
<1> QED
  BY <1>1, <1>2, <1>3, <1>4, <1>5, <1>6, StepsAre

\* Every game that leaves the hook without its report being asked for is struck,
\* but where there was no chain to ask.
LEMMA HookBookStep ==
  ASSUME TypeOK, Caller, HookBook, [ReportNext]_reportVars
  PROVE  HookBook'
<1>0. /\ game \in 0 .. Games /\ Games \in Nat /\ ChainTypeOK /\ phase \in Phases
      /\ phase # "idle" => game \in Game
  BY BoundsAreNaturals DEF TypeOK, HookTypeOK, ChainTypeOK, Caller
<1>00. sink' = sink
  BY SinkStays
<1>1. Game = 1 .. Games
  BY DEF Game
\* A step that leaves the hook's books alone.
<1>2. ASSUME UNCHANGED <<game, recorded, asked>>, struck \subseteq struck',
             phase \in Ahead <=> phase' \in Ahead, phase' = "declare" => phase = "declare"
      PROVE  HookBook'
  <2>1. Due' = Due
    BY <1>2 DEF Due
  <2> QED
    BY <1>00, <1>2, <2>1 DEF HookBook, Settled
\* A step that strikes the game whose end is under way.
<1>3. ASSUME phase # "idle", UNCHANGED <<game, recorded, asked>>, struck' = struck \cup {game},
             phase' \in {"idle", "down"}
      PROVE  HookBook'
  <2>1. Due' = game /\ game \in Int /\ (Due = game - 1 \/ Due = game)
    BY <1>0, <1>3 DEF Due, Ahead
  <2> SUFFICES ASSUME NEW g \in Game, g <= game, g \notin struck, g # game
               PROVE  Settled(g)'
    BY <1>00, <1>3, <2>1 DEF HookBook
  <2>2. g <= Due
    BY <1>0, <1>1, <2>1
  <2> QED
    BY <1>00, <1>3, <2>2 DEF HookBook, Settled
<1>4. CASE GameEnds
  <2>1. /\ phase = "idle" /\ phase' = "count" /\ game' = game + 1
        /\ UNCHANGED <<recorded, asked, struck>>
    BY <1>4 DEF GameEnds, files
  <2>2. Due' = Due
    BY <1>0, <2>1 DEF Due, Ahead
  <2> QED
    BY <1>00, <2>1, <2>2 DEF HookBook, Settled
<1>5. CASE Counted \/ Journalled
  <2>1. phase \in Ahead /\ phase' \in Ahead /\ phase' # "declare"
    BY <1>5 DEF Counted, Journalled, Step, Ahead
  <2>2. UNCHANGED <<game, recorded, asked, struck>>
    BY <1>5 DEF Counted, Journalled, files
  <2> QED
    BY <1>2, <2>1, <2>2
<1>6. CASE CountDenied \/ JournalDenied \/ RecordDenied
  BY <1>3, <1>6 DEF CountDenied, JournalDenied, RecordDenied, Step, Denied, files
<1>7. CASE Recorded
  <2>1. /\ phase = "result" /\ phase' = "declare" /\ game' = game
        /\ recorded' = recorded \cup {game} /\ UNCHANGED <<asked, struck>>
    BY <1>7 DEF Recorded, Step
  <2>2. Due' = Due
    BY <2>1 DEF Due, Ahead
  <2> QED
    BY <1>00, <2>1, <2>2 DEF HookBook, Settled
<1>8. CASE AskStep
  <2>1. /\ phase = "declare" /\ phase' = "send" /\ asked' = asked \cup {game}
        /\ UNCHANGED <<game, recorded, struck>> /\ sink # "none"
    BY <1>8, AskFrame
  <2>2. Due' = game /\ Due = game - 1 /\ game \in recorded
    BY <2>1 DEF Due, Ahead, HookBook
  <2> SUFFICES ASSUME NEW g \in Game, g <= game, g \notin struck, g # game
               PROVE  Settled(g)'
    BY <1>00, <2>1, <2>2 DEF HookBook, Settled
  <2>3. g <= Due
    BY <1>0, <1>1, <2>2
  <2> QED
    BY <1>00, <2>1, <2>3 DEF HookBook, Settled
<1>9. CASE Kill
  <2>1. /\ phase \notin {"idle", "down"} /\ phase' = "down" /\ struck' = struck \cup {game}
        /\ UNCHANGED <<game, recorded, asked>>
    BY <1>9, KillFrame
  <2> QED
    BY <1>3, <2>1
<1>10. CASE DrainStep \/ SendStep \/ RaiseStep \/ CallStep \/ Late \/ Restart \/ Still
  <2>1. UNCHANGED <<game, recorded, asked>> /\ struck \subseteq struck'
    <3>1. CASE DrainStep \/ SendStep \/ Late \/ Restart \/ Still
      BY <3>1 DEF DrainStep, SendStep, Late, Restart, Still, reportVars, Keep, files
    <3>2. CASE RaiseStep
      BY <3>2 DEF RaiseStep, files
    <3>3. CASE CallStep
      BY <3>3, CallFrame
    <3> QED
      BY <1>10, <3>1, <3>2, <3>3
  <2>2. phase' = phase \/ (phase \notin Ahead /\ phase' \notin Ahead)
    <3>1. CASE DrainStep \/ RaiseStep \/ Restart
      BY <3>1 DEF DrainStep, Drain, RaiseStep, SendRaises, Sending, Restart, Goto, Ahead
    <3>2. CASE Late \/ Still
      BY <3>2 DEF Late, Straggles, Still, reportVars, chainVars
    <3>3. CASE SendStep
      <4>1. CASE Refuse /\ phase = "send"
        BY <4>1 DEF Refuse, Goto, Ahead
      <4> QED
        BY <1>0, <3>3, <4>1, SendFacts, WindowFacts DEF Ahead
    <3>4. CASE CallStep
      <4>1. phase = "call"
        BY <3>4, CallFrame
      <4>2. CASE Sent
        BY <4>1, <4>2 DEF Sent, Goto, Ahead
      <4>3. CASE Refuse
        BY <4>1, <4>3 DEF Refuse, Goto, Ahead
      <4>4. CASE Failed
        BY <1>0, <4>1, <4>3, <4>4, FailedFacts DEF Ahead
      <4> QED
        BY <3>4, <4>2, <4>4, CallFrame
    <3> QED
      BY <1>10, <3>1, <3>2, <3>3, <3>4
  <2>3. "declare" \in Ahead
    BY DEF Ahead
  <2> QED
    BY <1>2, <2>1, <2>2, <2>3
<1>11. CASE Refused
  <2>1. /\ phase = "declare" /\ phase' = "idle" /\ sink = "none"
        /\ UNCHANGED <<game, recorded, asked, struck>>
    BY <1>11 DEF Refused, ChainRefused, Step, files
  <2>2. Due' = game /\ Due = game - 1 /\ game \in recorded
    BY <2>1 DEF Due, Ahead, HookBook
  <2> SUFFICES ASSUME NEW g \in Game, g <= game, g \notin struck, g # game
               PROVE  Settled(g)'
    BY <1>00, <2>1, <2>2 DEF HookBook, Settled
  <2>3. g <= Due
    BY <1>0, <1>1, <2>2
  <2> QED
    BY <1>00, <2>1, <2>3 DEF HookBook, Settled
<1> QED
  BY <1>4, <1>5, <1>6, <1>7, <1>8, <1>9, <1>10, <1>11, StepsAre DEF HookStep

-----------------------------------------------------------------------------
(* The theorems.                                                           *)

LEMMA InitKeeps == ReportInit => RInv
<1> SUFFICES ASSUME ReportInit PROVE RInv
  OBVIOUS
<1>0. /\ Games \in Nat /\ Capacity \in Nat /\ Ceiling \in Nat /\ Retries \in Nat /\ QueueDepth \in Nat
      /\ Game \subseteq 1 .. Games /\ NoGame = 0 /\ \A g \in Game : g >= 1
  BY BoundsAreNaturals DEF Game, NoGame
<1>1. /\ <<>> \in Seq(Game) /\ <<>> \in Seq(Entry) /\ DOMAIN <<>> = {} /\ Len(<<>>) = 0
  BY EmptySeq, SeqFacts
<1>2. /\ phase = "idle" /\ cur = NoGame /\ queue = <<>> /\ slice = <<>> /\ tries = 0
      /\ tokens = Capacity /\ empties = 0 /\ locked = FALSE
      /\ answer = [g \in Game |-> "none"] /\ broken = FALSE
      /\ quota = NoFile /\ claims = 0 /\ acked = {}
      /\ mails = [g \in Game |-> 0] /\ stray = [g \in Game |-> 0] /\ late = [g \in Game |-> 0]
      /\ windows = 0 /\ faults = 0 /\ sink \in Sinks /\ game = 0 /\ index = 0
      /\ logs = [n \in Game |-> Absent] /\ series = NoFile
      /\ report = [g \in Game |-> <<>>] /\ recorded = {} /\ asked = {} /\ struck = {}
  BY DEF ReportInit, ChainInit, Fresh
<1>3. \A S : NoFile \in FileOf(S)
  BY DEF NoFile, FileOf
<1>4. NoFile.tmp = Absent /\ NoFile.target = Absent /\ NoFile.prev = Absent /\ ~Readable(Absent)
  BY DEF NoFile, Readable
<1>5. ChainTypeOK
  <2>1. /\ phase \in Phases /\ cur \in 0 .. Games /\ queue \in Seq(Game) /\ slice \in Seq(Game)
        /\ tries \in 0 .. Retries /\ tokens \in 0 .. Capacity
        /\ empties \in Nat /\ locked \in BOOLEAN /\ broken \in BOOLEAN
    <3>1. queue \in Seq(Game) /\ slice \in Seq(Game) /\ phase \in Phases
      BY <1>1, <1>2 DEF Phases
    <3>2. cur \in 0 .. Games /\ tries \in 0 .. Retries /\ tokens \in 0 .. Capacity /\ empties \in Nat
      BY <1>0, <1>2
    <3>3. locked \in BOOLEAN /\ broken \in BOOLEAN
      BY <1>2
    <3> QED
      BY <3>1, <3>2, <3>3
  <2>2. "none" \in Answers /\ 0 \in Nat
    BY DEF Answers
  <2>3. /\ answer \in [Game -> Answers] /\ mails \in [Game -> Nat] /\ stray \in [Game -> Nat]
        /\ late \in [Game -> Nat] /\ acked \subseteq Game
    BY <1>2, <2>2
  <2>4. quota \in FileOf(Nat) /\ claims \in Nat /\ windows \in Nat /\ faults \in Nat
    BY <1>2, <1>3
  <2> QED
    BY <2>1, <2>3, <2>4 DEF ChainTypeOK
<1>6. HookTypeOK
  BY <1>0, <1>1, <1>2, <1>3 DEF HookTypeOK
<1>7. phase \notin Ahead /\ phase \notin Busy
  BY <1>2 DEF Ahead, Busy
<1>8. Caller
  BY <1>2, <1>7 DEF Caller
<1>9. Due = 0
  BY <1>2, <1>7 DEF Due
<1>10. Once
  BY <1>0, <1>1, <1>2, <1>9 DEF Once
<1>11. Room /\ Told /\ Posted
  <2>1. Room
    BY <1>0, <1>1, <1>2, <1>7 DEF Room
  <2>2. Told
    BY <1>2 DEF Told
  <2>3. Posted
    BY <1>2 DEF Posted
  <2> QED
    BY <2>1, <2>2, <2>3
<1>12. QuotaBook
  <2>1. Load(quota) = Absent
    BY <1>2, <1>4 DEF Load
  <2>2. Used = 0
    BY <1>4, <2>1 DEF Used
  <2> QED
    BY <1>0, <1>2, <1>4, <2>2 DEF QuotaBook
<1>13. JournalBook
  BY <1>2 DEF JournalBook
<1>14. WellKept(<<>>)
  BY <1>1 DEF WellKept, Journals
<1>15. SeriesBook
  BY <1>2, <1>4, <1>14 DEF SeriesBook
<1>16. RecordBook
  BY <1>2, <1>4, <1>7 DEF RecordBook
<1>17. HookBook
  BY <1>0, <1>2, <1>9 DEF HookBook
<1> QED
  BY <1>5, <1>6, <1>8, <1>10, <1>11, <1>12, <1>13, <1>15, <1>16, <1>17 DEF RInv, TypeOK

LEMMA NextKeeps == RInv /\ [ReportNext]_reportVars => RInv'
<1> SUFFICES ASSUME RInv, [ReportNext]_reportVars PROVE RInv'
  OBVIOUS
<1>1. /\ TypeOK /\ Caller /\ Queues /\ Posted /\ QuotaBook /\ JournalBook
      /\ SeriesBook /\ RecordBook /\ HookBook
  BY DEF RInv, Queues
<1>2. ChainTypeOK' /\ HookTypeOK'
  BY <1>1, ChainTypes, HookTypes
<1>3. Caller' /\ Queues' /\ Posted'
  BY <1>1, <1>2, CallerStep, QueuesStep, PostedStep
<1>4. QuotaBook' /\ JournalBook'
  BY <1>1, <1>2, QuotaStep, JournalStep
<1>5. SeriesBook'
  BY <1>1, SeriesStep
<1>6. RecordBook' /\ HookBook'
  BY <1>1, <1>2, <1>5, RecordStep, HookBookStep
<1> QED
  BY <1>2, <1>3, <1>4, <1>5, <1>6 DEF RInv, TypeOK, Queues

\* The invariant the promises rest on: the caller and the reports in its hands,
\* the queue and what is owed, the deliveries, the quota file, the journals,
\* the series on disk and in the reports, and the games struck.
THEOREM ReportInvariance == ReportSpec => []RInv
<1>1. ReportInit => RInv
  BY InitKeeps
<1>2. RInv /\ [ReportNext]_reportVars => RInv'
  BY NextKeeps
<1> QED
  BY <1>1, <1>2, PTL DEF ReportSpec

\* What ReportingChain.send says of a report is true of it, through every
\* refusal, drain, late delivery, denied write and killed process.
THEOREM TrueAnswers == ReportSpec => []AnswersAreTrue
<1>1. RInv => AnswersAreTrue
  <2> SUFFICES ASSUME RInv, NEW g \in Game
               PROVE  /\ g \in acked => mails[g] >= 1
                      /\ answer[g] = "queued" => Owed(g) \/ broken
                      /\ mails[g] <= late[g] + Cardinality(acked \cap {g})
                      /\ phase = "send" /\ g = cur /\ answer[g] = "queued" => Len(queue) < QueueDepth
    BY DEF AnswersAreTrue
  <2>0. /\ mails[g] \in Nat /\ stray[g] \in Nat /\ late[g] \in Nat
        /\ Len(queue) \in Nat /\ Len(slice) \in Nat /\ QueueDepth \in Nat
    BY BoundsAreNaturals, SeqFacts DEF RInv, TypeOK, ChainTypeOK
  <2>1. Cardinality(acked \cap {g}) = IF g \in acked THEN 1 ELSE 0
    <3>1. CASE g \in acked
      <4>1. acked \cap {g} = {g}
        BY <3>1
      <4> QED
        BY <3>1, <4>1, FS_Singleton
    <3>2. CASE g \notin acked
      <4>1. acked \cap {g} = {}
        BY <3>2
      <4> QED
        BY <3>2, <4>1, FS_EmptySet
    <3> QED
      BY <3>1, <3>2
  <2>2. mails[g] + stray[g] <= late[g] + (IF g \in acked THEN 1 ELSE 0)
    BY DEF RInv, Posted
  <2>3. mails[g] <= late[g] + Cardinality(acked \cap {g})
    BY <2>0, <2>1, <2>2
  <2>4. phase = "send" /\ g = cur /\ answer[g] = "queued" => Len(queue) < QueueDepth
    BY <2>0 DEF RInv, Room, Busy
  <2> QED
    BY <2>3, <2>4 DEF RInv, Posted, Told
<1> QED
  BY <1>1, ReportInvariance, PTL

\* QuotaManager keeps the hourly ceiling over all processes of the hour as long
\* as no two of its writes were denied or cut short: the claim is on disk before
\* the first attempt, and a damaged file still yields its last whole count.
THEOREM CeilingKept == ReportSpec => []QuotaIsKept
<1>1. RInv => QuotaIsKept
  BY DEF RInv, QuotaBook, QuotaIsKept
<1> QED
  BY <1>1, ReportInvariance, PTL

\* The series file of artifact_result.py is the record of the games: its entries
\* name the journals of their own games in order, no single fault loses a game
\* once recorded, and every game whose writes were made is in it and was put to
\* the chain; but in a live mode with no transport handed to the hook, where
\* build_reporting_chain refuses, no report ever is.
THEOREM FaithfulSeries == ReportSpec => []SeriesIsTheRecord
<1>1. RInv => SeriesIsTheRecord
  <2> SUFFICES ASSUME RInv PROVE SeriesIsTheRecord
    OBVIOUS
  <2>1. Journals(ReadSeries) /\ \A g \in Game : Journals(report[g])
    BY SeriesRead DEF RInv, SeriesBook, WellKept
  <2>2. faults <= 1 => recorded \subseteq { ReadSeries[i].game : i \in DOMAIN ReadSeries }
    BY DEF RInv, RecordBook, GamesIn
  <2>3. ASSUME phase = "idle", NEW g \in 1 .. game, g \notin struck
        PROVE  g \in recorded /\ (sink # "none" => g \in asked)
    <3>1. game \in 0 .. Games /\ Games \in Nat
      BY BoundsAreNaturals DEF RInv, TypeOK, HookTypeOK
    <3>2. g \in Game /\ g <= Due
      BY <2>3, <3>1 DEF Due, Ahead, Game
    <3> QED
      BY <2>3, <3>2 DEF RInv, HookBook, Settled
  <2>4. sink = "none" => asked = {}
    BY DEF RInv, HookBook
  <2> QED
    BY <2>1, <2>2, <2>3, <2>4 DEF SeriesIsTheRecord
<1> QED
  BY <1>1, ReportInvariance, PTL

=============================================================================
