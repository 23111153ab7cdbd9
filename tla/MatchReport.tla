---------------------------- MODULE MatchReport ----------------------------
(***************************************************************************)
(* The end of a game as it is put on disk and reported, over a series of   *)
(* games of one role: run_agent counts the game, then report_game_end      *)
(* writes the journal log_<id>_g<NN>.json, adds the game to the series     *)
(* file result_<id>.json, writes the declaration, and sends the series.    *)
(* A process may be killed at any point, the freeze watchdog being armed   *)
(* throughout, and every write may be denied.                              *)
(*                                                                         *)
(* Source: network/agent_entrypoint.py, services/reporting/end_of_game.py, *)
(* end_of_game_chain.py, artifact_names.py, artifact_result.py,            *)
(* artifacts.py, sink.py.                                                  *)
(***************************************************************************)
EXTENDS ReportChain

\* What a series file lists, one record per sub-game.
Entry == [index : Game, game : Game]

ASSUME MarkersAreNoSeries == Absent \notin Seq(Entry) /\ Torn \notin Seq(Entry)

VARIABLES
  \* phase runs from "idle" over "count", "log", "result", "declare", "send",
  \* "acquire" and "call" back to "idle", or to "down"
  sink,     \* what the chain of the hook ends in: see Sinks
  game,     \* games that have ended so far, the last of them being reported
  index,    \* the sub-game index the running hook has drawn
  logs,     \* logs[n]: the journal file of sub-game n
  series,   \* the durable series file
  report,   \* report[g]: the series as it was built to be sent for game g
  recorded, \* (history) games whose series write returned
  asked,    \* (history) games whose report was put to the chain
  struck    \* (history) games whose end met a kill or a denied write

files == <<logs, series, report, recorded, asked>>
reportVars == <<chainVars, sink, game, index, files, struck>>

\* A sink, or a chain that ends in one, may be "handed" to the hook, in either
\* reporting.mode.  Where none is, the mode decides: the "dry_run" sink is built,
\* and the mode live has "none", for no live transport is built here.
Sinks == {"handed", "dry_run", "none"}

ReportInit ==
  /\ ChainInit
  /\ phase = "idle"
  /\ sink \in Sinks
  /\ game = 0 /\ index = 0
  /\ logs = [n \in Game |-> Absent]
  /\ series = NoFile
  /\ report = [g \in Game |-> <<>>]
  /\ recorded = {} /\ asked = {} /\ struck = {}

Entries(v) == IF Readable(v) THEN v ELSE <<>>

-----------------------------------------------------------------------------
(* The steps of the hook.  A denied write ends it -- contained, but for    *)
(* the counter, whose exception ends the process -- and the declaration is *)
(* contained by itself.                                                    *)

\* A process that is handed nothing is run_agent's: it plays one game, and the
\* chain it built goes with it.
GameEnds ==
  /\ phase = "idle" /\ game < Games
  /\ sink = "handed" \/ Fresh
  /\ game' = game + 1
  /\ phase' = "count"
  /\ UNCHANGED <<memory, quota, record, windows, faults, sink, index, files, struck>>

Step(from, to) == phase = from /\ phase' = to

Denied == faults < MaxFaults /\ faults' = faults + 1 /\ struck' = struck \cup {game}

Counted ==
  /\ Step("count", "log")
  /\ UNCHANGED <<memory, quota, record, windows, faults, sink, game, index, files, struck>>

CountDenied ==
  /\ Step("count", "down") /\ Denied
  /\ UNCHANGED <<memory, quota, record, windows, sink, game, index, files>>

\* Mutant: the index is drawn from the series file.
NextSubGameIndexInSeries == Len(Entries(Load(series))) + 1

\* next_sub_game_index: one past the highest journal on disk, whole or torn.
NextSubGameIndex ==
  1 + Cardinality({n \in Game : \E m \in n .. Games : logs[m] # Absent})

Journalled ==
  /\ Step("log", "result")
  /\ index' = NextSubGameIndex
  /\ logs' = [logs EXCEPT ![index'] = game]
  /\ UNCHANGED <<memory, quota, record, windows, faults, sink, game, series, report,
                 recorded, asked, struck>>

JournalDenied ==
  /\ Step("log", "idle") /\ Denied
  /\ UNCHANGED <<memory, quota, record, windows, sink, game, index, files>>

\* read_series: an unreadable file is an absent one.
ReadSeries == Entries(Load(series))

\* build_result_artifact: the earlier sub-games, and this one.
NextSeries == Append(ReadSeries, [index |-> index, game |-> game])

\* record_sub_game.
Recorded ==
  /\ Step("result", "declare")
  /\ series' = Written(series, NextSeries)
  /\ report' = [report EXCEPT ![game] = NextSeries]
  /\ recorded' = recorded \cup {game}
  /\ UNCHANGED <<memory, quota, record, windows, faults, sink, game, index, logs, asked, struck>>

RecordDenied ==
  /\ Step("result", "idle") /\ Denied
  /\ series' \in LeftByDenial(series, NextSeries)
  /\ UNCHANGED <<memory, quota, record, windows, sink, game, index, logs, report, recorded, asked>>

\* The chain that was handed in, or the one build_reporting_chain makes.
AskChain ==
  /\ sink # "none" /\ Step("declare", "send")
  /\ cur' = game
  /\ asked' = asked \cup {game}
  /\ UNCHANGED <<queue, slice, tries, tokens, empties, locked, answer, broken, quota,
                 record, windows, sink, game, index, logs, series, report, recorded, struck>>

\* LIVE_MODE_UNWIRED raises out of the hook's body, and the hook contains it.
ChainRefused ==
  /\ sink = "none" /\ Step("declare", "idle")
  /\ UNCHANGED <<memory, quota, record, windows, sink, game, index, files, struck>>

\* declare_game, written or not; then the chain is asked to send, if there is one.
Declared == (AskChain \/ ChainRefused) /\ UNCHANGED faults

\* Mutant: a declaration that cannot be written stops the report.
DeclareDeniedUncontained ==
  /\ Step("declare", "idle")
  /\ faults < MaxFaults /\ faults' = faults + 1
  /\ UNCHANGED <<memory, quota, record, windows, sink, game, index, files, struck>>

DeclareDenied ==
  /\ faults < MaxFaults /\ faults' = faults + 1
  /\ AskChain \/ ChainRefused

-----------------------------------------------------------------------------
(* The chain with one of two sinks at its end: the one handed in, whatever *)
(* the mode, or else DryRunSink.  GmailSink, which the callers hand in,    *)
(* touches no file; DryRunSink writes the report over the series file, in  *)
(* no thread.                                                              *)

Keep == UNCHANGED <<sink, game, index, files, struck>>
KeepButSeries == UNCHANGED <<sink, game, index, logs, report, recorded, asked, struck>>

\* The callers that drain bring a sink of their own.
DrainStep == sink = "handed" /\ Drain /\ Keep

SendStep == (SendLocked \/ SendExhausted \/ SendClaimed \/ Acquire \/ Refill \/ WindowEnds) /\ Keep

RaiseStep ==
  /\ SendRaises
  /\ struck' = struck \cup {cur}
  /\ UNCHANGED <<sink, game, index, files>>

Mailed == sink = "handed" /\ (Delivered \/ Rejected \/ TimesOut) /\ Keep

DryRun ==
  /\ sink = "dry_run" /\ Delivered
  /\ series' = Written(series, report[cur])
  /\ KeepButSeries

DryRunDenied ==
  /\ sink = "dry_run" /\ phase = "call" /\ faults < MaxFaults
  /\ faults' = faults + 1
  /\ Failed
  /\ series' \in LeftByDenial(series, report[cur])
  /\ UNCHANGED <<mails, stray, late>>
  /\ KeepButSeries

Late == (\E g \in Game : Straggles(g)) /\ Keep

-----------------------------------------------------------------------------
(* The process.                                                            *)

\* It is over, by itself between two games or by the exception of the count:
\* the queue goes with it.  The next one is started for the next game.
Restart ==
  /\ phase \in {"idle", "down"}
  /\ game < Games \/ phase = "down"
  /\ phase' = "idle" /\ Renew
  /\ UNCHANGED <<quota, record, windows, faults>> /\ Keep

\* What a kill leaves of the write it falls into.
Kill ==
  /\ phase \notin {"idle", "down"} /\ faults < MaxFaults
  /\ faults' = faults + 1
  /\ phase' = "down" /\ struck' = struck \cup {game}
  /\ \/ /\ phase = "log"
        /\ \E left \in {Absent, Torn, game} : logs' = [logs EXCEPT ![NextSubGameIndex] = left]
        /\ UNCHANGED <<series, quota>>
     \/ /\ phase = "result" /\ series' \in LeftByKill(series, NextSeries)
        /\ UNCHANGED <<logs, quota>>
     \/ /\ phase = "send" /\ quota' \in LeftByKill(quota, Used + 1)
        /\ UNCHANGED <<logs, series>>
     \/ /\ phase = "call" /\ sink = "dry_run"
        /\ series' \in LeftByKill(series, report[cur])
        /\ UNCHANGED <<logs, quota>>
     \/ /\ phase \in {"count", "declare", "acquire", "call"}
        /\ UNCHANGED <<logs, series, quota>>
  /\ UNCHANGED <<memory, record, windows, sink, game, index, report, recorded, asked>>

Over == phase = "idle" /\ game = Games /\ UNCHANGED reportVars

ReportNext ==
  \/ GameEnds \/ Counted \/ CountDenied \/ Journalled \/ JournalDenied
  \/ Recorded \/ RecordDenied \/ Declared \/ DeclareDenied
  \/ DrainStep \/ SendStep \/ RaiseStep \/ Mailed \/ DryRun \/ DryRunDenied \/ Late
  \/ Restart \/ Kill \/ Over

ReportSpec == ReportInit /\ [][ReportNext]_reportVars

-----------------------------------------------------------------------------
Journals(s) == \A i \in DOMAIN s :
  /\ logs[s[i].index] = s[i].game
  /\ \A j \in 1 .. i - 1 : s[j].index < s[i].index /\ s[j].game < s[i].game

\* The series on disk is the record of the games (artifact_result.py: its
\* list is extended, never rewritten; rules 32 and 50).  Every entry names the
\* journal of its own game, in the order of the games, in the file as in every
\* report on its way, whatever was killed or denied; and as long as no two
\* faults met, a game that was once recorded stays in the file.  A game whose
\* own writes were all made is in it, and its report was put to the chain, but
\* where the mode is live and no transport was handed in, as run_agent hands in
\* none: there the files are written all the same and no report is ever sent
\* (end_of_game.py:29-30, end_of_game_chain.py:70-74: rules 31, 39-40 and 50).
SeriesIsTheRecord ==
  /\ Journals(ReadSeries)
  /\ \A g \in Game : Journals(report[g])
  /\ faults <= 1 => recorded \subseteq { ReadSeries[i].game : i \in DOMAIN ReadSeries }
  /\ phase = "idle" =>
       /\ (1 .. game) \ struck \subseteq recorded
       /\ sink # "none" => (1 .. game) \ struck \subseteq asked
  /\ sink = "none" => asked = {}
=============================================================================
