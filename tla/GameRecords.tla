----------------------------- MODULE GameRecords -----------------------------
(***************************************************************************)
(* What one role keeps on disk from game to game, over the processes that  *)
(* play them: the games-played counter (step0_collect.py), which run_agent *)
(* declares before a game and advances after it, and the league ledger     *)
(* (league_ledger.py), in which an operator records the game afterwards.   *)
(*                                                                         *)
(* Both are rewritten through durable_write.py.  A process can be killed   *)
(* between and inside the steps of a write -- the freeze watchdog is armed *)
(* while the counter is written, and ends the process with os._exit -- and *)
(* a step can be denied by a client that holds the file open.              *)
(***************************************************************************)
EXTENDS DurableFile, Integers, Sequences, FiniteSets

CONSTANTS
  Opponent,        \* the teams played against
  MaxGamesPerTeam, \* Table 18 row 5
  Retries,         \* retries of the last step of a write
  MaxGames,        \* bound on the games started
  MaxCrashes       \* bound on the processes killed

ASSUME RecordBounds == {MaxGamesPerTeam, Retries, MaxGames, MaxCrashes} \subseteq Nat
\* A file that is missing or does not parse is none that holds a number.
ASSUME MarkersAreNoCounts == {Absent, Torn} \cap Nat = {}

VARIABLES
  file,      \* file[k]: the durable file of the counter and of the ledger
  phase,     \* where the process of the present game stands
  write,     \* the write in progress: the step it stands at and its payload
  declared,  \* games_played_so_far of the last Step-0 declaration
  started,   \* games started
  completed, \* (history) games that reached an outcome
  due,       \* games to be recorded in the ledger, at most the last one
  counted,   \* (history) games whose counter write returned
  crashes,   \* processes killed
  torn       \* of these, inside a replace that was not atomic

vars == <<file, phase, write, declared, started, completed, due, counted, crashes, torn>>

Kinds == {"counter", "ledger"}
Phases == {"idle", "declared", "playing", "recording"}
Rows == [game : Nat, opponent : Opponent, scored : BOOLEAN]
Payloads(k) == IF k = "counter" THEN Nat ELSE Seq(Rows)
NoWrite == [file |-> "none", step |-> "none", value |-> 0, tries |-> 0]

TypeOK ==
  /\ \A k \in Kinds, part \in {"tmp", "target", "prev"} :
       Readable(file[k][part]) => file[k][part] \in Payloads(k)
  /\ phase \in Phases
  /\ write # NoWrite =>
       /\ write.file \in Kinds /\ write.value \in Payloads(write.file)
       /\ write.step \in {"tmp", "rotate", "replace"} /\ write.tries \in 0 .. Retries
  /\ {declared, completed, counted} \subseteq Nat /\ started \in 0 .. MaxGames
  /\ due \subseteq Nat
  /\ crashes \in 0 .. MaxCrashes /\ torn \in 0 .. crashes

Init ==
  /\ file = [k \in Kinds |-> NoFile]
  /\ phase = "idle"
  /\ write = NoWrite
  /\ declared = 0 /\ started = 0 /\ completed = 0
  /\ due = {}
  /\ counted = 0
  /\ crashes = 0 /\ torn = 0

-----------------------------------------------------------------------------
(* Reading.                                                                *)

(* read_games_played never raises.                                         *)
ReadCounter == IF Readable(Load(file["counter"])) THEN Load(file["counter"]) ELSE 0

(* read_ledger looks whether the file exists before it falls back.         *)
LedgerRaises == file["ledger"].target = Torn /\ ~Readable(Load(file["ledger"]))
ReadLedger ==
  IF file["ledger"].target = Absent THEN <<>> ELSE Load(file["ledger"])

RangeOf(s) == {s[i] : i \in DOMAIN s}

(* refuse_if_bounded: rule 52 and Table 18 row 5.                          *)
Refused(rows, o, scored) ==
  \/ Len(rows) >= MaxGamesPerTeam
  \/ scored /\ \E r \in RangeOf(rows) : r.scored /\ r.opponent = o

-----------------------------------------------------------------------------
(* Playing a game.                                                         *)

Begin(k, v) == write' = [file |-> k, step |-> "tmp", value |-> v, tries |-> 0]

(* A process starts: declare_step0 reads the counter.                      *)
Declare ==
  /\ phase = "idle" /\ write = NoWrite /\ started < MaxGames
  /\ started' = started + 1
  /\ declared' = ReadCounter
  /\ phase' = "declared"
  /\ UNCHANGED <<file, write, completed, due, counted, crashes, torn>>

(* Mutant: the counter is advanced when the handshake agrees.              *)
HandshakeCounting ==
  /\ phase = "declared"
  /\ phase' = "recording" /\ Begin("counter", ReadCounter + 1)
  /\ UNCHANGED <<file, declared, started, completed, due, counted, crashes, torn>>

Handshake ==
  /\ phase = "declared"
  /\ phase' \in {"playing", "idle"}
  /\ UNCHANGED <<file, write, declared, started, completed, due, counted, crashes, torn>>

(* The game has an outcome: record_completed_game begins its write...      *)
Complete ==
  /\ phase = "playing"
  /\ completed' = completed + 1
  /\ due' = {started}
  /\ phase' = "recording" /\ Begin("counter", ReadCounter + 1)
  /\ UNCHANGED <<file, declared, started, counted, crashes, torn>>

(* ... or has none, and is not counted.                                    *)
NoOutcome ==
  /\ phase = "playing"
  /\ phase' = "idle"
  /\ UNCHANGED <<file, write, declared, started, completed, due, counted, crashes, torn>>

(* Mutant: the bounds are not looked at.                                   *)
RecordUnbounded(o, scored) ==
  /\ phase = "idle" /\ write = NoWrite /\ due # {}
  /\ ~LedgerRaises
  /\ due' = {}
  /\ \E g \in due : Begin("ledger", Append(ReadLedger,
       [game |-> g, opponent |-> o, scored |-> scored]))
  /\ UNCHANGED <<file, phase, declared, started, completed, counted, crashes, torn>>

(* An operator records the last game, once: record_league_game.            *)
Record(o, scored) ==
  /\ phase = "idle" /\ write = NoWrite /\ due # {}
  /\ ~LedgerRaises
  /\ due' = {}
  /\ IF Refused(ReadLedger, o, scored)
     THEN UNCHANGED write
     ELSE \E g \in due : Begin("ledger", Append(ReadLedger,
            [game |-> g, opponent |-> o, scored |-> scored]))
  /\ UNCHANGED <<file, phase, declared, started, completed, counted, crashes, torn>>

-----------------------------------------------------------------------------
(* durable_write_json, step by step.                                       *)

EndPhase == IF write.file = "counter" THEN "idle" ELSE phase

WriteTmp ==
  /\ write # NoWrite /\ write.step = "tmp"
  /\ file' = [file EXCEPT ![write.file] = TmpWritten(@, write.value)]
  /\ write' = [write EXCEPT !.step = "rotate"]
  /\ UNCHANGED <<phase, declared, started, completed, due, counted, crashes, torn>>

Rotate ==
  /\ write # NoWrite /\ write.step = "rotate"
  /\ file' = [file EXCEPT ![write.file] = Rotated(@)]
  /\ write' = [write EXCEPT !.step = "replace"]
  /\ UNCHANGED <<phase, declared, started, completed, due, counted, crashes, torn>>

Replace ==
  /\ write # NoWrite /\ write.step = "replace"
  /\ file' = [file EXCEPT ![write.file] = Replaced(@)]
  /\ IF write.file = "counter"
     THEN counted' = counted + 1
     ELSE UNCHANGED counted
  /\ write' = NoWrite
  /\ phase' = EndPhase
  /\ UNCHANGED <<declared, started, completed, due, crashes, torn>>

(* PermissionError: the rotation is not retried, the replacement is.       *)
Denied ==
  /\ write # NoWrite
  /\ \/ write.step = "rotate" /\ file[write.file].target # Absent
     \/ write.step = "replace"
  /\ IF write.step = "replace" /\ write.tries < Retries
     THEN write' = [write EXCEPT !.tries = @ + 1] /\ UNCHANGED phase
     ELSE write' = NoWrite /\ phase' = EndPhase
  /\ UNCHANGED <<file, declared, started, completed, due, counted, crashes, torn>>

(* The process is killed, between two steps...                             *)
Kill ==
  /\ phase # "idle" \/ write # NoWrite
  /\ crashes < MaxCrashes
  /\ crashes' = crashes + 1
  /\ write' = NoWrite /\ phase' = "idle"

CrashBetween == Kill /\ UNCHANGED <<file, declared, started, completed, due, counted, torn>>

(* ... or inside one.                                                      *)
CrashInside ==
  /\ write # NoWrite
  /\ Kill
  /\ LET f == file[write.file] IN
     \E g \in CASE write.step = "tmp"    -> HalfWritten(f)
                [] write.step = "rotate" -> HalfRotated(f)
                [] OTHER                 -> HalfReplaced(f) :
       /\ file' = [file EXCEPT ![write.file] = g]
       /\ torn' = IF g.target = Torn /\ f.target # Torn THEN torn + 1 ELSE torn
  /\ UNCHANGED <<declared, started, completed, due, counted>>

Over == phase = "idle" /\ write = NoWrite /\ started = MaxGames /\ UNCHANGED vars

Next ==
  \/ Declare \/ Handshake \/ Complete \/ NoOutcome
  \/ \E o \in Opponent, scored \in BOOLEAN : Record(o, scored)
  \/ WriteTmp \/ Rotate \/ Replace \/ Denied
  \/ CrashBetween \/ CrashInside
  \/ Over

Spec == Init /\ [][Next]_vars

-----------------------------------------------------------------------------
(* Rule 38 makes a false games-played declaration an absolute              *)
(* disqualification.  Never is a game counted that had no outcome, nor one *)
(* twice: not by a game that crashed, a write that was denied or repeated, *)
(* or a fallback to an older generation.                                   *)
NeverOverstated == ReadCounter <= completed /\ declared <= completed

(* A count that was written stays written, whatever the crashes and the    *)
(* denied steps, if only os.replace never tears the file.                  *)
CountKept == torn = 0 => ReadCounter >= counted

(* Rule 52 and Table 18 row 5 hold of every generation on disk.            *)
LedgerWithinBounds ==
  \A part \in {"tmp", "target", "prev"} :
    LET rows == file["ledger"][part] IN
    Readable(rows) =>
      /\ Len(rows) <= MaxGamesPerTeam
      /\ \A i, j \in DOMAIN rows :
           /\ rows[i].scored /\ rows[j].scored /\ rows[i].opponent = rows[j].opponent => i = j
           /\ i < j => rows[i].game < rows[j].game
=============================================================================
