---------------------------- MODULE ReportChain ----------------------------
(***************************************************************************)
(* The way of a finished game's report out of the process: ReportingChain  *)
(* (services/reporting/chain.py) over the durable hourly quota (quota.py), *)
(* the retry ladder of the gatekeeper with its token bucket, the latching  *)
(* DOS detector (dos.py), and the sink.  One caller at a time: the hook at *)
(* the end of a game, or a caller that drains what is still owed.          *)
(*                                                                         *)
(* The mail call runs in a thread, which the attempt's timeout does not    *)
(* stop: it may still deliver, long after the chain has given it up.       *)
(***************************************************************************)
EXTENDS DurableFile, Integers, Sequences, FiniteSets

CONSTANTS
  Games,      \* bound: the games are 1 .. Games, each with one report
  Ceiling,    \* requests_per_hour
  QueueDepth, \* queue_depth
  Retries,    \* retries_before_failure
  Capacity,   \* tokens the bucket holds
  MaxLate,    \* bound on the attempts that time out
  MaxWindows, \* bound on the hours that end
  MaxFaults   \* bound on killed processes and denied writes together

ASSUME ChainBounds ==
  /\ {Games, Ceiling, QueueDepth, Retries, MaxLate, MaxWindows, MaxFaults} \subseteq Nat
  /\ Capacity \in Nat \ {0}

ASSUME MarkersAreNoCounts == {Absent, Torn} \cap Nat = {}

VARIABLES
  phase,   \* where the process stands: see MatchReport; here "send", "acquire", "call", "idle"
  cur,     \* the game whose report is on its way
  queue,   \* _queue: reports refused and still owed
  slice,   \* what a running drain has taken off the queue and not yet sent
  tries,   \* attempts of the running ladder that have failed
  tokens,  \* tokens in the bucket
  empties, \* _consecutive_empty
  locked,  \* _locked
  quota,   \* the durable quota file of the present hour
  answer,  \* answer[g]: what this process's last send of g returned
  claims,  \* (history) ladders begun in the present hour, over all processes
  mails,   \* (history) mails[g]: how often the report of g was delivered
  acked,   \* (history) reports some process was told were sent
  stray,   \* stray[g]: attempts for g given up and still running
  late,    \* (history) late[g]: attempts for g given up by timeout
  broken,  \* (history) a send raised out of a drain of this process
  windows, \* hours that have ended
  faults   \* killed processes and denied writes

memory == <<cur, queue, slice, tries, tokens, empties, locked, answer, broken>>
record == <<claims, mails, acked, stray, late>>
chainVars == <<phase, memory, quota, record, windows, faults>>

Game == 1 .. Games
NoGame == 0

\* A process starts: the chain is built anew, and the quota file is found.
Fresh ==
  /\ cur = NoGame /\ queue = <<>> /\ slice = <<>> /\ tries = 0
  /\ tokens = Capacity /\ empties = 0 /\ locked = FALSE
  /\ answer = [g \in Game |-> "none"] /\ broken = FALSE

ChainInit ==
  /\ Fresh
  /\ quota = NoFile
  /\ claims = 0 /\ acked = {}
  /\ mails = [g \in Game |-> 0] /\ stray = [g \in Game |-> 0] /\ late = [g \in Game |-> 0]
  /\ windows = 0 /\ faults = 0

Renew ==
  /\ cur' = NoGame /\ queue' = <<>> /\ slice' = <<>> /\ tries' = 0
  /\ tokens' = Capacity /\ empties' = 0 /\ locked' = FALSE
  /\ answer' = [g \in Game |-> "none"] /\ broken' = FALSE

-----------------------------------------------------------------------------
(* Answering one send, and going on with the drain it may belong to.       *)

Answer(a) == answer' = [answer EXCEPT ![cur] = a]

Goto(rest) ==
  IF rest = <<>>
  THEN phase' = "idle" /\ cur' = NoGame /\ slice' = <<>>
  ELSE phase' = "send" /\ cur' = Head(rest) /\ slice' = Tail(rest)

\* _enqueue: held for the next drain, or refused at a full queue.
Refuse ==
  /\ IF Len(queue) >= QueueDepth
     THEN Answer("dropped") /\ UNCHANGED queue
     ELSE Answer("queued") /\ queue' = Append(queue, cur)
  /\ Goto(slice)

\* DosDetector.observe: one reading of the bucket after every ladder.
Observe ==
  LET run == IF tokens > 0 THEN 0 ELSE empties + 1 IN
  IF locked THEN UNCHANGED <<empties, locked>>
  ELSE empties' = run /\ locked' = (run > Retries)

-----------------------------------------------------------------------------
(* send: the latch, the quota, the ladder.                                 *)

Sending == phase = "send"

\* QuotaManager._read: a file of which nothing parses is a fresh hour.
Used == IF Readable(Load(quota)) THEN Load(quota) ELSE 0

SendLocked ==
  /\ Sending /\ locked
  /\ Refuse
  /\ UNCHANGED <<tries, tokens, empties, locked, quota, broken, record, windows, faults>>

SendExhausted ==
  /\ Sending /\ ~locked /\ Used >= Ceiling
  /\ Refuse
  /\ UNCHANGED <<tries, tokens, empties, locked, quota, broken, record, windows, faults>>

\* Mutant: the claim is not written before the ladder begins.
SendUnclaimed ==
  /\ Sending /\ ~locked /\ Used < Ceiling
  /\ claims' = claims + 1
  /\ phase' = "acquire" /\ tries' = 0
  /\ UNCHANGED <<cur, queue, slice, tokens, empties, locked, answer, broken, quota,
                 mails, acked, stray, late, windows, faults>>

\* try_consume: the claim is on disk before the first attempt.
SendClaimed ==
  /\ Sending /\ ~locked /\ Used < Ceiling
  /\ quota' = Written(quota, Used + 1)
  /\ claims' = claims + 1
  /\ phase' = "acquire" /\ tries' = 0
  /\ UNCHANGED <<cur, queue, slice, tokens, empties, locked, answer, broken,
                 mails, acked, stray, late, windows, faults>>

\* The claim cannot be written: send raises, and a drain with it.
SendRaises ==
  /\ Sending /\ ~locked /\ Used < Ceiling /\ faults < MaxFaults
  /\ faults' = faults + 1
  /\ quota' \in LeftByDenial(quota, Used + 1)
  /\ Answer("raised")
  /\ broken' = (broken \/ slice # <<>>)
  /\ Goto(<<>>)
  /\ UNCHANGED <<queue, tries, tokens, empties, locked, record, windows>>

\* drain: the queue is taken in one slice before the first attempt.
Drain ==
  /\ phase = "idle" /\ queue # <<>>
  /\ Goto(queue)
  /\ queue' = <<>>
  /\ UNCHANGED <<tries, tokens, empties, locked, answer, broken, quota, record, windows, faults>>

-----------------------------------------------------------------------------
(* The ladder: Gatekeeper._call_with_retry for a single caller.            *)

Acquire ==
  /\ phase = "acquire" /\ tokens > 0
  /\ tokens' = tokens - 1
  /\ phase' = "call"
  /\ UNCHANGED <<cur, queue, slice, tries, empties, locked, answer, broken,
                 quota, record, windows, faults>>

\* The sink returned: submit returns, and the bucket is read.
Sent ==
  /\ Observe /\ Answer("sent") /\ acked' = acked \cup {cur}
  /\ Goto(slice)
  /\ UNCHANGED <<queue, tries, tokens, broken, quota, claims, windows>>

\* The attempt is over for the ladder: the next one, or its last word.
Failed ==
  /\ IF tries < Retries
     THEN /\ tries' = tries + 1
          /\ phase' = "acquire"
          /\ UNCHANGED <<cur, queue, slice, empties, locked, answer>>
     ELSE Refuse /\ Observe /\ UNCHANGED tries
  /\ UNCHANGED <<tokens, broken, quota, claims, acked, windows>>

Delivered ==
  /\ phase = "call"
  /\ mails' = [mails EXCEPT ![cur] = @ + 1]
  /\ Sent
  /\ UNCHANGED <<stray, late, faults>>

Rejected == phase = "call" /\ Failed /\ UNCHANGED <<mails, stray, late, faults>>

\* Mutant: an attempt that timed out is taken for delivered.
TimesOutSent ==
  /\ phase = "call" /\ late[cur] < MaxLate
  /\ late' = [late EXCEPT ![cur] = @ + 1]
  /\ stray' = [stray EXCEPT ![cur] = @ + 1]
  /\ Sent
  /\ UNCHANGED <<mails, faults>>

TimesOut ==
  /\ phase = "call" /\ late[cur] < MaxLate
  /\ late' = [late EXCEPT ![cur] = @ + 1]
  /\ stray' = [stray EXCEPT ![cur] = @ + 1]
  /\ Failed
  /\ UNCHANGED <<mails, faults>>

\* The thread of an attempt that was given up comes to its end.
Straggles(g) ==
  /\ stray[g] > 0
  /\ stray' = [stray EXCEPT ![g] = @ - 1]
  /\ mails' \in {mails, [mails EXCEPT ![g] = @ + 1]}
  /\ UNCHANGED <<phase, memory, quota, claims, acked, late, windows, faults>>

-----------------------------------------------------------------------------
(* Time.                                                                   *)

Refill ==
  /\ tokens < Capacity
  /\ tokens' = tokens + 1
  /\ UNCHANGED <<phase, cur, queue, slice, tries, empties, locked, answer, broken,
                 quota, record, windows, faults>>

\* The hour ends, or the wall clock steps back: a fresh window.  The next
\* claim of it starts from zero, so the file may as well hold it already.
WindowEnds ==
  /\ windows < MaxWindows
  /\ windows' = windows + 1
  /\ quota' = [k \in DOMAIN quota |-> IF Readable(quota[k]) THEN 0 ELSE quota[k]]
  /\ claims' = 0
  /\ UNCHANGED <<phase, memory, mails, acked, stray, late, faults>>

-----------------------------------------------------------------------------
Owed(g) == g = cur \/ \E s \in {queue, slice} : \E i \in DOMAIN s : s[i] = g

\* What send says of a report is true of it, whatever fails or comes late:
\* a report it calls sent was delivered, one it calls queued is still owed and
\* will not be dropped by the drain that takes it up (only a send that raises
\* inside a drain can lose it), and every further copy of a report is the late
\* delivery of an attempt that had timed out.
AnswersAreTrue ==
  \A g \in Game :
    /\ g \in acked => mails[g] >= 1
    /\ answer[g] = "queued" => Owed(g) \/ broken
    /\ mails[g] <= late[g] + Cardinality(acked \cap {g})
    /\ phase = "send" /\ g = cur /\ answer[g] = "queued" => Len(queue) < QueueDepth

\* The hourly ceiling is kept over every process that ends and every fault:
\* one killed process or one denied write never lets a send through twice.
QuotaIsKept == faults <= 1 => claims <= Ceiling
=============================================================================
