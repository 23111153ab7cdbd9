# Pursuit: specification and verification of the peer-to-peer game

`src/src/pursuit` is a game of two autonomous agents, a **police** (the cop of
the engine, first mover) and a **thief**, on a small board with barriers and
scent. Each agent is one process; there is no referee and no shared state. The
two processes talk over MCP calls through tunnels that time out, lose calls
and repeat them, and afterwards each must be able to prove that it played
fairly. This directory models that system in TLA+, checks it with TLC and
proves parts of it with TLAPS.

Paths below are relative to `src/src/pursuit/` unless they say otherwise.

## 1. Inventory

| Component | State it keeps | Operations | What is hard | What makes it correct |
|---|---|---|---|---|
| Turn state machine (`network/state_machine.py`) | INIT, HANDSHAKE, MY_TURN, WAIT_OPPONENT, GAME_OVER, ERROR | `attempt` | two handshake halves share one machine; late offers | never ERROR between honest peers |
| Turn loop, commit-reveal (`network/orchestrator.py`, `turn_*.py`, `commit_state.py`) | board copy, the outstanding commit, captured ACK, buffered FINAL_REVEAL, event log | decide, commit, acknowledge, reveal, resolve | four waits that look only at message types; duplicates; a turn half-resolved on one side | nobody sees an action before both are bound; the boards agree; nobody is accused without a fault |
| Retry ladder (`deadline*.py`) | attempts so far | `call_with_retry`, `bounded` | which failures are retried; an attempt given up may have been delivered | every call and every wait ends |
| Inbound tools and queue (`tools.py`, `envelope.py`, `peer_runtime.py`, `move_payload.py`) | one FIFO per process | accept an envelope, encode and decode a move | it is the only ordering there is | order kept up to repetition; a move means the same on both boards |
| Nonce ledger and audit (`security/`, `network/agent_audit_*`) | ledger on disk, log on disk | append, publish, collect, audit | what two logs of a broken game still prove | an honest peer's ledger passes; a settled board stands |
| Teardown (`agent_teardown.py`) | - | linger, stop | one side leaves while the other still calls | both exit, a published ledger is heard |
| Hint channel (`turn_hint_*.py`) | pending and incoming hint | record, drain, consume | best effort, trails the turn, repeated | each hint spent once, fresh, newest first |
| Start-up (`agent_entrypoint.py`, `client_connect.py`, `handshake*.py`, `game_identity.py`) | game id, digests, candidate ids | connect, offer, respond, adopt, move the log | the peers start at different times and may be of different builds | no mismatch plays; one game id; the audit knows the other |
| Watchdog (`watchdog.py`) | time of the last touch | touch, poll, exit | ladders are longer than its threshold | never kills what is only waiting |
| Gatekeeper (`services/llm/gatekeeper.py`, `bucket.py`, `budget.py`) | semaphore, FIFO, token bucket, budget | `execute` | hand-over of a slot, bounded queue, retries | slots conserved, FIFO, calls come back, every call paid for |
| Durable files (`shared/durable_write.py`) | tmp, target, `.prev` | write, load with fallback | killed or denied between any two steps | what was acknowledged is read again |
| Games-played counter, league ledger (`security/step0_collect.py`, `services/reporting/league_ledger*.py`) | two durable files | declare, count, record | the counter is declared, signed, one game later | never overstated, bounds kept |
| Reporting chain (`services/reporting/chain.py`, `quota.py`, `dos.py`, `gmail_sink.py`, `end_of_game*.py`) | report queue, quota file, DOS latch | send, drain, report a game's end | partial failure, late success | what it says of a report is true; the hourly ceiling holds |
| Match artifacts, agreement (`services/reporting/artifact_*`, `result_*`, `log_join.py`) | journal per game, series file | join, record, agree | two files of one turn joined; restart or denied write within a series | a journal tells its game; the series is the record of the games |
| Replay (`services/reporting/replay_*`) | - | re-hash a journal, rebuild frames | it repeats the engine's rules in its own words | frames are the game |
| Board rules (`sdk/resolve.py`, `terminal.py`, `actions.py`, `shared/board.py`) | none (pure) | resolve a joint turn | swaps, barrier races, order of the tests | both engines call a turn alike |
| Strategy graph and brains (`strategy/graph/`, `strategy/features.py` to `naive.py`) | learned weights | measure, solve, choose | cut vertices, saddles, terminal leaves | features are what they are called; the choice is legal |
| Beliefs, scent, deception (`strategy/belief*`, `scent*`, `deception*`) | belief maps, two scent fields, trust | predict, update, plan, detect lies | floats; what is known when | the true cell is never lost; plans are sound |
| Language (`services/llm/`, `services/language_turn.py`, `network/turn_language*.py`) | hint bank queues, trust | compose, decode | a model may answer anything, late | no coordinate leaves, nothing off the board is believed |
| Views and GUI (`sdk/view_*`, `gui/`) | published snapshot | publish, read, paint | the seat knows what the view must hide | a view never narrows the opponent down |
| Tunnel (`network/tunnel_*.py`) | one external process | start, watch, repair, stop | repair thread against teardown | a drop is answered; nothing outlives a stop that does not raise but one connect |
| Configuration (`shared/*_config.py`, `network/secret_*`) | - | load, refuse | values other parts rely on | a file that loads satisfies their assumptions |

How they interact: the MCP tools of one process are called by the turn loop of
the other and append to its queue; the turn loop pops that queue, writes the
ledger before it sends, logs after it has sent or received, and calls the
gatekeeper for its language; every bounded attempt touches the watchdog, which
runs in a thread of its own. `run_agent` strings the phases together: connect,
handshake, turn loop, audit, counter, report, linger, stop. The viewers are
processes of their own that read a snapshot file.

## 2. Modules

```
TurnMachine --- CommitReveal --+- CommitRevealInv --+- Game_proofs
   |              |            +- EndOfGame - GameLog
   |          JointGame        +- LateCopies - HintChannel - HintChannelInv - Hints_proofs
   |          (abstract)
   +---- Startup (with Handshake, Retry) - Startup_proofs - AgentConfig
DurableFile -+- GameRecords - GameRecords_proofs
             +- ReportChain - MatchReport - MatchReport_proofs
Board --- BoardGraph --- Strategy -+- BoardGame - BeliefGame - BoardGame_proofs
   +----- LocalView (BeliefGame)   +- Deception (with Regions)
Regions - Scent - HintLanguage - Hints_proofs
Gatekeeper - Gatekeeper_proofs           Tunnel - Tunnel_proofs
```

A module `X_proofs` extends what it proves about, and TLAPS; `Game_proofs` holds
the turn loop and the end of the game, which share their lemmas,
`Startup_proofs` what a loaded configuration guarantees as well, and
`Hints_proofs` the hint channel, on top of `Game_proofs`, with the language of
the hints. `CommitRevealInv` and `HintChannelInv` are the inductive invariants.

**CommitReveal** is the core. A step of a peer is what its event loop does
between two awaits: one attempt of one outgoing call, or the handling of one
queued envelope. `pc[p]` is the await the loop stands at; `inbox[p]` the
queue; `ledger[p]`, `log[p]` what is on disk; `hist[p]` the joint turns `p` has
resolved, which stands for its copy of the board, since both engines are
deterministic and fed the same actions; `pending`, `ackd`, `oppCommit` and
`early` are the fields of `CommitState`. Actions: `Decide` (`take_my_turn` up to
the first send, ledger write included), `TakeCommit`, `AcceptAck`,
`AcceptCommit`, `CaptureEarlyAck`, `TakeMatchingAck`, `TakeReveal` (validation,
resolution, the drained hint), `DropJitter`, and for the ladder `PushAnswered`,
`PushUnanswered` (delivered, the answer lost: the retry delivers a second
copy), `PushLost`, `PushRefused` (nobody serves any more), `WaitExpires`,
`WaitExpiresEarly`; `Crash` kills a process at any await. A commit is a value
`Seal(peer, turn, action)`: equal exactly if peer, turn and action are, which is
what a hash with a fresh nonce gives. Legality and capture are parameters, so
what is said holds for every set of board rules.

**JointGame** is what the exchange promises, with no messages in it: both
sides seal one legal action not knowing the other's, the turn is played from
exactly those two, the police learns of it before it seals again.
`CommitReveal!Joint` is the refinement mapping.

**EndOfGame** continues `CommitReveal` behind the turn loop: publication of the
ledger, collection of the opponent's, the audit of both directions
(`security/audit.py`, with the exemption for a trailing entry), the verdict,
the linger, the exit. **GameLog** reads what that leaves on disk: the journal
joined from log and ledger, the capture declaration and the agreement of the two
reports, as operators over the final state. **LateCopies** lets the copy of an abandoned attempt arrive at any
later time; **HintChannel** adds the two hint buffers.

**Startup** is in discrete time. Both peers arm the watchdog, serve, connect
through the ladder and make one handshake call, which the opponent answers in
whatever state it is; both halves write the same `TurnMachine`. A peer is of a
*build* (`Handshake`): the digests, secret and game id it publishes, with
builds of other teams that publish fewer, hash otherwise or name an id no
file can have. `Retry` says which failures of an attempt are tried again.
The game that follows is reduced to its timing: attempts, pauses, language calls.

**Gatekeeper** has one action per await-free segment of `execute`, with the
hand-over of a semaphore slot to a waiter that has not run yet as a state of
its own. **DurableFile** is the three-step write as operators on a triple,
with what a crash inside each step can leave. **GameRecords** puts the counter
and the league ledger of one role over it, from process to process.
**ReportChain** is `send` and `drain` over the quota file, the bucket, the DOS
latch, and a sink whose attempt may deliver after it was given up;
**MatchReport** is the end of a game around it: count, journal, series file,
declaration, report, with a kill or a denied write at each, over restarts. What
its chain ends in (`Sinks`) is fixed per behaviour: a sink handed to the hook, in
either `reporting.mode`; where none is, the dry-run sink that
`build_reporting_chain` makes, or nothing, since in the mode live it refuses
(`ChainRefused`) and the hook contains that. `run_agent` hands in no sink: in the
mode live it writes the files and no chain is ever asked to send them. The shipped
configuration says dry_run.

**Board** holds the rules and the codec of a move; **BoardGraph** what the
strategy measures, cut vertices by the code's own iterative search;
**Strategy** the features, the payoff matrix, the saddle, the brains as sets of
actions; **BoardGame** plays a game on both copies of the board, each move
encoded on one and decoded on the other, under each side's own resolution
file, together with the frames a replay would show; **BeliefGame** adds
the belief maps (as supports) that choose the actions, and what the live view
publishes, through **LocalView**, from view record to painted panel.
**Deception** is the planning of what to claim.
**Scent** and **HintLanguage** are pure: trails, lie detector and trust in
integer units; provider replies, wording ladder, hint bank, schema and the time
budget of a turn. **Tunnel** runs the event loop, the watch task and its worker
thread around one agent process; every call on the agent may fail, the two of the
teardown too, which nothing guards (`Raises`). **AgentConfig** is every loader, as a
predicate on parsed JSON.

In every module, definitions whose comment begins `Mutant:` are the code with a
plausible bug. They are used by no specification; each shows that a property
would notice that bug.

## 3. What the runs check

| Run | Configuration | Question |
|---|---|---|
| `core_safety` | 2 turns, 2 actions, 1 retry, 2 faults, hints on | the inductive invariant `CInv`, which holds `IInv`; `BothLocked`, `WireMatchesLedger`, `ResolvesSealedActions`, `EvidenceMatchesLedger`, `NoFalseRejection`, `OutcomeIsShared`; and `ImplementsJointGame` |
| `end_of_game` | 2 turns, 1 retry, 2 faults, fair event loops | what an audit can conclude (`MismatchOnlyForUnseenCommit`, `BoardOutcomeStands`), that a journal alone tells the game and opens what it has as sent (`JournalsTellTheGame`), `PublishedIsHeard`, and the liveness `BothExit`, `CleanEnding` |
| `hint_channel` | 4 turns, 1 retry, 2 faults | `HintsKeepUp`, `DecodesNewest`; facts of scent and language |
| `startup` | attempt 2, pause 1, threshold 4 ticks, 2 retries, 1 fault; this build against itself and six others, at addresses that refuse, are mute or answer 404 | `MismatchNeverPlays`, `SameGameId`, `AuditKnowsTheId`, `LateHandshakeHarmless`, `NoFalseFreeze`, and the liveness `StartupEnds`; facts of the configuration |
| `gatekeeper` | 4 calls, 1 or 2 slots, queue of 2, 1 retry, bucket of 1 | `SlotsConserved`, `EveryCallIsPaid`, `NoOvertaking`, and the liveness `EveryCallEnds` |
| `game_records` | 4 games, 2 opponents, 2 games per team, 2 crashes, denied steps | `NeverOverstated`, `CountKept`, `LedgerWithinBounds` |
| `board_game` | 3x3 cells, 2 barriers, 3 turns, every pair of resolution files | `EnginesAgree`, `KillRangeIsForced`, `FeaturesDescribeTheBoard`, `ReplayExactUntilRace`, `DrawnHidesTheCell`, `OnlyASealHidesTheCop`; facts of the planners |
| `match_report` | 3 games, each of the three ends of the chain, ceiling 2, queue 2, 1 retry, 1 late delivery, 1 window, 2 faults | `AnswersAreTrue`, `QuotaIsKept`, `SeriesIsTheRecord` |
| `tunnel` | 3 repair attempts, 3 drops | `OneStraggler`, and the liveness `DropIsAnswered` |
| `honest_audit`, `never_connected`, `unsafe_saddle` | one property each | three statements of the sources that the code does not keep (section 6) |

Some statements are about pure functions only, and no state of a run bears on
them. They stand as named `ASSUME`s of the MC modules, where TLC evaluates them
over bounded inputs before the run: in `MCHintChannel` `DetectorTellsFar`,
`CrossingLooksLikeALie`, `TrustRecovers`, `BankCycles`, `NoCoordinateLeaves`,
`WhatIsReadIsUsable`, `ReasonsAreKnown`, with the shipped scent kernel; in
`MCBoardGame` `ThievesPlansAreSound`, `CopsPlansAreSound`,
`HintLogGrowsByNews`, `TornSnapshotKeepsTheScreen`; in `MCStartup` that the
shipped configuration loads and that each of twelve faults in it is refused.

**Bounds.** Every bound is a constant and stands in a guard. *Two turns* make
a message of the previous turn, the present and the last one exist, which is
every relation the waits can confuse; the hints trail by two turns, so
`hint_channel` plays four. *Two actions* distinguish a sealed action from another
one; the toy board lets legality depend on the history and a capture happen or
not. *One retry* gives a duplicate, a lost attempt and an exhausted ladder; a
second retry adds a third identical copy. *Two faults* let one fault meet the
consequences of another; in the `faults = 0` part of the same state space the
properties about fault-free games are decided. In `startup` the proportions of
Table 19 matter, not the seconds: one attempt and a pause stay below the
watchdog's threshold (30 + 5 < 60), a second attempt passes it. In `gatekeeper`,
four calls fill two slots and two places of the queue, or overflow one slot.
*Nine cells* are the smallest board with an inner cell, a corridor and a
wall-in; two barriers suffice for a cut vertex, a race, an isolated player
and a cop on its own seal; three turns reach the leaf before the threshold. In
`match_report` three games against a ceiling of two exhaust an hour and let a
second window open.
Nothing here is symmetric between the two peers, whose protocols differ, so no
symmetry is declared.

In `hint_channel`, a turn has one action, nobody dies, and only a REVEAL or a
hint is repeated and only a hint comes late: with late COMMITs the turn loop
itself goes wrong (section 7), and the one-turn window is derived for loops in
lockstep.

`CHECK_DEADLOCK FALSE` stands where the system really stops: games that are
over (`board_game`, `unsafe_saddle`) and processes that have exited (`startup`,
`never_connected`).

**Fairness.** `EndFairSpec` and the `FairSpec`s of start-up, gatekeeper and
tunnel ask weak fairness of the steps of each running event loop, separately
per peer and, in the end-of-game model, per phase, and of the tunnel's worker
thread: asyncio runs what is ready, and every await of the code is
bounded by `asyncio.wait_for` or by the client's own timeout, which is why
`WaitExpires` is a step and not a fault. Faults -- lost calls, early
expiry, deaths, hung loops, drops of the agent -- are never required, nor
is the end of a game beside a tunnel. In `startup` and `gatekeeper` the
clock is fair too, and does not advance past a timer that is due. Calls of
the gatekeeper are never required to be answered: they end by their timeout.

## 4. What is proved

For all values of the constants that satisfy the named assumptions:

| Theorem | Statement |
|---|---|
| **`Game_proofs`**, turn loop | |
| `Typing`, `Invariance`, `ClosingInvariance` | `Spec => []TypeOK`, `Spec => []IInv`, `Spec => []CInv` |
| `Gate` | no REVEAL travels before both peers hold each other's commit |
| `WireBacked` | what travels is what its sender had on disk |
| `Resolution` | each resolved turn is made of the two sealed actions |
| `NoDivergence` | the boards agree but for the thief's last turn |
| `SoundEvidence` | logged commits and reveals stand under their turn and match the ledger |
| `FairValidation` | no legal action is rejected |
| `SharedOutcome` | an outcome that the board decided is the same on both sides |
| `Implements`, `EndImplements` | `Spec => JointGame` under the mapping, and `EndSpec` too |
| **`Game_proofs`**, end of the game | |
| `EndInvariance` | `EndSpec => []EndInv` |
| `HonestAudits` | of all checks of the audit only one fails between honest peers, and only for a commit whose call never completed |
| `OutcomeStands` | a mismatch never takes back an outcome that the board decided |
| `LedgersAreHeard` | once its publication was answered, nobody concludes without that ledger |
| `Journals` | each journal tells its owner's game, opens every commitment it has as sent, and corroborates the other |
| **`Startup_proofs`** | |
| `StartTypeCorrect` | every variable keeps its type, no timed stage outlasts its limit |
| `MismatchSafe` | a peer whose opponent differs in something it locked never plays |
| `GamesAreJoined` | both play under the id the police published, if the logs could move |
| `AuditIsForewarned` | the opponent's id is in the candidate set, whatever log stayed |
| `WatchdogIsPatient` | if `Timeout + Backoff <= Threshold`, no freeze verdict on a waiting ladder |
| `LateOffersTolerated` | late handshake calls leave the machine of a game where it stands |
| `GatekeeperIsFed`, `PublishedSupportIsWide`, `LivePlayIsConcrete` | what a loaded language, belief and live league file guarantees |
| **`Gatekeeper_proofs`** | |
| `Books`, `GatekeeperTypes` | the inductive invariant; types and the bound of the queue |
| `Slots` | no slot leaks or is forged, no waiter sleeps beside a free one |
| `Payments` | every call is counted, the rung never lags; with one slot the rate holds over every span |
| `Order` | nobody overtakes a waiting call |
| **`GameRecords_proofs`** | |
| `RecordsInvariance`, `RecordTypes` | the inductive invariant; types |
| `HonestCount` | the declared count never exceeds the games played |
| `NoCountLost` | a count written is read again, if no replace tears the file |
| `LedgerBounds` | every generation of the ledger on disk keeps the league's bounds |
| **`MatchReport_proofs`** | |
| `ReportInvariance` | the inductive invariant |
| `TrueAnswers` | what the chain says of a report is true of it |
| `CeilingKept` | the hourly ceiling holds, as long as no two writes of an hour fail |
| `FaithfulSeries` | the series file is the record of the games, through any single fault; each report was put to the chain, unless live mode was given no transport |
| **`BoardGame_proofs`** | |
| `BoardInvariance` | the inductive invariant |
| `OneGame` | both copies of the board are one game, but for what nobody negotiated |
| `BesideIsLost` | beside a cop with quota left, some seal captures wherever the thief goes |
| `ReplayIsExact` | the frames are the game, until a barrier race |
| `TrueCellIsCredited` | the maps lose the opponent only on its own seal |
| `ViewsHideTheCell` | what is painted lights all free cells or none |
| `DistancesAreHops` | the breadth-first search answers for exactly the reachable cells, with the hops of the shortest ways |
| `MeasuresAreTrue` | the chokepoints and the forest test of the thief's region mean what they say, on a board of any size |
| `MeasuresAreExact` | the same of any finite set of cells that does not fall apart |
| `ChaserCloses` | every step the chasing cop draws from is one hop nearer to the thief |
| `SaddleRowIsSafe` | the row of a saddle secures the value on any matrix of integers |
| `TruthFloorIsKept` | the thief's lie probability respects the floor, its plans are valid, no lie names what its scent gives away |
| **`Tunnel_proofs`** | |
| `StragglersBounded` | at most one connect after the stop; only that one, or a teardown call that raised, leaves the domain bound |
| **`Hints_proofs`**, the channel | |
| `HintInvariance` | `HintSpec => []HintInv` |
| `HintsInTime` | a peer that decides has met the hint of the turn before, if it was answered |
| `NewestIsDecoded` | a decision decodes the newest hint that came, once, of the last two turns |
| `HintsDisturbNothing` | `HintSpec => JointGame` under the same mapping |
| **`Hints_proofs`**, the language | |
| `SentHintIsSendable`, `DeclaredIsWhatSpeaks`, `DecodedIsUsable` | what leaves has no coordinate and keeps a word limit, comes from who was declared, and what is read is usable evidence |
| `TurnFitsItsBudget`, `ReliabilityIsClamped`, `BankNeverRepeats` | the turn's budget, the trust's clamp, the bank's cycles |
| `DetectorTells` | a contradiction score is a probability; where the opponent just was is never a lie, where its trail never reaches always is |

The assumptions of `CommitReveal`: `NoAct` is not an action, nobody is
caught before the first turn, and the bounds are naturals. Of `Startup`: a
positive timeout, and any pairings and networks of the declared kinds. Of
`Gatekeeper`: what its parameters' loader accepts (`Positive`, `Thresholds`); the
set of calls may be infinite. Of `Board`: a start on two different cells and a
positive threshold. Of
`Deception`, `Scent` and `HintLanguage`: what their loaders accept. Elsewhere the
bounds are naturals. A marker such as Python's
`None`, or a file that is absent or torn, is none of the values it stands beside
(`MarkersAreNoCounts`, `MarkersAreNoSeries`, `NoneIsApart`, `MarkersAreNoViews`).

*Why an inductive invariant is needed.* None of the waits compares a turn
number or a hash (except the two that match an ACK), so none of the safety
properties is inductive: a stale COMMIT in a queue would satisfy all of them and
break them one step later. The argument that rules it out is about order.
`Rank` numbers the legs of the game (commit, ack, reveal); hints stand outside this
order (`Protocol`). A sender goes through the ranks upward and a retry repeats
the message it stands at, so each inbox is sorted but for its hints (`Ordered`), and nothing in it is below the
reader's `Floor` or above the sender's `Ceiling`. `Standing` and `Counting` tie the
position of the loops to the number of turns sealed and resolved on each side,
`Holding` says who holds whose commit, and `Flight` says of each message in a
queue what stays true while its sender moves on. From these, a COMMIT that the
thief takes in `wait_commit` is of its own turn (`CommitOfThisTurn`), and likewise
the REVEALs (`RevealOfThisTurn`); `StillLegal` and `StillOpen` then give that what is
revealed is legal where it is judged. The proof has one lemma per action, and
lemmas on the steps they share: an attempt (`QuietSend`, `PushInv`), a read
(`TakeSorted`, `ReadState`, `ReadOrder`), a sealing (`SealState`, `SealHolding`).

In `Startup_proofs` the type invariant bounds the watchdog's counter: `Tick`
runs only while no timer is due. `MismatchSafe` is about the machine:
a handshake half that disagrees leaves it where no game can start. `IdInv`
ties each side's id and candidate set to what the police published;
`ClockInv` splits an idle peer's time into attempts and pauses, each shorter
than the threshold because every attempt begins with a touch. `StragglerInv`
says that a worker that stands before a connect has made none since the mark.

*The close of a game.* `IInv` says nothing of what is left when a loop ends, and
a peer may leave with its counterpart a turn ahead. `CInv` adds it: an outcome
belongs to the board of who reports it (`Reports`), nothing is sealed on a
finished board (`Closed`), the REVEAL of a thief that went on, or out, is in the
queue of a police that has not read it (`Delivered`), what was sent is still so
(`Sincere`), a declared capture is one (`Backed`), and of every resolved turn the
log holds the commit and the reveal (`Recorded`). `OutcomeIsShared` follows from
`Delivered`: the police cannot run out of time beside a board on which it is over.
`EndInv` carries `CInv` through the audit. No step behind the loop touches a
board, so only what an audit concludes is new (`Concluded`), and where the ledger
it has not heard may be (`AtHand`). A mismatch needs an entry with no evidence
(`Unseen`), and `Recorded` leaves only the one after the last resolved turn.

*Hints.* `HintInv` carries `IInv` through `HintSpec`: a hint that comes late, or
is repeated between the legs of a turn, is none of the messages `Ordered` speaks
of. What it adds is about two questions. Why is one turn of lookback
enough? The call that sends a hint is answered before its sender goes on, so a hint
that was answered stands behind no message of a later turn (`Owed`, `InLine`), and
its receiver, which has to read one to resolve another turn, meets it first; with no
fault every turn below the sender's was hinted at (`AllTold`). Why do two buffers
lose none? `incoming_hints` holds the greatest stamp not yet spent (`Newest`), and
`pending_hints`, with nothing to spend, the mark of the last one that was, so
that a copy is told from news; the mark may go only once that hint has left the
window (`Marked`).

*Gatekeeper.* `GInv` keeps three books, one per resource. `SlotBook` counts a slot
as free, held, or handed to a waiter that has not run yet; that a free slot
beside a queue implies such a waiter is what a hand-over can break. `BudgetBook`
counts what is reserved by where each call stands. `BucketBook` says, for one
slot, that whoever sleeps finds a token when it wakes; `EveryCallIsPaid` over any
span of time follows, because `allowance`, the most that any span has
left over, then equals the bucket. Each book has a lemma per kind of movement, and
each action is a few movements.

*Durable records.* In `GameRecords_proofs` the steps of a write and the kills in
them move contents between the generations of a file or lose them, and make none
up (`Held`): what holds of every value begun to be written holds of all that is
read. `Kept` says which generation has the count at each step. In
`MatchReport_proofs` both files rest on one lemma: one kill or denied replace
leaves the last whole contents readable, or the new ones. `Once`, `Room` and `Told`
follow a report through the caller's hands, the slice of a drain and the queue;
`Posted` pairs deliveries with attempts; the rest are books of a file each.

*Board.* Nobody shares a cell in an open game, so the cell a word is decoded from
is the one it was encoded on (`WordFits`): what one side plays is what the other
decodes, the copies stay equal, and everything else is about one board.
`Credited` is the strengthening for the maps: they keep *every* free cell, not
only the true one, since motion adds and no evidence removes a cell, except an
exact observation, which keeps the cell it names. For the panels, no shade of
the ramp, however low, is the background, whatever the grid's peak.

*Searches and scores.* The induction theorems of the library take an operator as a
parameter, and no prover here can instantiate one. `LeastNatural` stands in: a set
of naturals that is not empty has a least member (the well-founded minimum of the
library, stated of a set), so of the numbers that fail one takes the
least. That is enough for a recursive *function*: `LayersAre` builds the layers of
the breadth-first search up to any depth, `SearchEnds` counts that a layer either
adds a cell or is the last, and `DistancesAreHops` reads off both directions, every
answer is a shortest way and every reachable cell is answered. `SaddleRowIsSafe` and
`DetectorTells` need only least and greatest entries of a row and of a trail.
`SaddleRowIsSafe` is the half of the solver that holds; the column it plays is
finding 3 of section 6. `DetectorTells` says what the detector's two ends mean and
nothing of the scores between, where section 7 has an observation.

*Cut vertices and forests.* `MeasuresAreTrue` is about `articulation_points`, an
iterative search of Hopcroft and Tarjan that keeps its low links by hand. Its
arithmetic on lists is left behind first: `EntersIs`, `LooksBackIs`, `ReturnsIs` and
`EndsIs` say what one visit does to the path, as sets and functions (`Enters`,
`LooksBack`, `Returns`, `Ends`). `WalkInv` is then an invariant of the path. It
speaks of closed parts of a set (`ClosedIn`) in place of ways through it, so that
nothing is an induction along a way: `HangsAt(T, k)` says that every closed part
of `T` with `k` is all of it, `Severed(T)` that some other closed part exists. What
was found from a path cell on hangs at that cell (`Hanging`); a cell that was
left has no neighbour unknown, and none found from a path cell on that it was not
itself found from (`Settled`); the low link of a path cell is the least
discovery number seen from its zone (`LowIsBelow`, `LowIsReached`). That gives both
directions for the caller of a return: a low link not above it severs
(`ReturnsCuts`), one above it does not (`ReturnsHolds`). `CutsSever`, `OthersHold` and
`RootCounts` carry those verdicts to the end of the walk. Each visit marks one edge
or one cell more (`Progress`), so the bound `VisitBound` of the model is never what
stops a walk (`WalkEnds`); nothing else in the proof would have noticed a bound too
small. For `is_forest`, `CycleIsCore` shows that pruning leaves something exactly
where some cells have two neighbours each among themselves; a set that does not
fall apart has at least as many edges as cells but one (`TogetherGrows`), without
such cells at most as many (`CorelessSteps`), and with them at least one more. What a search
finds does not fall apart (`ComponentHangs`), and the thief's region is found by one.

**Only model-checked.** Liveness (`BothExit`, `CleanEnding`, `EveryCallEnds`,
`StartupEnds`, `DropIsAnswered`): TLAPS 1.4.5 proves neither properties under
fairness nor ENABLED. Every safety property that a passing run checks is stated by
a theorem. The named `ASSUME`s of the MC modules that no theorem generalises
(the trust's recovery, the planner of the cop, the shipped files). Nothing here
declares a RECURSIVE operator. `LocalView` leaves the order in which a view lists its
barriers open, since `SelectSeq` cannot be reasoned about; nothing that is
painted depends on it.

## 5. What is not modelled

- The path with `commit_reveal` switched off (`send_move_only`, `await_move`): no
  shipped configuration selects it.
- Dishonest peers: rejected envelopes, malformed ledgers, forged payloads, and
  the `ToolError` branches they lead to. Everything here is about two honest
  peers and a bad network.
- Hashing and signing beyond equality of seals: a seal is payload and hash in one
  value, so the replay verifier's verdict (`replay_verify.py`, which re-hashes each
  opening against the commitment ledgered with it, and the artifact against its own
  digest) has nothing to find here; the texts of prompts, mails and
  declarations; the layout of the artifacts.
- Two processes of one role at the same time, and a peer that is restarted in a
  game: nothing in the handshake binds the two processes of a game together, so
  a restarted peer is answered as agreed. See the hazards.
- Float arithmetic: the masses of beliefs (their supports are modelled; without
  masses `Publishable` has no entropy floor, and publishes more than the code),
  fictitious play (any row instead), the squashing of leaves. The scent's
  strengths are integers in ten-thousandths.
- Drawing and event loops of the viewers; the command line; gates, training,
  submission scripts and notebooks, which are not part of a running peer.

## 6. Where the code and its comments disagree

1. `honest_audit`. `security/audit.py:18-21` says a sealed action that was never
   revealed still matches, because the ledger is written before the REVEAL. It is
   written before the COMMIT too (`turn_commit_ledger.py:89`): if that call never
   completes, no side has observed the commit, and the honest sender is recorded
   as a hash mismatch. `MismatchOnlyForUnseenCommit` and `BoardOutcomeStands`
   bound the damage: it is the only such case, and it never meets a game that the
   board had decided.
2. `never_connected`. The connect ladder runs under the armed watchdog without
   touching it; against an address that accepts and never answers, the process
   is killed in the second attempt instead of ending with no game.
3. `unsafe_saddle`. `pure_saddle` takes the column that is least in the chosen
   row (`strategy/equilibrium.py:40`), not one whose worst case is the value:
   with a tie in that row the thief is handed a column on which another row
   captures it.

## 7. Observations

Met while modelling; each is visible in a definition, and none is claimed by a run.

- *Lie detector.* `observe_reliability` reads the trail while a hint is decoded,
  before `BeliefAdapter.decide` deposits the opponent's known cell. A truthful hint
  of an opponent that has just crossed a region's border scores about 0.3 of a
  contradiction (`CrossingLooksLikeALie`); `strategy/scent_check.py` reckons with one
  decay step past a fresh deposit.
- *Late COMMIT.* `turn_commit_wait.py:86-88` calls a duplicate COMMIT "tolerated
  jitter, dropped". A copy served a turn later would be accepted as that turn's
  commit; it needs a request that outlives its cancelled attempt by a turn.
- *Rate.* With two slots, two callers that sleep for the same token both go out
  (`gatekeeper.py:142`). Latent: every present caller awaits one call at a time,
  and with one slot the law holds (`EveryCallIsPaid`).
- *Durable files.* `read_ledger` tests for the target before it looks at `.prev`
  (`league_ledger.py:97`): between rotate and replace the ledger reads as empty.
  After a torn target the next write rotates it over the good `.prev`
  (`durable_write.py:82`): a crash right there loses the whole count.
- *Tunnel.* The repair tests `_stopped` and connects after it: one agent may come
  up behind the stop (`OneStraggler` says no more than one). `stop` promises to
  disconnect "then kill the local ngrok agent, exactly once each" (lines 142-143),
  but a disconnect that raises (line 149) skips the kill, and `_stopped`, set
  before it, makes every later stop a no-op.
- *Reporting.* `chain.py:92` says send never raises; a quota file that cannot be
  written makes it raise, and a drain loses the rest of its slice. A denied
  counter write (`agent_entrypoint.py:145`) leaves the game unreported. The
  fixed window allows twice the hourly ceiling across its boundary, and one
  claim covers all attempts of a ladder. A late mail is a second copy.
- *Beliefs.* A cop on its own seal is ruled out by the thief's map
  (`belief.py:132-158`), and a thief that steps onto it is not captured under the
  book's rules. `registry.build_brain` passes no resolution rules, so the search
  plans with the preferred ones.
- *Replay.* After a barrier race the viewer moves a thief that the engine held
  (`ReplayExactUntilRace`); `resolution.json` is compared by nobody.
- *Language.* The responder composes on a fresh budget (`turn_actions.py:88-94`);
  the degrade ladder steers only compose, decode calls the model at every rung.
  A hint that is truncated to nothing is sent as an empty text.
- *Start-up.* A denied write of the declaration (`agent_step0_wiring.py:99`) raises
  after an agreed handshake. Nothing checks that an attempt and a pause fit under
  the watchdog's threshold, which `WatchdogIsPatient` assumes.

## 8. Plan

Done: every module above. What is left:

1. **Sessions**: a peer restarted in a game, start-up and turn loop in one state.
2. The `ToolError` branches: a peer of another build whose tools reject an
   envelope, in `CommitReveal` and `EndOfGame`.
3. Late copies of every message type, with what the turn loop does then, as a run
   of its own.
4. Proofs: the planner of the cop.

## 9. Running

```
tlc -workers 2 -config MCCommitReveal.cfg MCCommitReveal.tla   # likewise the others
tlapm Game_proofs.tla                                          # likewise the other *_proofs modules
```

`PROJECT.json` lists the components, the runs, the source lines each definition
stands for, the mutants, the hazards of the code and the findings.
