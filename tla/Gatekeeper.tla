------------------------------ MODULE Gatekeeper ------------------------------
(***************************************************************************)
(* The one door to every external service: services/llm/gatekeeper.py over *)
(* its token bucket (bucket.py) and its token budget (budget.py).          *)
(*                                                                         *)
(* A call reserves budget, is admitted to a FIFO queue of bounded depth,   *)
(* waits for one of the parallel slots, waits for the token bucket, and    *)
(* runs under a timeout; a failure is retried after a backoff.  One step   *)
(* of a call is what its task does between two awaits.                     *)
(*                                                                         *)
(* Time is discrete.  The bucket counts ticks of refill, TokenTicks of     *)
(* which make a token: refilling it as time passes is the same as the      *)
(* code's refilling it by the elapsed time whenever it is looked at.       *)
(***************************************************************************)
EXTENDS Integers, Sequences, FiniteSets

CONSTANTS
  Call,          \* the calls submitted
  SlotChoices,   \* values of parallel_requests considered
  QueueDepth,    \* queue_depth
  Retries,       \* retries_before_failure
  Capacity,      \* the bucket's burst, in tokens
  TokenTicks,    \* ticks in which one token is refilled
  Timeout,       \* response_timeout_seconds, in ticks
  Backoff,       \* wait_after_error_seconds, in ticks
  Estimate,      \* tokens a call is estimated to spend
  Usage,         \* tokens a call may turn out to spend
  ShortPrompt,   \* budget thresholds of the two degraded rungs
  TemplateOnly

ASSUME Positive ==
  /\ SlotChoices \subseteq Nat \ {0}
  /\ {Capacity, TokenTicks, Timeout} \subseteq Nat \ {0}
  /\ {QueueDepth, Retries, Backoff, Estimate} \cup Usage \subseteq Nat
\* language_config.py refuses any other ladder.
ASSUME Thresholds == ShortPrompt \in Nat \ {0} /\ TemplateOnly \in Nat /\ ShortPrompt < TemplateOnly

VARIABLES
  slots,     \* parallel_requests, fixed when the gatekeeper is built
  at,        \* at[c]: where call c stands
  queue,     \* calls waiting for a slot, oldest first
  free,      \* the semaphore's value
  bucket,    \* ticks of refill in the bucket
  timer,     \* timer[c]: ticks until c's sleep or timeout is over
  attempts,  \* attempts[c]: failed attempts of c
  reserved,  \* the budget's optimistic count
  spent,     \* tokens of settled calls
  level,     \* the budget's rung: 0 full, 1 short prompt, 2 template only
  allowance  \* (history) ticks of refill left after one token per attempt

vars == <<slots, at, queue, free, bucket, timer, attempts, reserved, spent, level, allowance>>

Waits == {"queued", "woken"}
Holds == {"pacing", "running", "backoff"}
Ended == {"done", "failed", "overflow"}
Full == Capacity * TokenTicks

In(places) == {c \in Call : at[c] \in places}

TypeOK ==
  /\ slots \in SlotChoices
  /\ at \in [Call -> {"new"} \cup Waits \cup Holds \cup Ended]
  /\ queue \in Seq(Call)
  /\ free \in 0 .. slots
  /\ bucket \in 0 .. Full
  /\ timer \in [Call -> Nat]
  /\ attempts \in [Call -> 0 .. Retries]
  /\ reserved \in Nat /\ spent \in Nat /\ level \in 0 .. 2
  /\ allowance \in Int /\ allowance <= Full

Init ==
  /\ slots \in SlotChoices
  /\ at = [c \in Call |-> "new"]
  /\ queue = <<>>
  /\ free = slots
  /\ bucket = Full
  /\ timer = [c \in Call |-> 0]
  /\ attempts = [c \in Call |-> 0]
  /\ reserved = 0 /\ spent = 0 /\ level = 0
  /\ allowance = Full

-----------------------------------------------------------------------------
(* The budget.                                                             *)

Rung(total) ==
  IF total >= TemplateOnly THEN 2 ELSE IF total >= ShortPrompt THEN 1 ELSE 0

(* _advance: the ladder is only ever climbed.                              *)
Advance(total) == level' = IF Rung(total) > level THEN Rung(total) ELSE level

Reserve ==
  /\ reserved' = reserved + Estimate
  /\ Advance(spent + reserved + Estimate)
  /\ UNCHANGED spent

Settle(used) ==
  LET left == IF reserved > Estimate THEN reserved - Estimate ELSE 0 IN
  /\ reserved' = left
  /\ spent' = spent + used
  /\ Advance(spent + used + left)

-----------------------------------------------------------------------------
(* The token bucket and the start of an attempt.                           *)

(* Attempt of c starts: an outgoing request is made.                       *)
Launch(c) ==
  /\ timer' = [timer EXCEPT ![c] = Timeout]
  /\ allowance' = allowance - TokenTicks

(* The pacing of one attempt: where it leaves c, and what it does to the   *)
(* bucket.  With a token in the bucket there is no await.                  *)
PacedTo == IF bucket >= TokenTicks THEN "running" ELSE "pacing"
Pace(c) ==
  IF bucket >= TokenTicks
  THEN bucket' = bucket - TokenTicks /\ Launch(c)
  ELSE /\ timer' = [timer EXCEPT ![c] = TokenTicks - bucket]
       /\ UNCHANGED <<bucket, allowance>>

(* The sleep is over: try_acquire is called and its answer not looked at.  *)
PaceOver(c) ==
  /\ at[c] = "pacing" /\ timer[c] = 0
  /\ at' = [at EXCEPT ![c] = "running"]
  /\ bucket' = IF bucket >= TokenTicks THEN bucket - TokenTicks ELSE bucket
  /\ Launch(c)
  /\ UNCHANGED <<slots, queue, free, attempts, reserved, spent, level>>

-----------------------------------------------------------------------------
(* Admission.                                                              *)

(* Mutant: the semaphore looks at its value alone.                         *)
SlotAtOnceBarging == free > 0

(* asyncio.Semaphore.acquire does not wait.                                *)
SlotAtOnce == free > 0 /\ In(Waits) = {}

QueueFull == Cardinality(In(Waits)) >= QueueDepth

(* Mutant: a call that overflows reserves nothing.                         *)
SubmitCountingAdmitted(c) ==
  /\ at[c] = "new"
  /\ IF QueueFull
     THEN /\ at' = [at EXCEPT ![c] = "overflow"]
          /\ UNCHANGED <<queue, free, bucket, timer, allowance, reserved, spent, level>>
     ELSE /\ Reserve
          /\ IF SlotAtOnce
             THEN /\ free' = free - 1
                  /\ at' = [at EXCEPT ![c] = PacedTo]
                  /\ Pace(c)
                  /\ UNCHANGED queue
             ELSE /\ at' = [at EXCEPT ![c] = "queued"]
                  /\ queue' = Append(queue, c)
                  /\ UNCHANGED <<free, bucket, timer, allowance>>
  /\ UNCHANGED <<slots, attempts>>

(* submit, up to its first await.                                          *)
Submit(c) ==
  /\ at[c] = "new"
  /\ Reserve
  /\ IF QueueFull
     THEN /\ at' = [at EXCEPT ![c] = "overflow"]
          /\ UNCHANGED <<queue, free, bucket, timer, allowance>>
     ELSE IF SlotAtOnce
     THEN /\ free' = free - 1
          /\ at' = [at EXCEPT ![c] = PacedTo]
          /\ Pace(c)
          /\ UNCHANGED queue
     ELSE /\ at' = [at EXCEPT ![c] = "queued"]
          /\ queue' = Append(queue, c)
          /\ UNCHANGED <<free, bucket, timer, allowance>>
  /\ UNCHANGED <<slots, attempts>>

(* A waiter that was handed a slot runs again.  Before it paces itself it  *)
(* wakes the next one, should a further slot have come free meanwhile.     *)
Resume(c) ==
  /\ at[c] = "woken"
  /\ IF free > 0 /\ queue # <<>>
     THEN /\ at' = [at EXCEPT ![c] = PacedTo, ![Head(queue)] = "woken"]
          /\ queue' = Tail(queue)
          /\ free' = free - 1
     ELSE /\ at' = [at EXCEPT ![c] = PacedTo]
          /\ UNCHANGED <<queue, free>>
  /\ Pace(c)
  /\ UNCHANGED <<slots, attempts, reserved, spent, level>>

-----------------------------------------------------------------------------
(* The end of an attempt.                                                  *)

(* Mutant: the slot is given back on success alone.                        *)
ReleaseOnSuccess(c, end) ==
  IF end = "failed"
  THEN at' = [at EXCEPT ![c] = end] /\ UNCHANGED <<queue, free>>
  ELSE IF queue = <<>>
  THEN /\ at' = [at EXCEPT ![c] = end]
       /\ free' = free + 1
       /\ UNCHANGED queue
  ELSE /\ at' = [at EXCEPT ![c] = end, ![Head(queue)] = "woken"]
       /\ queue' = Tail(queue)
       /\ UNCHANGED free

(* c ends and releases its slot: to the head of the queue, if there is one.*)
Release(c, end) ==
  IF queue = <<>>
  THEN /\ at' = [at EXCEPT ![c] = end]
       /\ free' = free + 1
       /\ UNCHANGED queue
  ELSE /\ at' = [at EXCEPT ![c] = end, ![Head(queue)] = "woken"]
       /\ queue' = Tail(queue)
       /\ UNCHANGED free

Succeed(c) ==
  /\ at[c] = "running" /\ timer[c] > 0
  /\ timer' = [timer EXCEPT ![c] = 0]
  /\ Release(c, "done")
  /\ \E used \in Usage : Settle(used)
  /\ UNCHANGED <<slots, bucket, attempts, allowance>>

(* Mutant: the retry count starts again with each failure.                 *)
AttemptFailsUncounted(c) ==
  /\ timer' = [timer EXCEPT ![c] = Backoff]
  /\ at' = [at EXCEPT ![c] = "backoff"]
  /\ UNCHANGED <<queue, free, attempts>>

(* The attempt raised: back off, or surface the failure.                   *)
AttemptFails(c) ==
  IF attempts[c] < Retries
  THEN /\ attempts' = [attempts EXCEPT ![c] = @ + 1]
       /\ timer' = [timer EXCEPT ![c] = Backoff]
       /\ at' = [at EXCEPT ![c] = "backoff"]
       /\ UNCHANGED <<queue, free>>
  ELSE /\ timer' = [timer EXCEPT ![c] = 0]
       /\ Release(c, "failed")
       /\ UNCHANGED attempts

Fail(c) ==
  /\ at[c] = "running" /\ timer[c] > 0
  /\ AttemptFails(c)
  /\ UNCHANGED <<slots, bucket, reserved, spent, level, allowance>>

TimeOut(c) ==
  /\ at[c] = "running" /\ timer[c] = 0
  /\ AttemptFails(c)
  /\ UNCHANGED <<slots, bucket, reserved, spent, level, allowance>>

(* Every retry is a request of its own and is paced like the first.        *)
BackoffOver(c) ==
  /\ at[c] = "backoff" /\ timer[c] = 0
  /\ at' = [at EXCEPT ![c] = PacedTo]
  /\ Pace(c)
  /\ UNCHANGED <<slots, queue, free, attempts, reserved, spent, level>>

-----------------------------------------------------------------------------
Tick ==
  /\ bucket < Full \/ allowance < Full \/ \E c \in Call : timer[c] > 0
  /\ bucket' = IF bucket < Full THEN bucket + 1 ELSE bucket
  /\ allowance' = IF allowance < Full THEN allowance + 1 ELSE allowance
  /\ timer' = [c \in Call |-> IF timer[c] > 0 THEN timer[c] - 1 ELSE 0]
  /\ UNCHANGED <<slots, at, queue, free, attempts, reserved, spent, level>>

(* What the event loop does for c without any help from outside.           *)
Run(c) == Resume(c) \/ PaceOver(c) \/ TimeOut(c) \/ BackoffOver(c)

AllEnded == In(Ended) = Call /\ UNCHANGED vars

Next ==
  \/ \E c \in Call : Submit(c) \/ Run(c) \/ Succeed(c) \/ Fail(c)
  \/ Tick
  \/ AllEnded

Spec == Init /\ [][Next]_vars

(* Time passes, and the event loop runs what is due.  No call is ever      *)
(* required to be answered.                                                *)
FairSpec == Spec /\ WF_vars(Tick) /\ \A c \in Call : WF_vars(Run(c))

-----------------------------------------------------------------------------
(* No slot is ever lost or handed out twice, over failures, timeouts and   *)
(* hand-overs to a waiter that has not run yet; and no waiter is left      *)
(* asleep while a slot is free and nobody is about to wake it.  At most    *)
(* queue_depth calls wait, handed-over ones counted, and the FIFO holds    *)
(* exactly the waiters that were not handed a slot, each once.             *)
SlotsConserved ==
  /\ free + Cardinality(In(Holds \cup {"woken"})) = slots
  /\ free > 0 /\ queue # <<>> => In({"woken"}) # {}
  /\ Cardinality(In(Waits)) <= QueueDepth
  /\ {queue[i] : i \in DOMAIN queue} = In({"queued"})
  /\ Len(queue) = Cardinality(In({"queued"}))

(* No call that arrives later gets a slot before one that waits.           *)
NoOvertaking ==
  [][\A c \in Call : at[c] = "new" /\ at'[c] \in Holds => In(Waits) = {}]_vars

(* Every call is paid for.  The degrade ladder counts it from its          *)
(* submission on: one that overflowed or used up its retries stays         *)
(* counted, one that succeeded is counted by what it spent (D-35), and the *)
(* rung never lags behind.  And where calls do not overlap, as in today's  *)
(* callers, Table 19's law holds of attempts, retries included: in no span *)
(* of time do more requests go out than the bucket's capacity and the      *)
(* refill of that span allow.                                              *)
EveryCallIsPaid ==
  /\ reserved = Estimate * Cardinality(In({"queued", "woken", "failed", "overflow"} \cup Holds))
  /\ level >= Rung(spent + reserved)
  /\ slots = 1 => allowance >= 0

(* Every submitted call comes back: with a value, a failure or an overflow.*)
EveryCallEnds == \A c \in Call : at[c] # "new" ~> at[c] \in Ended
=============================================================================
