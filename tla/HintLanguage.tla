---------------------------- MODULE HintLanguage ----------------------------
(***************************************************************************)
(* How a hint is worded and read: services/llm (bluff, decode, the schema, *)
(* the word count, the hint bank, the providers), services/language_turn   *)
(* and network/turn_language_io, hint_payload and language_wiring.  What a *)
(* model answers is any reply; an operator that may end several ways is    *)
(* the set of its results.  A text is the number of its words and whether  *)
(* a coordinate stands in it.                                              *)
(***************************************************************************)
EXTENDS Scent, Sequences

CONSTANTS
  WordLimit,     \* language.json, hint_word_limit of the running role
  BankLimit,     \* the same of config/police, against which the bank is checked
  Budget,        \* turn_budget_seconds, in half seconds
  MinCall,
  Prior, RMin, RMax, ContradictionStep, RecoveryRate   \* belief.json, reliability

ASSUME LanguageAssumption ==
  /\ WordLimit \in Nat \ {0} /\ BankLimit \in Nat \ {0}
  /\ Budget \in Nat /\ MinCall \in Nat \ {0}
\* validate_reliability.
ASSUME ReliabilityAssumption ==
  /\ RMin \in 1 .. One - 1 /\ RMax \in 1 .. One - 1 /\ RMin < RMax
  /\ Prior \in RMin .. RMax
  /\ ContradictionStep \in 1 .. One /\ RecoveryRate \in 1 .. One

Text == [words : Nat, coords : BOOLEAN]

\* validate_bank, on import: no template overflows or names a coordinate.
BankText == [words : 1 .. BankLimit, coords : {FALSE}]

FailureReasons ==
  {"no_key", "auth", "rate_limited", "timeout", "connection", "bad_request",
   "schema_invalid", "overflow", "budget_exhausted", "disabled", "unknown"}
\* _map_exception, the first class that fits.
ReasonOf ==
  [GatekeeperOverflow |-> "overflow", APITimeoutError |-> "timeout",
   APIConnectionError |-> "connection", AuthenticationError |-> "auth",
   RateLimitError |-> "rate_limited", APIStatusError |-> "bad_request"]
Exceptions == DOMAIN ReasonOf \cup {"other"}

Failure(reason) == [ok |-> FALSE, reason |-> reason]
Reply(answer) == [ok |-> TRUE, text |-> answer.text, response |-> answer.response]

\* AnthropicProvider.complete, an exception caught by _complete included; an
\* answer is what the API call ended in: an exception, or text that may be JSON.
ProviderReply(keyed, answer, schema) ==
  IF ~ keyed THEN Failure("no_key")
  ELSE IF answer.raised # "no"
       THEN Failure(IF answer.raised \in DOMAIN ReasonOf THEN ReasonOf[answer.raised]
                                                         ELSE "unknown")
  ELSE IF schema /\ ~ answer.json THEN Failure("schema_invalid")
  ELSE Reply(answer)

-----------------------------------------------------------------------------
(* The wording of a hint (bluff.compose).                                   *)

Usable(reply) == reply.ok /\ reply.text.words > 0

\* A cut keeps the front of the sentence, less a trailing stopword: it may lose
\* a coordinate, never gain one.
Truncations(text) ==
  IF text.words <= WordLimit THEN {text}
  ELSE { t \in [words : 0 .. WordLimit, coords : BOOLEAN] : t.coords => text.coords }

\* An overlong hint is asked for again, once, and cut if it is still too long.
Candidate(first, second) ==
  IF first.text.words > WordLimit /\ Usable(second) THEN second.text ELSE first.text

Wordings(templated, first, second) ==
  IF templated \/ ~ Usable(first) THEN BankText
  ELSE UNION { IF t.coords THEN BankText ELSE {t} : t \in Truncations(Candidate(first, second)) }

\* compose goes to the bank without a call on the last rung of the budget.
Templated(provider, level) == provider = "template" \/ level = "template_only"

\* compose_outgoing.
ComposeOutgoing(provider, level, first, second, remaining, took) ==
  IF remaining < MinCall \/ took >= remaining THEN BankText
  ELSE Wordings(Templated(provider, level), first, second)

\* build_hint raises on a coordinate.
BuildHintRaises(text) == text.coords

-----------------------------------------------------------------------------
(* The bank: each phrasing once per cycle, and never twice running.         *)

SwapLastTwo(order) ==
  [i \in DOMAIN order |->
     IF i = Len(order) THEN order[i - 1] ELSE IF i = Len(order) - 1 THEN order[i + 1]
     ELSE order[i]]
FreshCycle(shuffled, previous) ==
  IF Len(shuffled) > 1 /\ shuffled[Len(shuffled)] = previous THEN SwapLastTwo(shuffled)
  ELSE shuffled

\* A bank's entry for one claim, after one selection; shuffled is the draw of a
\* new cycle, when one is due.
Select(entry, shuffled) ==
  LET queue == IF entry.queue = << >> THEN FreshCycle(shuffled, entry.last) ELSE entry.queue
  IN  [queue |-> SubSeq(queue, 1, Len(queue) - 1), last |-> queue[Len(queue)]]

-----------------------------------------------------------------------------
(* The reading of a hint (decode_hint, decode_schema.validate).             *)

Words == {"north", "south", "east", "west", "stay"}

Inferred(region, cells, confidence) ==
  [region |-> region, cells |-> cells, confidence |-> confidence]
NoEvidence == Inferred("null", {}, 0)

\* A response is what the model's JSON holds; list: cells is a list of pairs.
Schema(r) ==
  /\ r.keys
  /\ r.numeric /\ r.confidence \in 0 .. One
  /\ r.region \in Region \cup {"null"}
  /\ r.direction \in Words \cup {"null"}
  /\ r.list /\ r.cells \subseteq Square
  /\ r.confidence > 0 => r.region # "null" \/ r.cells # {}

Validate(r) ==
  IF Schema(r) THEN Inferred(r.region, r.cells, r.confidence) ELSE NoEvidence

\* A hint is what stood in the text field of the payload.
Readable(hint) == hint.string /\ hint.words \in 1 .. WordLimit

Decode(provider, hint, reply) ==
  IF ~ Readable(hint) \/ provider = "template" \/ ~ reply.ok THEN NoEvidence
  ELSE Validate(reply.response)

\* decode_incoming.
DecodeIncoming(provider, hint, reply, remaining, took) ==
  IF remaining < MinCall \/ took >= remaining THEN NoEvidence
  ELSE Decode(provider, hint, reply)

\* observe_reliability.  The trail is read before this decision lays the known
\* cell on it (BeliefAdapter.decide).
Clamped(x) == IF x < RMin THEN RMin ELSE IF x > RMax THEN RMax ELSE x
Reliability(value, score) ==
  Clamped(IF score > 0 THEN value - Times(ContradictionStep, score)
                       ELSE value + Times(RecoveryRate, Prior - value))

-----------------------------------------------------------------------------
(* The time a turn gives to the two calls.                                  *)

Remaining(elapsed) == IF elapsed < Budget THEN Budget - elapsed ELSE 0
Waited(remaining, took) ==
  IF remaining < MinCall THEN 0 ELSE IF took < remaining THEN took ELSE remaining

\* The initiator's compose has what its decode, its decision and the whole
\* commit-reveal exchange have left; the responder's starts on a fresh budget.
InitiatorEnds(decode, between, compose) ==
  LET elapsed == Waited(Budget, decode) + between
  IN  elapsed + Waited(Remaining(elapsed), compose)
ResponderEnds(decode, between, compose) ==
  Waited(Budget, decode) + between + Waited(Budget, compose)

-----------------------------------------------------------------------------
(* What Step 0 declares, and what then speaks (language_wiring).            *)

Providers == {"template", "claude_api"}
DeclaredName(provider, keyed) ==
  IF provider = "template" \/ ~ keyed THEN "template-fallback" ELSE "model"
=============================================================================
