-------------------------------- MODULE Retry --------------------------------
(***************************************************************************)
(* Which failures of an outgoing call the ladder retries: deadline,        *)
(* deadline_families, deadline_errors and deadline_status.                 *)
(*                                                                         *)
(* A failure is the class of the exception an attempt ended with and the   *)
(* class of its direct cause.  An HTTP status stands for itself: the class *)
(* HTTPStatusError cannot tell a transient answer from one about our own   *)
(* request.                                                                *)
(***************************************************************************)
EXTENDS Naturals

(* RETRYABLE_TRANSPORT_ERRORS: no answer, or a session that broke.         *)
Transport == {"deadline", "mcp", "transport", "stream_closed"}

(* RAISE_UNRETRIED_ERRORS: the peer's tool rejected the call, or the fault *)
(* is ours and would be the same on every attempt.                         *)
RaiseUnretried == {"tool_error", "local_protocol", "unsupported_url"}

RetryableStatus == {"429", "500", "502", "503", "504"}
OtherStatus == {"403", "404", "501"}

Class == Transport \cup RaiseUnretried \cup RetryableStatus \cup OtherStatus
           \cup {"runtime"}
Failure == [kind : Class, cause : Class \cup {"none"}]

Bare(c) == [kind |-> c, cause |-> "none"]

(* The client library re-raises a fault of the connect path as its own.    *)
Wrapped(c) == [kind |-> "runtime", cause |-> c]

(* unsupported_url and local_protocol are transport errors by class; the   *)
(* tuple of raise-first classes takes them out again.                      *)
IsRetryable(c) ==
  c \in Transport \cup RetryableStatus \cup {"local_protocol", "unsupported_url"}

(* unwraps_to_retryable: the direct cause decides, never the wrapper.      *)
UnwrapsToRetryable(f) ==
  /\ f.cause # "none" /\ f.cause \notin RaiseUnretried
  /\ IsRetryable(f.cause)

(* The except clauses of call_with_retry, in their order: what is not      *)
(* retried leaves the ladder as it came.                                   *)
Retried(f) ==
  /\ f.kind \notin RaiseUnretried
  /\ \/ f.kind \in Transport
     \/ f.kind \in RetryableStatus
     \/ f.kind = "runtime" /\ UnwrapsToRetryable(f)

(* After a failed attempt, with `tries` failures before it: another        *)
(* attempt, the verdict OPPONENT_UNRESPONSIVE, or the exception itself.    *)
AfterFailure(f, tries, retries) ==
  IF ~Retried(f) THEN "raise" ELSE IF tries < retries THEN "retry" ELSE "verdict"
=============================================================================
