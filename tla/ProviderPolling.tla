--------------------------- MODULE ProviderPolling ---------------------------
(***************************************************************************)
(* One call of BatchAPIClient (batch_api_client.py): the retry loop of     *)
(* _request, and wait_for_batch, which polls through it until a deadline.  *)
(*                                                                         *)
(* Time is counted in whole units of the event loop's clock.  A request    *)
(* takes up to its timeout, a sleep may end late, and the provider reads   *)
(* the batch at some moment while the request is in flight.                *)
(***************************************************************************)
EXTENDS Integers

CONSTANTS
  MaxAttempts,     \* max_retry_attempts
  BaseDelay,       \* retry_base_delay_seconds
  MaxDelay,        \* retry_max_delay_seconds
  ReqTimeout,      \* request_timeout_seconds
  PollInterval,    \* poll_interval_seconds
  WaitTimeout,     \* timeout_seconds of wait_for_batch
  RetryAfters,     \* values of the Retry-After header
  Lateness,        \* by how much a sleep may end late
  FinishTimes,     \* when the batch may become terminal
  NULL             \* no header; the batch never becomes terminal

ASSUME ConstantsAssumption ==
  /\ MaxAttempts \in Nat \ {0} /\ ReqTimeout \in Nat \ {0}
  /\ MaxDelay \in Nat /\ BaseDelay \in 0 .. MaxDelay
  /\ PollInterval \in Nat \ {0} /\ WaitTimeout \in Nat \ {0} /\ Lateness \in Nat
  /\ NULL \notin Nat
  /\ RetryAfters \subseteq Nat \cup {NULL} /\ FinishTimes \subseteq Nat \cup {NULL}

VARIABLES
  now,        \* the clock, from the start of the call
  finish,     \* when the batch becomes terminal
  kind,       \* "wait", or "post" for create, upload and cancel
  phase,      \* what the call is doing
  attempt,    \* attempt of the current request
  wake,       \* when the current sleep ends
  notBefore,  \* the earliest retry the provider asked for
  handed,     \* was a response handed to the caller of _request?
  complete,   \* is_complete of the last status
  sent,       \* transmissions of the current request
  effects,    \* side effects of the current request at the provider
  result      \* how the call ended

vars == <<now, finish, kind, phase, attempt, wake, notBefore, handed, complete,
          sent, effects, result>>

TypeOK ==
  /\ now \in Nat /\ wake \in Nat /\ notBefore \in Nat
  /\ finish \in FinishTimes
  /\ kind \in {"wait", "post"}
  /\ phase \in {"send", "backoff", "polled", "sleep", "returned"}
  /\ attempt \in 1 .. MaxAttempts
  /\ handed \in BOOLEAN /\ complete \in BOOLEAN
  /\ sent \in 0 .. MaxAttempts /\ effects \in Nat
  /\ result \in {"none", "ok", "complete", "timeout", "error"}

\* deadline = loop.time() + timeout_seconds, and the call starts at 0.
Deadline == WaitTimeout

Init ==
  /\ now = 0 /\ wake = 0 /\ notBefore = 0
  /\ finish \in FinishTimes
  /\ kind \in {"wait", "post"}
  /\ phase = "send"
  /\ attempt = 1
  /\ handed = FALSE /\ complete = FALSE
  /\ sent = 0 /\ effects = 0
  /\ result = "none"

-----------------------------------------------------------------------------
(* _request                                                                *)

Smaller(a, b) == IF a < b THEN a ELSE b

\* Mutant of MayRetry: any method.
MayRetryAnyMethod == attempt < MaxAttempts

\* Only a GET is retried, and only while attempts remain.
MayRetry == kind = "wait" /\ attempt < MaxAttempts

\* _fallback_retry_delay: equal jitter below a doubling ceiling.
FallbackDelays ==
  LET ceiling == Smaller(BaseDelay * 2^(attempt - 1), MaxDelay)
  IN {delay \in 0 .. MaxDelay : ceiling \div 2 <= delay /\ delay <= ceiling}

\* Mutant of ResponseDelays: excessive guidance is cut down to the maximum.
CappedDelays(after) == IF after = NULL THEN FallbackDelays ELSE {Smaller(after, MaxDelay)}

\* _retry_delay_for_response: guidance above the maximum is refused.
ResponseDelays(after) ==
  IF after = NULL THEN FallbackDelays
  ELSE IF after > MaxDelay THEN {} ELSE {after}

\* The request leaves, and its outcome is known d later.
Transmit(d) ==
  /\ phase = "send"
  /\ now' = now + d
  /\ sent' = sent + 1

\* A POST that reached the provider has its side effect.
Reached == effects' = IF kind = "post" THEN effects + 1 ELSE effects

Backoff(delay, earliest) ==
  /\ phase' = "backoff"
  /\ wake' = now' + delay
  /\ notBefore' = earliest
  /\ UNCHANGED <<handed, complete, result>>

Raise == phase' = "returned" /\ result' = "error" /\ UNCHANGED <<wake, notBefore, complete>>

\* 200 and a body that decodes: the status of a moment of the request.
Succeed(d) ==
  /\ Transmit(d) /\ Reached
  /\ handed' = TRUE
  /\ \E read \in now .. now + d : complete' = (finish # NULL /\ read >= finish)
  /\ IF kind = "wait" THEN phase' = "polled" /\ UNCHANGED result
                      ELSE phase' = "returned" /\ result' = "ok"
  /\ UNCHANGED <<finish, kind, attempt, wake, notBefore>>

\* 408, 425, 429, 502, 503 or 504, retried after a delay that is acceptable.
RetryStatus(d) ==
  /\ Transmit(d) /\ UNCHANGED effects
  /\ MayRetry
  /\ \E after \in RetryAfters : \E delay \in ResponseDelays(after) :
       Backoff(delay, IF after = NULL THEN now' ELSE now' + after)
  /\ UNCHANGED <<finish, kind, attempt>>

\* The same, handed to the caller: no attempt left, not a GET, or too long a
\* Retry-After.  The caller raises on the status.
HandOffStatus(d) ==
  /\ Transmit(d)
  /\ Reached \/ UNCHANGED effects
  /\ ~MayRetry \/ \E after \in RetryAfters : ResponseDelays(after) = {}
  /\ handed' = TRUE
  /\ Raise
  /\ UNCHANGED <<finish, kind, attempt>>

\* Any other status that is not a success is handed to the caller at once.
RejectStatus(d) ==
  /\ Transmit(d)
  /\ Reached \/ UNCHANGED effects
  /\ handed' = TRUE
  /\ Raise
  /\ UNCHANGED <<finish, kind, attempt>>

\* A connection error or a timeout before the response is handed over.  The
\* request may have reached the provider.
RetryTransport(d) ==
  /\ Transmit(d)
  /\ Reached \/ UNCHANGED effects
  /\ MayRetry
  /\ \E delay \in FallbackDelays : Backoff(delay, now')
  /\ UNCHANGED <<finish, kind, attempt>>

\* The same with no retry left, or a TLS or fingerprint failure.
FailTransport(d) ==
  /\ Transmit(d)
  /\ Reached \/ UNCHANGED effects
  /\ Raise
  /\ UNCHANGED <<finish, kind, attempt, handed>>

\* The body fails after the hand-over: lost, too large, or not a valid status.
FailBody(d) ==
  /\ Transmit(d) /\ Reached
  /\ handed' = TRUE
  /\ Raise
  /\ UNCHANGED <<finish, kind, attempt>>

\* await asyncio.sleep(delay); attempt += 1.
RetryNow(late) ==
  /\ phase = "backoff"
  /\ now' = wake + late
  /\ attempt' = attempt + 1
  /\ phase' = "send"
  /\ UNCHANGED <<finish, kind, wake, notBefore, handed, complete, sent, effects, result>>

-----------------------------------------------------------------------------
(* wait_for_batch                                                          *)

Return(r) ==
  /\ phase' = "returned" /\ result' = r
  /\ UNCHANGED <<now, finish, kind, attempt, wake, notBefore, handed, complete, sent, effects>>

ReturnComplete == phase = "polled" /\ complete /\ Return("complete")

\* Mutant of TimeOut: gives up when the next interval would not fit.
TimeOutEarly == phase = "polled" /\ ~complete /\ Deadline - now <= PollInterval /\ Return("timeout")

TimeOut == phase = "polled" /\ ~complete /\ Deadline - now <= 0 /\ Return("timeout")

\* Mutants of SleepUntilPoll: the remaining time is ignored, and no sleep at all.
SleepWholeInterval ==
  /\ phase = "polled" /\ ~complete /\ Deadline - now > 0
  /\ wake' = now + PollInterval
  /\ phase' = "sleep"
  /\ UNCHANGED <<now, finish, kind, attempt, notBefore, handed, complete, sent, effects, result>>
SleepNever ==
  /\ phase = "polled" /\ ~complete /\ Deadline - now > 0
  /\ wake' = now
  /\ phase' = "sleep"
  /\ UNCHANGED <<now, finish, kind, attempt, notBefore, handed, complete, sent, effects, result>>

\* await asyncio.sleep(min(poll_interval, remaining)).
SleepUntilPoll ==
  /\ phase = "polled" /\ ~complete /\ Deadline - now > 0
  /\ wake' = now + Smaller(PollInterval, Deadline - now)
  /\ phase' = "sleep"
  /\ UNCHANGED <<now, finish, kind, attempt, notBefore, handed, complete, sent, effects, result>>

\* The next poll is a new request.
PollAgain(late) ==
  /\ phase = "sleep"
  /\ now' = wake + late
  /\ phase' = "send"
  /\ attempt' = 1 /\ sent' = 0 /\ handed' = FALSE
  /\ UNCHANGED <<finish, kind, wake, notBefore, complete, effects, result>>

\* The caller goes on to its next call.
NextCall ==
  /\ phase = "returned"
  /\ now' = 0 /\ wake' = 0 /\ notBefore' = 0
  /\ finish' \in FinishTimes /\ kind' \in {"wait", "post"}
  /\ phase' = "send" /\ attempt' = 1
  /\ handed' = FALSE /\ complete' = FALSE
  /\ sent' = 0 /\ effects' = 0 /\ result' = "none"

Request(d) ==
  \/ Succeed(d)
  \/ RetryStatus(d)
  \/ HandOffStatus(d)
  \/ RejectStatus(d)
  \/ RetryTransport(d)
  \/ FailTransport(d)
  \/ FailBody(d)

Step ==
  \/ \E d \in 0 .. ReqTimeout : Request(d)
  \/ \E late \in 0 .. Lateness : RetryNow(late) \/ PollAgain(late)
  \/ ReturnComplete
  \/ TimeOut
  \/ SleepUntilPoll

Next == Step \/ NextCall

Spec == Init /\ [][Next]_vars

\* The event loop runs: requests end by their timeout and sleeps end.
FairSpec == Spec /\ WF_vars(Step)

-----------------------------------------------------------------------------
(* Properties.                                                             *)

\* README.md: "operations are never retried automatically" of POST.  However a
\* request fails, its side effect takes place at most once, and no request is sent
\* again once its response was handed to the caller, even if the body then fails.
NeverReplayed ==
  /\ effects <= 1
  /\ kind = "post" => sent <= 1
  /\ handed => phase \notin {"send", "backoff"}

\* A retry is never earlier than the provider's Retry-After, and the client never
\* sleeps longer than the configured maximum to honour it.
RetryAfterIsHonored ==
  /\ phase = "send" => now >= notBefore
  /\ phase = "backoff" => wake - now <= MaxDelay

\* The longest one status request may take, with all its retries.
RequestBound == MaxAttempts * ReqTimeout + (MaxAttempts - 1) * (MaxDelay + Lateness)

\* wait_for_batch overruns its deadline by at most one status request: neither
\* the poll interval nor a chain of retries adds up beyond it.
OverrunIsBounded == kind = "wait" => now <= Deadline + Lateness + RequestBound

\* A time-out is never stale: a batch that was terminal one request time-out
\* before the deadline is reported as complete.
TimeoutIsFresh ==
  result = "timeout" => now >= Deadline /\ (finish = NULL \/ finish > Deadline - ReqTimeout)

\* Every call ends, although the batch may never become terminal.
CallEnds == phase = "send" ~> phase = "returned"
=============================================================================
