------------------------ MODULE ProviderPolling_proofs ------------------------
(***************************************************************************)
(* Proofs about ProviderPolling, for every retry and polling configuration *)
(* the client accepts and every provider.                                  *)
(***************************************************************************)
EXTENDS ProviderPolling, TLAPS

-----------------------------------------------------------------------------
(* Arithmetic and the delays.                                              *)

\* What one more attempt may add to the time of a request: the request itself,
\* the sleep before the next one, and its lateness.
RetryCost == ReqTimeout + MaxDelay + Lateness

\* The time of the attempts before the n-th.
Spent(n) == (n - 1) * RetryCost

\* Each attempt adds its cost, and the bound of a whole request is that of its last
\* attempt and the time of the attempts before it.
LEMMA SpentGrows ==
  /\ Spent(1) = 0
  /\ \A n \in 1 .. MaxAttempts : /\ Spent(n) \in Nat
                                 /\ Spent(n + 1) = Spent(n) + RetryCost
                                 /\ Spent(n) + ReqTimeout <= RequestBound
<1> RetryCost \in Nat /\ MaxAttempts \in Nat /\ ReqTimeout \in Nat
  BY ConstantsAssumption DEF RetryCost
<1>1. Spent(1) = 0
  BY DEF Spent
<1>2. RequestBound = (MaxAttempts - 1) * RetryCost + ReqTimeout
  BY ConstantsAssumption DEF RequestBound, RetryCost
<1>3. ASSUME NEW n \in 1 .. MaxAttempts
      PROVE  /\ Spent(n) \in Nat
             /\ Spent(n + 1) = Spent(n) + RetryCost
             /\ Spent(n) + ReqTimeout <= RequestBound
  <2>1. \A a, b, k \in Nat : a <= b => a * k <= b * k
    OBVIOUS
  <2>2. \A a, k \in Nat : a * k \in Nat /\ (a + 1) * k = a * k + k
    OBVIOUS
  <2>3. n - 1 \in Nat /\ MaxAttempts - 1 \in Nat /\ n - 1 <= MaxAttempts - 1
        /\ (n + 1) - 1 = (n - 1) + 1
    OBVIOUS
  <2>4. /\ (n - 1) * RetryCost \in Nat
        /\ ((n - 1) + 1) * RetryCost = (n - 1) * RetryCost + RetryCost
    BY <2>2, <2>3
  <2>5. (n - 1) * RetryCost <= (MaxAttempts - 1) * RetryCost
    BY <2>1, <2>3
  <2>6. (MaxAttempts - 1) * RetryCost \in Nat
    BY <2>2, <2>3
  <2>7. QED BY <1>2, <2>3, <2>4, <2>5, <2>6 DEF Spent
<1>4. QED BY <1>1, <1>3

\* A fallback delay is between zero and the configured maximum.
LEMMA FallbackDelayBounds == FallbackDelays \subseteq 0 .. MaxDelay
BY DEF FallbackDelays

\* So is the delay after a response, and it is not shorter than its Retry-After.
LEMMA ResponseDelayBounds ==
  ASSUME NEW after \in RetryAfters, NEW delay \in ResponseDelays(after)
  PROVE  delay \in 0 .. MaxDelay /\ (after # NULL => after \in Nat /\ delay = after)
BY ConstantsAssumption, FallbackDelayBounds DEF ResponseDelays

-----------------------------------------------------------------------------
(* The inductive invariant.                                                *)

\* Transmissions are counted with attempts, and a POST has one of each; a response
\* that was handed over ends the request; a result ends the call.
Accounting ==
  /\ sent = IF phase = "send" THEN attempt - 1 ELSE attempt
  /\ kind = "post" => /\ attempt = 1 /\ effects <= sent
                      /\ phase \in {"send", "returned"}
  /\ kind = "wait" => effects = 0
  /\ phase = "backoff" => attempt < MaxAttempts
  /\ handed => phase \notin {"send", "backoff"}
  /\ result # "none" => phase = "returned"

\* Where the clock stands: a request starts by the deadline, give or take the
\* lateness of the sleep before it, and its attempts add their cost.
OnTime ==
  LET began == Deadline + Lateness + Spent(attempt)
  IN kind = "wait" =>
       /\ phase = "send" => now <= began
       /\ phase # "send" => now <= began + ReqTimeout
       /\ phase = "sleep" => now <= Deadline /\ wake <= Deadline

\* The last sleep set a time to wake that honours the provider's wish.
Waking ==
  /\ phase = "send" => now >= notBefore
  /\ phase = "backoff" => notBefore <= wake /\ wake - now <= MaxDelay
  /\ phase # "backoff" => notBefore <= now
  /\ phase \in {"backoff", "sleep"} => now <= wake

\* A status that was not complete is at most one request old.
Fresh ==
  phase = "polled" /\ ~complete => finish = NULL \/ finish > now - ReqTimeout

IInv == TypeOK /\ Accounting /\ OnTime /\ Waking /\ Fresh /\ TimeoutIsFresh

\* The initial state satisfies the invariant.
LEMMA InitIInv == Init => IInv
<1> SUFFICES ASSUME Init PROVE IInv
  OBVIOUS
<1> USE ConstantsAssumption DEF Init
<1>0. handed \in BOOLEAN /\ complete \in BOOLEAN
  BY Zenon
<1>1. TypeOK
  BY <1>0 DEF TypeOK
<1>2. Accounting /\ Waking
  BY DEF Accounting, Waking
<1>3. OnTime
  BY SpentGrows DEF OnTime, Deadline
<1>4. Fresh /\ TimeoutIsFresh
  BY DEF Fresh, TimeoutIsFresh
<1>5. QED BY <1>1, <1>2, <1>3, <1>4 DEF IInv

\* What the clock and the counters are after a request was sent and its outcome
\* is known, whatever the outcome.
LEMMA AfterTransmit ==
  ASSUME IInv, NEW d \in 0 .. ReqTimeout, Transmit(d), UNCHANGED <<finish, kind, attempt>>
  PROVE  /\ now' \in Nat /\ now' >= now /\ now' >= notBefore
         /\ sent' = attempt' /\ sent' \in 0 .. MaxAttempts
         /\ kind' = "wait" => now' <= Deadline + Lateness + Spent(attempt') + ReqTimeout
<1>1. ReqTimeout \in Nat /\ Deadline \in Nat /\ Lateness \in Nat /\ Spent(attempt) \in Nat
  BY ConstantsAssumption, SpentGrows DEF IInv, TypeOK, Deadline
<1>2. QED BY <1>1 DEF IInv, TypeOK, Accounting, OnTime, Waking, Transmit

\* A request that leaves no side effect behind or one, and ends the call, keeps the
\* invariant.
LEMMA RaiseStep ==
  ASSUME IInv, NEW d \in 0 .. ReqTimeout, Transmit(d), Reached \/ UNCHANGED effects,
         handed' \in BOOLEAN, Raise, UNCHANGED <<finish, kind, attempt>>
  PROVE  IInv'
<1>1. TypeOK' /\ Accounting'
  BY AfterTransmit DEF IInv, TypeOK, Accounting, Transmit, Reached, Raise
<1>2. OnTime' /\ Waking'
  BY AfterTransmit DEF IInv, OnTime, Waking, Raise, Deadline, Spent, RetryCost
<1>3. Fresh' /\ TimeoutIsFresh'
  BY DEF Fresh, TimeoutIsFresh, Raise
<1>4. QED BY <1>1, <1>2, <1>3 DEF IInv

\* A retryable outcome followed by a sleep that honours the provider keeps it.
LEMMA BackoffStep ==
  ASSUME IInv, NEW d \in 0 .. ReqTimeout, Transmit(d), Reached \/ UNCHANGED effects, MayRetry,
         NEW delay \in 0 .. MaxDelay, NEW earliest \in Nat, earliest <= now' + delay,
         Backoff(delay, earliest), UNCHANGED <<finish, kind, attempt>>
  PROVE  IInv'
<1> MaxDelay \in Nat
  BY ConstantsAssumption
<1>1. TypeOK' /\ Accounting'
  BY AfterTransmit DEF IInv, TypeOK, Accounting, Transmit, Reached, MayRetry, Backoff
<1>2. OnTime'
  BY AfterTransmit DEF OnTime, Backoff, Deadline, Spent, RetryCost
<1>3. Waking'
  BY AfterTransmit DEF Waking, Backoff
<1>4. Fresh' /\ TimeoutIsFresh'
  BY DEF IInv, Accounting, Transmit, Fresh, TimeoutIsFresh, Backoff
<1>5. QED BY <1>1, <1>2, <1>3, <1>4 DEF IInv

\* So does a success, whose status is that of a moment of the request.
LEMMA SucceedStep ==
  ASSUME IInv, NEW d \in 0 .. ReqTimeout, Succeed(d)
  PROVE  IInv'
<1> USE DEF Succeed
<1>1. /\ phase' = IF kind = "wait" THEN "polled" ELSE "returned"
      /\ result' = IF kind = "wait" THEN result ELSE "ok"
  BY DEF IInv, TypeOK
<1>2. TypeOK' /\ Accounting'
  BY <1>1, AfterTransmit DEF IInv, TypeOK, Accounting, Transmit, Reached
<1>3. OnTime' /\ Waking'
  BY <1>1, AfterTransmit DEF OnTime, Waking, Deadline, Spent, RetryCost
<1>4. Fresh'
  <2> SUFFICES ASSUME ~complete', finish # NULL PROVE finish > now' - ReqTimeout
    BY DEF Fresh
  <2>1. PICK read \in now .. now + d : complete' = (finish # NULL /\ read >= finish)
    OBVIOUS
  <2>2. finish \in Nat /\ now \in Nat /\ ReqTimeout \in Nat
    BY ConstantsAssumption DEF IInv, TypeOK
  <2>3. ~(read >= finish)
    BY <2>1
  <2>4. QED BY <2>2, <2>3 DEF Transmit
<1>5. TimeoutIsFresh'
  BY <1>1 DEF IInv, Accounting, Transmit, TimeoutIsFresh
<1>6. QED BY <1>2, <1>3, <1>4, <1>5 DEF IInv

\* Every step keeps the invariant.
LEMMA NextIInv == IInv /\ [Next]_vars => IInv'
<1> SUFFICES ASSUME IInv, [Next]_vars PROVE IInv'
  OBVIOUS
<1> USE ConstantsAssumption
<1>1. ASSUME NEW d \in 0 .. ReqTimeout, Request(d) PROVE IInv'
  <2>1. CASE Succeed(d)
    BY <2>1, SucceedStep
  <2>2. CASE RetryStatus(d)
    <3>1. PICK after \in RetryAfters : \E delay \in ResponseDelays(after) :
            Backoff(delay, IF after = NULL THEN now' ELSE now' + after)
      BY <2>2 DEF RetryStatus
    <3>2. PICK delay \in 0 .. MaxDelay :
            /\ after # NULL => after \in Nat /\ delay = after
            /\ Backoff(delay, IF after = NULL THEN now' ELSE now' + after)
      BY <3>1, ResponseDelayBounds, Zenon
    <3>3. now' \in Nat
      BY <2>2, AfterTransmit DEF RetryStatus
    <3>4. now' <= now' + delay /\ now' + delay \in Nat /\ now' + delay <= now' + delay
      <4>1. \A n \in Nat, m \in 0 .. MaxDelay : n <= n + m /\ n + m \in Nat /\ n + m <= n + m
        OBVIOUS
      <4>2. QED BY <3>3, <4>1, Zenon
    <3>5. CASE after = NULL
      <4>1. Backoff(delay, now')
        BY <3>2, <3>5, Zenon
      <4>2. QED BY <2>2, <3>3, <3>4, <4>1, BackoffStep DEF RetryStatus
    <3>6. CASE after # NULL
      <4>1. after = delay /\ Backoff(delay, now' + delay)
        BY <3>2, <3>6, Zenon
      <4>2. QED BY <2>2, <3>4, <4>1, BackoffStep DEF RetryStatus
    <3>7. QED BY <3>5, <3>6
  <2>3. CASE HandOffStatus(d)
    BY <2>3, RaiseStep DEF HandOffStatus
  <2>4. CASE RejectStatus(d)
    BY <2>4, RaiseStep DEF RejectStatus
  <2>5. CASE RetryTransport(d)
    <3>1. PICK delay \in FallbackDelays : Backoff(delay, now')
      BY <2>5 DEF RetryTransport
    <3>2. delay \in 0 .. MaxDelay
      BY FallbackDelayBounds
    <3>3. now' \in Nat /\ now' <= now' + delay
      BY <2>5, <3>2, AfterTransmit DEF RetryTransport
    <3>4. QED BY <2>5, <3>1, <3>2, <3>3, BackoffStep DEF RetryTransport
  <2>6. CASE FailTransport(d)
    BY <2>6, RaiseStep DEF FailTransport, IInv, TypeOK
  <2>7. CASE FailBody(d)
    BY <2>7, RaiseStep DEF FailBody
  <2>8. QED BY <1>1, <2>1, <2>2, <2>3, <2>4, <2>5, <2>6, <2>7 DEF Request
<1>2. ASSUME NEW late \in 0 .. Lateness, RetryNow(late) PROVE IInv'
  <2> USE <1>2 DEF RetryNow, IInv
  <2>1. attempt \in 1 .. MaxAttempts /\ attempt + 1 \in 1 .. MaxAttempts
    BY DEF Accounting, TypeOK
  <2>2. Spent(attempt) \in Nat /\ Spent(attempt + 1) = Spent(attempt) + RetryCost
    BY <2>1, SpentGrows
  <2>3. TypeOK' /\ Accounting'
    BY <2>1 DEF TypeOK, Accounting
  <2>4. OnTime'
    <3> SUFFICES ASSUME kind = "wait" PROVE now' <= Deadline + Lateness + Spent(attempt + 1)
      BY DEF OnTime, Deadline, Spent, RetryCost
    <3>1. now <= Deadline + Lateness + Spent(attempt) + ReqTimeout
      BY DEF OnTime, TypeOK
    <3>2. now' <= now + MaxDelay + Lateness
      BY DEF Waking, TypeOK
    <3>3. QED BY <2>2, <3>1, <3>2 DEF TypeOK, RetryCost, Deadline
  <2>5. Waking'
    BY DEF Waking, TypeOK
  <2>6. Fresh' /\ TimeoutIsFresh'
    BY DEF Fresh, TimeoutIsFresh, Accounting
  <2>7. QED BY <2>3, <2>4, <2>5, <2>6
<1>3. ASSUME NEW late \in 0 .. Lateness, PollAgain(late) PROVE IInv'
  <2> USE <1>3 DEF PollAgain, IInv
  <2>1. kind = "wait" /\ effects = 0
    BY DEF TypeOK, Accounting
  <2>0. handed' \in BOOLEAN
    BY Zenon
  <2>2. TypeOK' /\ Waking'
    BY <2>0 DEF TypeOK, Waking
  <2>3. Accounting'
    BY <2>1 DEF Accounting
  <2>4. OnTime'
    BY SpentGrows DEF OnTime, TypeOK, Deadline
  <2>5. Fresh' /\ TimeoutIsFresh'
    BY DEF Fresh, TimeoutIsFresh, Accounting
  <2>6. QED BY <2>2, <2>3, <2>4, <2>5
<1>4. ASSUME ReturnComplete \/ TimeOut PROVE IInv'
  <2> USE <1>4 DEF ReturnComplete, TimeOut, Return, IInv
  <2>1. TypeOK' /\ Accounting' /\ Waking' /\ Fresh'
    BY DEF TypeOK, Accounting, Waking, Fresh
  <2>2. OnTime'
    BY DEF OnTime, Deadline, Spent, RetryCost
  <2>3. TimeoutIsFresh'
    BY DEF TimeoutIsFresh, Fresh, TypeOK, Deadline
  <2>4. QED BY <2>1, <2>2, <2>3
<1>5. ASSUME SleepUntilPoll PROVE IInv'
  <2> USE <1>5 DEF SleepUntilPoll, IInv
  <2>1. wake' \in Nat /\ now <= wake' /\ wake' <= Deadline /\ now <= Deadline
    BY DEF Smaller, TypeOK, Deadline
  <2>2. TypeOK' /\ Accounting' /\ Waking'
    BY <2>1 DEF TypeOK, Accounting, Waking
  <2>3. OnTime'
    BY <2>1 DEF OnTime, Deadline, Spent, RetryCost
  <2>4. Fresh' /\ TimeoutIsFresh'
    BY DEF Fresh, TimeoutIsFresh, Accounting
  <2>5. QED BY <2>2, <2>3, <2>4
<1>6. ASSUME NextCall PROVE IInv'
  <2> USE <1>6 DEF NextCall
  <2>0. handed' \in BOOLEAN /\ complete' \in BOOLEAN
    BY Zenon
  <2>1. TypeOK'
    BY <2>0 DEF TypeOK
  <2>2. Accounting' /\ Waking'
    BY DEF Accounting, Waking
  <2>3. OnTime'
    BY SpentGrows DEF OnTime, Deadline
  <2>4. Fresh' /\ TimeoutIsFresh'
    BY DEF Fresh, TimeoutIsFresh
  <2>5. QED BY <2>1, <2>2, <2>3, <2>4 DEF IInv
<1>7. CASE UNCHANGED vars
  BY <1>7
  DEF vars, IInv, TypeOK, Accounting, OnTime, Waking, Fresh, TimeoutIsFresh, Deadline, Spent,
      RetryCost
<1>8. QED BY <1>1, <1>2, <1>3, <1>4, <1>5, <1>6, <1>7 DEF Next, Step

-----------------------------------------------------------------------------
(* Theorems.                                                               *)

\* The invariant holds of every behaviour of the client.
LEMMA Invariance == Spec => []IInv
BY InitIInv, NextIInv, PTL DEF Spec

\* Every variable keeps its type: the attempt never exceeds max_retry_attempts.
THEOREM TypeCorrect == Spec => []TypeOK
<1>1. IInv => TypeOK
  BY DEF IInv
<1>2. QED BY <1>1, Invariance, PTL

\* _request never replays: a POST is sent once and has at most one effect, and no
\* request is sent again once its response was handed over.
THEOREM Replays == Spec => []NeverReplayed
<1>1. IInv => NeverReplayed
  BY ConstantsAssumption DEF IInv, TypeOK, Accounting, NeverReplayed
<1>2. QED BY <1>1, Invariance, PTL

\* A retry honours the provider's Retry-After, and no sleep for it exceeds
\* retry_max_delay_seconds.
THEOREM RetriesHonorGuidance == Spec => []RetryAfterIsHonored
<1>1. IInv => RetryAfterIsHonored
  BY DEF IInv, Waking, RetryAfterIsHonored
<1>2. QED BY <1>1, Invariance, PTL

\* wait_for_batch overruns its deadline by at most one late sleep and one status
\* request with all its retries, whatever the configuration.
THEOREM Overrun == Spec => []OverrunIsBounded
<1>1. IInv => OverrunIsBounded
  <2> SUFFICES ASSUME IInv, kind = "wait" PROVE now <= Deadline + Lateness + RequestBound
    BY DEF OverrunIsBounded
  <2>1. Spent(attempt) \in Nat /\ Spent(attempt) + ReqTimeout <= RequestBound
    BY SpentGrows DEF IInv, TypeOK
  <2>2. RequestBound \in Int
    BY ConstantsAssumption DEF RequestBound
  <2>3. now <= Deadline + Lateness + Spent(attempt) + ReqTimeout
    BY <2>1, ConstantsAssumption DEF IInv, TypeOK, OnTime, Deadline
  <2>4. QED BY <2>1, <2>2, <2>3, ConstantsAssumption DEF IInv, TypeOK, Deadline
<1>2. QED BY <1>1, Invariance, PTL

\* A time-out of wait_for_batch is never reported of a batch that was terminal one
\* request time-out before the deadline.
THEOREM FreshTimeouts == Spec => []TimeoutIsFresh
<1>1. IInv => TimeoutIsFresh
  BY DEF IInv
<1>2. QED BY <1>1, Invariance, PTL

=============================================================================
