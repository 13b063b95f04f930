---------------------------- MODULE Reconciliation ----------------------------
(***************************************************************************)
(* Reconciliation passes over the durable lifecycle rows of one tenant:    *)
(* the candidate page (reconciliation_store.py), the bounded worker        *)
(* (reconciliation.py) and the advisory lock that a host may hold around   *)
(* one candidate (reconciliation_single_flight.py).                        *)
(*                                                                         *)
(* The host owns scheduling: it loads a page, hands it to the worker, and  *)
(* starts over.  A pass in single flight takes the lock of each candidate  *)
(* and runs the worker for that one; a session serves one worker and many  *)
(* passes.  Advisory locks belong to the session and are re-entrant: it    *)
(* counts how often it was granted each key, and a pass that raises does   *)
(* not end it.                                                             *)
(* A successful poll goes through the lifecycle recorder, so it makes its  *)
(* row the most recently observed one: `ages` is the table in the order of *)
(* last_observed_at, oldest first.                                         *)
(***************************************************************************)
EXTENDS Integers, FiniteSets, Sequences, SequencesExt

CONSTANTS
  Workers,        \* concurrent hosts, each with a database session of its own
  Jobs,           \* provider batches with a row
  Broken,         \* jobs whose poll always fails
  Fileless,       \* jobs that end without an output or an error file
  MaxCandidates,  \* page size (max_candidates)
  MaxJobs,        \* work budget of a pass (max_jobs)
  MaxScan,        \* MAX_RECONCILIATION_CANDIDATES
  Prepended,      \* jobs a host may put in front of the page it loaded
  SingleFlight,   \* may a pass take the lock of its candidates?  A set of answers
  MaxFaults       \* bound: transient failures, failed lock calls, lost sessions, interrupts

ASSUME ConstantsAssumption ==
  /\ IsFiniteSet(Jobs) /\ Broken \subseteq Jobs /\ Fileless \subseteq Jobs
  /\ Prepended \subseteq Jobs
  /\ MaxCandidates \in 1 .. MaxScan /\ MaxJobs \in Nat \ {0} /\ MaxScan \in Nat
  /\ SingleFlight \subseteq BOOLEAN /\ MaxFaults \in Nat

VARIABLES
  ages,       \* the rows, least recently observed first
  finished,   \* jobs that are terminal at the provider
  retrieved,  \* jobs whose results some pass has downloaded
  holds,      \* advisory locks: how often each worker's session holds each job's key
  unproven,   \* lock calls of that session, per job, that ended without a valid answer
  worker,     \* the pass each worker is executing
  faults      \* faults so far

vars == <<ages, finished, retrieved, holds, unproven, worker, faults>>

locks == <<holds, unproven>>

\* locking: does the pass take locks?; todo: candidates not yet dealt with, the
\* current one first; selected: their number at the start; processed, failed,
\* deferred: what the pass counted.
Idle == [phase |-> "idle", session |-> TRUE, locking |-> FALSE, todo |-> << >>, selected |-> 0,
         processed |-> 0, failed |-> 0, deferred |-> 0]

TypeOK ==
  /\ ages \in [1 .. Cardinality(Jobs) -> Jobs]
  /\ finished \subseteq Jobs /\ retrieved \subseteq Jobs
  /\ holds \in [Workers -> [Jobs -> Nat]] /\ unproven \in [Workers -> [Jobs -> Nat]]
  /\ worker \in [Workers ->
       [phase : {"idle", "next", "poll", "download", "release", "done", "refused"},
        session : BOOLEAN, locking : BOOLEAN, todo : Seq(Jobs), selected : Nat,
        processed : Nat, failed : Nat, deferred : Nat]]
  /\ faults \in 0 .. MaxFaults

-----------------------------------------------------------------------------
(* Candidate selection.                                                    *)

FirstN(s, n) == SubSeq(s, 1, IF Len(s) < n THEN Len(s) ELSE n)

\* Mutant of Page: the most recently observed rows come first.
PageNewestFirst == FirstN(Reverse(ages), MaxCandidates)

\* ORDER BY last_observed_at ... LIMIT max_candidates.
Page == FirstN(ages, MaxCandidates)

\* Mutant of Scanned: identities are not compared.
ScannedWithRepeats(candidates) == FirstN(FirstN(candidates, MaxScan), MaxJobs)

\* The scan of _select_candidates: the first max_jobs distinct identities among
\* the first MaxScan candidates.
Scanned(candidates) ==
  LET seen   == FirstN(candidates, MaxScan)
      firsts == {i \in DOMAIN seen : \A k \in 1 .. i - 1 : seen[k] # seen[i]}
      upto(i) == Cardinality({k \in firsts : k <= i})
      found  == Cardinality(firsts)
  IN [n \in 1 .. (IF found < MaxJobs THEN found ELSE MaxJobs) |->
        seen[CHOOSE i \in firsts : upto(i) = n]]

\* The scan ended with budget to spare and candidates left.
Saturated(candidates) == Len(Scanned(candidates)) < MaxJobs /\ Len(candidates) > MaxScan

-----------------------------------------------------------------------------
(* A pass.                                                                 *)

NoJobs == [j \in Jobs |-> 0]

Init ==
  /\ ages \in SetToSeqs(Jobs)
  /\ finished = {} /\ retrieved = {}
  /\ holds = [w \in Workers |-> NoJobs] /\ unproven = [w \in Workers |-> NoJobs]
  /\ worker = [w \in Workers |-> Idle]
  /\ faults = 0

Inputs == {Page} \cup {<<j>> \o Page : j \in Prepended}

\* load_reconciliation_candidates_in_transaction, validation and selection: no
\* provider call is made before the whole list is known to be acceptable.
StartWith(w, inputs) ==
  /\ worker[w].phase = "idle"
  /\ \E candidates \in inputs, locking \in SingleFlight :
       worker' = [worker EXCEPT ![w] =
         IF Saturated(candidates) THEN [Idle EXCEPT !.phase = "refused"]
         ELSE [Idle EXCEPT !.phase = "next", !.locking = locking, !.todo = Scanned(candidates),
                           !.selected = Len(Scanned(candidates))]]
  /\ UNCHANGED <<ages, finished, retrieved, locks, faults>>

StartPass(w) == StartWith(w, Inputs)

Current(w) == Head(worker[w].todo)
HasWork(w) == worker[w].phase = "next" /\ worker[w].todo # << >>

\* A pass in single flight is about to try the lock of its candidate.
Trying(w) == worker[w].locking /\ HasWork(w) /\ worker[w].session

\* PostgreSQL grants a key that no other session holds (external).
Free(w) == \A v \in Workers \ {w} : holds[v][Current(w)] = 0
Granted(w) == Free(w) /\ holds' = [holds EXCEPT ![w][Current(w)] = @ + 1]

\* pg_try_advisory_lock answers true.
Acquire(w) ==
  /\ Trying(w)
  /\ Granted(w)
  /\ worker' = [worker EXCEPT ![w].phase = "poll"]
  /\ UNCHANGED <<ages, finished, retrieved, unproven, faults>>

\* ... or false: the caller defers the candidate.
Defer(w) ==
  /\ Trying(w)
  /\ ~Free(w)
  /\ worker' = [worker EXCEPT ![w].todo = Tail(@), ![w].deferred = @ + 1]
  /\ UNCHANGED <<ages, finished, retrieved, locks, faults>>

\* Without single flight a pass goes straight to the provider.
Proceed(w) ==
  /\ ~worker[w].locking /\ HasWork(w)
  /\ worker' = [worker EXCEPT ![w].phase = "poll"]
  /\ UNCHANGED <<ages, finished, retrieved, locks, faults>>

\* The recorder stores the observation, and the row becomes the newest.
Observed(j) == ages' = Append(RemoveAt(ages, CHOOSE i \in DOMAIN ages : ages[i] = j), j)

Count(w, outcome) ==
  worker' = [worker EXCEPT ![w].phase = "release", ![w].processed = @ + 1,
                           ![w].failed = IF outcome = "failed" THEN @ + 1 ELSE @]

\* get_batch_status: not terminal yet ...
PollOpen(w) ==
  /\ worker[w].phase = "poll" /\ Current(w) \notin Broken \cup finished
  /\ Observed(Current(w))
  /\ Count(w, "polled")
  /\ UNCHANGED <<finished, retrieved, locks, faults>>

\* ... or terminal, and download_results follows.
PollComplete(w) ==
  /\ worker[w].phase = "poll" /\ Current(w) \in finished \ Broken
  /\ Observed(Current(w))
  /\ worker' = [worker EXCEPT ![w].phase = "download"]
  /\ UNCHANGED <<finished, retrieved, locks, faults>>

\* download_results polls again.  Without a file it reports success False, and
\* the candidate is deferred by the worker.
Download(w) ==
  /\ worker[w].phase = "download"
  /\ Observed(Current(w))
  /\ retrieved' = retrieved \cup ({Current(w)} \ Fileless)
  /\ Count(w, "retrieved")
  /\ UNCHANGED <<finished, locks, faults>>

\* An Exception of the poll or the download is counted and the pass goes on.
FailPermanently(w) ==
  /\ worker[w].phase = "poll" /\ Current(w) \in Broken
  /\ Count(w, "failed")
  /\ UNCHANGED <<ages, finished, retrieved, locks, faults>>

\* Either call may fail after its observation was stored.
FailTransiently(w) ==
  /\ faults < MaxFaults /\ faults' = faults + 1
  /\ worker[w].phase \in {"poll", "download"}
  /\ UNCHANGED ages \/ (Current(w) \notin Broken /\ Observed(Current(w)))
  /\ Count(w, "failed")
  /\ UNCHANGED <<finished, retrieved, locks>>

\* pg_advisory_unlock on a session that is alive takes one grant back (external).
Returned(w) == holds' = [holds EXCEPT ![w][Current(w)] = @ - 1]

\* The body of the context manager is running, or about to be left, with the lock.
InFlight(w) == worker[w].phase \in {"poll", "download", "release"}
Working(w) == worker[w].locking /\ InFlight(w) /\ worker[w].session

\* pg_advisory_unlock answers true, and the next candidate is up.
Release(w) ==
  /\ worker[w].phase = "release"
  /\ worker[w].locking => worker[w].session
  /\ IF worker[w].locking THEN Returned(w) ELSE UNCHANGED holds
  /\ worker' = [worker EXCEPT ![w].phase = "next", ![w].todo = Tail(@)]
  /\ UNCHANGED <<ages, finished, retrieved, unproven, faults>>

EndPass(w) ==
  /\ worker[w].phase = "next" /\ worker[w].todo = << >>
  /\ worker' = [worker EXCEPT ![w].phase = "done"]
  /\ UNCHANGED <<ages, finished, retrieved, locks, faults>>

\* ReconciliationSingleFlightError: the session is gone when the worker tries to
\* acquire or to release, and the pass ends there.
FailOnSession(w) ==
  /\ worker[w].locking /\ ~worker[w].session
  /\ HasWork(w) \/ worker[w].phase = "release"
  /\ worker' = [worker EXCEPT ![w] = Idle]
  /\ UNCHANGED <<ages, finished, retrieved, locks, faults>>

\* The pass leaves with an exception whose lock call on a live session gave no valid answer.
Unproven(w) ==
  /\ faults < MaxFaults /\ faults' = faults + 1
  /\ unproven' = [unproven EXCEPT ![w][Current(w)] = @ + 1]
  /\ worker' = [worker EXCEPT ![w] = Idle]
  /\ UNCHANGED <<ages, finished, retrieved>>

\* A database error, a malformed row or an interrupt while acquiring, which is outside the
\* try statement: whatever PostgreSQL granted is not given back.
FailToAcquire(w) ==
  /\ Trying(w)
  /\ Granted(w) \/ UNCHANGED holds
  /\ Unproven(w)

\* The same while releasing, on the way out of a body that returned or was interrupted:
\* the lock is gone or still held.
FailToRelease(w) ==
  /\ Working(w)
  /\ Returned(w) \/ UNCHANGED holds
  /\ Unproven(w)

\* The host reads the report and begins again.
Resume(w) ==
  /\ worker[w].phase \in {"done", "refused"}
  /\ worker' = [worker EXCEPT ![w] = Idle]
  /\ UNCHANGED <<ages, finished, retrieved, locks, faults>>

\* Whatever the session held is free (external).
SessionEnds(w) ==
  /\ holds' = [holds EXCEPT ![w] = NoJobs]
  /\ unproven' = [unproven EXCEPT ![w] = NoJobs]
  /\ UNCHANGED <<ages, finished, retrieved>>

\* The session is lost, and its locks with it, while the worker goes on with the
\* provider call it is in.  The next pass gets a session that works.
LoseSession(w) ==
  /\ faults < MaxFaults /\ faults' = faults + 1
  /\ worker[w].locking /\ worker[w].session
  /\ worker' = [worker EXCEPT ![w].session = FALSE]
  /\ SessionEnds(w)

\* The session ends while no pass in single flight uses it: it is lost, or the host, which
\* owns the connection, replaces it.
ReplaceSession(w) ==
  /\ ~worker[w].locking
  /\ SessionEnds(w)
  /\ UNCHANGED <<worker, faults>>

\* Mutant of Interrupt: the lock is released only when the body returns.
InterruptLocked(w) ==
  /\ faults < MaxFaults /\ faults' = faults + 1
  /\ worker[w].phase \in {"next", "poll", "download", "release"}
  /\ worker' = [worker EXCEPT ![w] = Idle]
  /\ UNCHANGED <<ages, finished, retrieved, locks>>

\* A BaseException (cancellation, process control) is not a failed outcome: it
\* leaves the pass through the finally clause, which releases the lock.
Interrupt(w) ==
  /\ faults < MaxFaults /\ faults' = faults + 1
  /\ worker[w].phase \in {"next", "poll", "download", "release"}
  /\ IF Working(w) THEN Returned(w) ELSE UNCHANGED holds
  /\ worker' = [worker EXCEPT ![w] = Idle]
  /\ UNCHANGED <<ages, finished, retrieved, unproven>>

\* The provider finishes a batch (external).
ProviderFinishes(j) ==
  /\ j \notin finished
  /\ finished' = finished \cup {j}
  /\ UNCHANGED <<ages, retrieved, locks, worker, faults>>

Pass(w) ==
  \/ StartPass(w)
  \/ Acquire(w)
  \/ Defer(w)
  \/ Proceed(w)
  \/ PollOpen(w)
  \/ PollComplete(w)
  \/ Download(w)
  \/ FailPermanently(w)
  \/ Release(w)
  \/ EndPass(w)
  \/ FailOnSession(w)
  \/ Resume(w)

Fault(w) ==
  \/ FailTransiently(w)
  \/ FailToAcquire(w)
  \/ FailToRelease(w)
  \/ LoseSession(w)
  \/ Interrupt(w)

Next ==
  \/ \E w \in Workers : Pass(w) \/ Fault(w) \/ ReplaceSession(w)
  \/ \E j \in Jobs : ProviderFinishes(j)

Spec == Init /\ [][Next]_vars

\* Hosts keep running passes, again and again over the page as it is loaded, and the
\* provider finishes every batch.
FairSpec ==
  /\ Spec
  /\ \A w \in Workers : WF_vars(Pass(w)) /\ SF_vars(StartWith(w, {Page}))
  /\ \A j \in Jobs : WF_vars(ProviderFinishes(j))

-----------------------------------------------------------------------------
(* Properties.                                                             *)

\* A key is held by one session at most, and by the session of every pass in single flight
\* that is on its batch, so that two such passes meet on a batch only if one of them has
\* lost its session.  Beyond that a session holds no more than what its own lock calls
\* without a valid answer may have left, each at most once: nothing else leaves a lock
\* behind, however often the session re-enters one that was left, and a worker that
\* lost its session never frees the lock its successor holds.
LocksAreOwned ==
  \A j \in Jobs, w \in Workers :
    LET own == IF Working(w) /\ Current(w) = j THEN 1 ELSE 0
    IN /\ holds[w][j] \in own .. own + unproven[w][j]
       /\ holds[w][j] > 0 => \A v \in Workers \ {w} : holds[v][j] = 0

\* A pass polls a batch once although the host lists it twice, stays within its work
\* budget, and accounts for every candidate, whichever of the others failed.
PassAccountsForAll ==
  \A w \in Workers :
    /\ worker[w].selected <= MaxJobs /\ IsInjective(worker[w].todo)
    /\ worker[w].phase # "idle" =>
         worker[w].processed + worker[w].deferred + Len(worker[w].todo)
           = worker[w].selected + (IF worker[w].phase = "release" THEN 1 ELSE 0)
    /\ worker[w].failed <= worker[w].processed

\* Every batch that ends with a file is eventually retrieved, although other
\* batches fail on every poll and stay at the head of the page.  It takes a page
\* and a budget larger than the number of batches that always fail.
EveryResultRetrieved == \A j \in Jobs \ (Broken \cup Fileless) : <>(j \in retrieved)
=============================================================================
