----------------------------- MODULE GatewayClient -----------------------------
(***************************************************************************)
(* Host tasks that share one OpenTelemetryBatchAPIClient (observability.py *)
(* over batch_api_client.py) whose credentials come from the stores        *)
(* (config_credentials_provider), as `pg_llm_batch submit` assembles it,   *)
(* while operators change the gateway's URL and its API key.               *)
(*                                                                         *)
(* Tasks of one event loop interleave only where they await; the           *)
(* statements of a credentials lookup interleave with other processes      *)
(* only.  The retry loop below a request is ProviderPolling's.             *)
(***************************************************************************)
EXTENDS ConfigStore

CONSTANTS
  Client,     \* the process of the tasks
  Tasks,
  ValidUrls,  \* the URLs that _normalize_gateway_url accepts
  MaxCalls,   \* bound: public calls of all tasks
  MaxPolls    \* bound: polls of one wait_for_batch

ASSUME ClientAssumption ==
  /\ Client \in Processes /\ ValidUrls \subseteq Urls
  /\ MaxCalls \in Nat /\ MaxPolls \in Nat \ {0}

VARIABLES
  fernet,  \* the Fernet key of the client's SecretStore, or NULL
  task,    \* what each task is doing
  balance  \* by operation and outcome: the host's calls that ended so, less the
           \* measurements handed to the meter

client == <<fernet, task, balance>>
vars   == <<stores, client>>

Operations == {"upload_jsonl", "create_batch_job", "delete_file", "get_batch_status",
               "wait_for_batch", "download_results", "cancel_batch"}
Outcomes   == {"success", "error"}

\* frames: the public methods the task is inside, outermost first, and whether
\* _run_observed measures them; depth: the ContextVar in the task's context; url, key:
\* the credentials in use; version: the secret's version when it was read; home: the
\* gateway of the task's first request; file: does the task hold a provider file id?
\* polls: status polls of wait_for_batch, or whether download_results has its first file.
Idle == [phase |-> "idle", frames |-> << >>, depth |-> 0, url |-> NULL, key |-> NULL, version |-> 0,
         home |-> NULL, file |-> FALSE, outcome |-> "success", calls |-> 0, polls |-> 0]

\* The event loop is inside one of the task's synchronous stretches.
Busy(t) == task[t].phase \in {"alias", "base_url", "secret", "return"}

TypeOK ==
  /\ StoresTypeOK
  /\ fernet \in FernetKeys \cup {NULL}
  /\ \A t \in Tasks :
       /\ task[t].phase \in {"idle", "loading", "alias", "base_url", "secret", "request",
                             "sleep", "return"}
       /\ \A i \in DOMAIN task[t].frames :
            task[t].frames[i] \in [op : Operations, observed : BOOLEAN]
       /\ task[t].depth \in {0, 1}
       /\ task[t].url \in Urls \cup {NULL} /\ task[t].home \in ValidUrls \cup {NULL}
       /\ task[t].key \in Nat \cup {NULL, Garbage}
       /\ task[t].calls \in 0 .. MaxCalls
  /\ balance \in [Operations \X Outcomes -> Int]

Init ==
  /\ StoresInit
  /\ fernet \in FernetKeys \cup {NULL}
  /\ task = [t \in Tasks |-> Idle]
  /\ balance = [x \in Operations \X Outcomes |-> 0]

Top(t) == Last(task[t].frames)

Turn(t) == process[Client].phase = "up" /\ \A u \in Tasks \ {t} : ~Busy(u)

-----------------------------------------------------------------------------
(* _run_observed                                                           *)

\* Mutant of IsNested: one depth for the client instead of one per context.
IsNestedAnywhere(r) == r.depth > 0 \/ \E u \in Tasks : task[u].depth > 0

\* self._observation_depth.get() > 0
IsNested(r) == r.depth > 0

\* A call of a public method by a task in state r: the outermost one is measured.
Entered(r, op) ==
  [r EXCEPT !.frames = Append(@, [op |-> op, observed |-> ~IsNested(r)]), !.depth = 1]

\* Where the task goes on when the method on top has returned: to the host, or into
\* the method that called it.  A failure ends the caller too.
Resumed(t) ==
  LET r == [task[t] EXCEPT !.frames = Front(@), !.depth = IF Top(t).observed THEN 0 ELSE @]
  IN IF r.frames = << >> THEN {[Idle EXCEPT !.depth = r.depth, !.home = r.home, !.file = r.file,
                                            !.calls = r.calls]}
     ELSE IF r.outcome = "error" THEN {r}
     ELSE IF Last(r.frames).op = "wait_for_batch"
       THEN {[r EXCEPT !.polls = @ + 1],
             [r EXCEPT !.polls = @ + 1, !.outcome = "error"]}
            \cup (IF r.polls + 1 < MaxPolls THEN {[r EXCEPT !.polls = @ + 1, !.phase = "sleep"]} ELSE {})
       ELSE {r, [r EXCEPT !.phase = "alias"]}

\* The method on top returns or raises.  _emit_measurements hands the meter one point if
\* the frame is measured, whether the meter takes it or fails; the depth is reset.
ReturnFrom(t) ==
  /\ task[t].phase = "return"
  /\ balance' = [balance EXCEPT ![<<Top(t).op, task[t].outcome>>] =
                   @ + (IF Len(task[t].frames) = 1 THEN 1 ELSE 0) - (IF Top(t).observed THEN 1 ELSE 0)]
  /\ \E r \in Resumed(t) : task' = [task EXCEPT ![t] = r]
  /\ UNCHANGED <<stores, fernet>>

-----------------------------------------------------------------------------
(* The operations.                                                         *)

Step(t, r) == task' = [task EXCEPT ![t] = r] /\ UNCHANGED <<fernet, balance>>

\* The method on top ends; its credentials are gone with it.
Ends(r, outcome) == [r EXCEPT !.phase = "return", !.outcome = outcome, !.url = NULL, !.key = NULL,
                              !.version = 0]
Fails(r) == Ends(r, "error")

Calls(t, r) ==
  /\ task[t].phase = "idle" /\ Turn(t)
  /\ MapThenSumSet(LAMBDA u : task[u].calls, Tasks) < MaxCalls
  /\ Step(t, [r EXCEPT !.calls = @ + 1])
  /\ UNCHANGED stores

\* upload_jsonl awaits its payload before it looks up the credentials.
Upload(t) ==
  Calls(t, [Entered(task[t], "upload_jsonl") EXCEPT !.phase = "loading"])

PayloadLoaded(t) ==
  /\ task[t].phase = "loading" /\ Turn(t)
  /\ \/ Step(t, [task[t] EXCEPT !.phase = "alias"])
     \/ Step(t, Fails(task[t]))
  /\ UNCHANGED stores

\* create_batch_job and delete_file with the id of an uploaded file, a poll or a
\* cancellation.
Direct(t, op) ==
  /\ op \in {"create_batch_job", "delete_file"} => task[t].file
  /\ Calls(t, [Entered(task[t], op) EXCEPT !.phase = "alias"])

\* wait_for_batch and download_results call get_batch_status of the same client.
Nesting(t, op) ==
  Calls(t, [Entered(Entered(task[t], op), "get_batch_status") EXCEPT !.phase = "alias"])

\* wait_for_batch polls again.
PollAgain(t) ==
  /\ task[t].phase = "sleep" /\ Turn(t)
  /\ \/ Step(t, [Entered(task[t], "get_batch_status") EXCEPT !.phase = "alias"])
     \/ Step(t, Fails(task[t]))
  /\ UNCHANGED stores

\* _provider asks for the URL of the alias ...
LookUpAlias(t) ==
  /\ task[t].phase = "alias"
  /\ LET s == AfterGet(process[Client], "alias")
     IN /\ process' = [process EXCEPT ![Client] = s]
        /\ Step(t, IF s.cache["alias"] = NULL THEN [task[t] EXCEPT !.phase = "base_url"]
                   ELSE [task[t] EXCEPT !.phase = "secret", !.url = s.cache["alias"].text])
  /\ UNCHANGED <<config, secret, rotated, sets, starts>>

\* ... then for the common one ...
LookUpBaseUrl(t) ==
  /\ task[t].phase = "base_url"
  /\ LET s == AfterGet(process[Client], "base_url")
     IN /\ process' = [process EXCEPT ![Client] = s]
        /\ Step(t, IF s.cache["base_url"] = NULL THEN Fails(task[t])
                   ELSE [task[t] EXCEPT !.phase = "secret", !.url = s.cache["base_url"].text])
  /\ UNCHANGED <<config, secret, rotated, sets, starts>>

\* ... and, if the URL is acceptable, for the API key.
LookUpSecret(t) ==
  /\ task[t].phase = "secret"
  /\ IF task[t].url \notin ValidUrls THEN Step(t, Fails(task[t]))
     ELSE \E key \in RequireSecret(fernet) :
            Step(t, IF key = Error THEN Fails(task[t])
                    ELSE [task[t] EXCEPT !.phase = "request", !.key = key, !.version = rotated,
                                         !.home = IF @ = NULL THEN task[t].url ELSE @])
  /\ UNCHANGED stores

\* The provider answers (external), or the request, its validation or the task itself
\* fails.
Respond(t) ==
  /\ task[t].phase = "request" /\ Turn(t)
  /\ \/ Step(t, [Ends(task[t], "success") EXCEPT
                  !.file = CASE Top(t).op = "upload_jsonl" -> TRUE
                             [] Top(t).op = "delete_file"  -> FALSE
                             [] OTHER -> @])
     \/ Step(t, Fails(task[t]))
  /\ UNCHANGED stores

\* download_results goes on to the error file and looks its credentials up again.
NextFile(t) ==
  /\ task[t].phase = "request" /\ Turn(t)
  /\ Top(t).op = "download_results" /\ task[t].polls = 0
  /\ Step(t, [task[t] EXCEPT !.phase = "alias", !.url = NULL, !.key = NULL, !.version = 0,
                             !.polls = 1])
  /\ UNCHANGED stores

Task(t) ==
  \/ Upload(t)
  \/ PayloadLoaded(t)
  \/ \E op \in {"create_batch_job", "delete_file", "get_batch_status", "cancel_batch"} :
       Direct(t, op)
  \/ \E op \in {"wait_for_batch", "download_results"} : Nesting(t, op)
  \/ PollAgain(t)
  \/ LookUpAlias(t)
  \/ LookUpBaseUrl(t)
  \/ LookUpSecret(t)
  \/ Respond(t)
  \/ NextFile(t)
  \/ ReturnFrom(t)

\* The stores of the client are closed when its tasks have ended, and another process
\* may take over.
CloseClient ==
  /\ \A t \in Tasks : task[t].phase = "idle"
  /\ CloseStore(Client)
  /\ task' = [t \in Tasks |-> [Idle EXCEPT !.calls = task[t].calls]]
  /\ fernet' \in FernetKeys \cup {NULL}
  /\ UNCHANGED balance

Stores ==
  \/ \E p \in Processes : StartStore(p) \/ EnsureDefaults(p) \/ LoadCache(p)
  \/ \E p \in Processes \ {Client}, k \in Keys : \E v \in Inputs(k) : SetValue(p, k, v)
  \/ \E key \in FernetKeys \cup {NULL} : SetSecret(key)
  \/ \E p \in Processes \ {Client} : CloseStore(p)

\* ReturnFrom neither reads nor writes the stores, so their steps need not come between
\* the returns of a task.
Next ==
  \/ Stores /\ UNCHANGED client /\ \A t \in Tasks : task[t].phase # "return"
  \/ CloseClient
  \/ \E t \in Tasks : Task(t)

Spec == Init /\ [][Next]_vars

-----------------------------------------------------------------------------
(* Properties.                                                             *)

\* The key that a request carries is the plaintext that was the latest one when it was
\* looked up, and never a misread one, although it was written with another Fernet key
\* or without one, and the client's process has another key or none.
KeyIsTheSecret ==
  \A t \in Tasks : task[t].phase = "request" => task[t].key = task[t].version

\* Ids are used at the gateway that issued them: all requests of one task go to the
\* gateway of its first one, although operators change the URLs meanwhile.  The
\* exception is an alias that had no row of its own when the process started: the store
\* does not remember that it found none, and the task moves once to the alias's first
\* row.
OneGatewayPerTask ==
  \A t \in Tasks :
    task[t].phase = "request" =>
      \/ task[t].url = task[t].home
      \/ process[Client].loaded["alias"] = 0 /\ TextValue(task[t].url) = process[Client].cache["alias"]

\* Every call of a host is measured exactly once, with its own operation and outcome:
\* tasks that overlap do not hide each other's calls, and the calls inside a call are
\* not counted on their own.
MeasuredOnce == \A x \in Operations \X Outcomes : balance[x] = 0
================================================================================
