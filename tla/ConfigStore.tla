------------------------------ MODULE ConfigStore ------------------------------
(***************************************************************************)
(* The configuration and secret stores of config.py.  Processes share the  *)
(* tables com_config and com_secrets; each PostgresConfigStore keeps a     *)
(* cache that it fills when it starts and never refreshes, a SecretStore   *)
(* keeps none.  Every statement commits on its own (autocommit), so those  *)
(* of several processes interleave freely.                                 *)
(*                                                                         *)
(* Two kinds of keys stand for the table: "limit" is a declared integer    *)
(* with a default, "alias" and "base_url" are gateway URLs that no default *)
(* declares.  A row is the last of the versions its key has had.           *)
(***************************************************************************)
EXTENDS Integers, Sequences, SequencesExt

CONSTANTS
  Processes,   \* processes with a PostgresConfigStore
  FernetKeys,  \* Fernet keys that the deployment has used
  Urls,        \* texts an operator gives as a gateway URL
  NULL,
  MaxSets,     \* bound: values set
  MaxStarts    \* bound: processes started

ASSUME StoreAssumption ==
  /\ NULL \notin Processes \cup FernetKeys \cup Urls
  /\ MaxSets \in Nat /\ MaxStarts \in Nat

VARIABLES
  config,   \* com_config: the versions of every row
  secret,   \* com_secrets: the row of the API key, or NULL
  rotated,  \* API keys committed to it so far; the n-th plaintext is n
  process,  \* the configuration store of each process
  sets,     \* values set so far
  starts    \* processes started so far

stores == <<config, secret, rotated, process, sets, starts>>

Keys == {"limit", "alias", "base_url"}

IntValue(n)  == [int |-> n]
TextValue(t) == [text |-> t]

\* The text of an integer, and the texts that int() accepts.
Canonical == <<"1", "2">>
IntOf     == [t \in {"1", "2", "02"} |-> IF t = "1" THEN 1 ELSE 2]

\* The default of the declared key.
DefaultLimit == IntValue(1)

\* The values that a row of a key may stand for; no entry of a cache is confused with
\* the absence of one.
ValuesOf(k) == IF k = "limit" THEN {IntValue(1), IntValue(2)} ELSE {TextValue(u) : u \in Urls}

ASSUME NullAssumption == \A k \in Keys : NULL \notin ValuesOf(k)

\* Everything a caller may hand to set() for a key.
Inputs(k) == IF k = "limit" THEN {IntValue(2), TextValue("junk")}
                            ELSE {TextValue(u) : u \in Urls}

\* _serialize_value and _deserialize_value.  An integer that does not parse is the
\* default; an undeclared key keeps its text.
SerializeValue(v) == IF "int" \in DOMAIN v THEN Canonical[v.int] ELSE v.text
DeserializeValue(k, raw) ==
  IF k # "limit" THEN TextValue(raw)
  ELSE IF raw \in DOMAIN IntOf THEN IntValue(IntOf[raw]) ELSE DefaultLimit

\* The value of the current row.
RowValue(k) == DeserializeValue(k, Last(config[k]).text)

\* seen: the version of a row that the process read or wrote last; loaded: the version
\* it started with.
Down == [phase |-> "down", cache |-> [k \in Keys |-> NULL],
         seen |-> [k \in Keys |-> 0], loaded |-> [k \in Keys |-> 0]]

Texts   == {"1", "2", "02"} \cup Urls
Version == [text : Texts, by : {"seed", "default", "set"}]
Cell    == [plaintext : Nat, fernet : FernetKeys \cup {NULL}]

StoresTypeOK ==
  /\ \A k \in Keys : \A i \in DOMAIN config[k] : config[k][i] \in Version
  /\ secret \in [cell : Cell, is_encrypted : BOOLEAN] \cup {NULL}
  /\ rotated \in 0 .. MaxSets
  /\ \A p \in Processes :
       /\ process[p].phase \in {"down", "connected", "defaults", "up"}
       /\ \A k \in Keys : process[p].seen[k] \in 0 .. Len(config[k])
  /\ sets \in 0 .. MaxSets /\ starts \in 0 .. MaxStarts

\* A deployment starts with an empty table or one that was seeded by hand.
StoresInit ==
  /\ \E seeded \in {{}, {"limit", "base_url"}}, url \in Urls :
       config = [k \in Keys |->
         IF k \notin seeded THEN << >>
         ELSE <<[text |-> IF k = "limit" THEN "02" ELSE url, by |-> "seed"]>>]
  /\ secret = NULL /\ rotated = 0
  /\ process = [p \in Processes |-> Down]
  /\ sets = 0 /\ starts = 0

-----------------------------------------------------------------------------
(* PostgresConfigStore                                                     *)

\* __init__ connects.
StartStore(p) ==
  /\ process[p].phase = "down" /\ starts < MaxStarts
  /\ starts' = starts + 1
  /\ process' = [process EXCEPT ![p].phase = "connected"]
  /\ UNCHANGED <<config, secret, rotated, sets>>

Insert(k, text, by) == config' = [config EXCEPT ![k] = Append(@, [text |-> text, by |-> by])]

\* INSERT ... ON CONFLICT DO NOTHING.
InsertDefault ==
  IF config["limit"] = << >> THEN Insert("limit", SerializeValue(DefaultLimit), "default")
                             ELSE UNCHANGED config

EnsureDefaults(p) ==
  /\ process[p].phase = "connected"
  /\ InsertDefault
  /\ process' = [process EXCEPT ![p].phase = "defaults"]
  /\ UNCHANGED <<secret, rotated, sets, starts>>

Exists(k) == config[k] # << >>

LoadCache(p) ==
  /\ process[p].phase = "defaults"
  /\ process' = [process EXCEPT
       ![p].phase = "up",
       ![p].cache = [k \in Keys |-> IF Exists(k) THEN RowValue(k) ELSE NULL],
       ![p].seen  = [k \in Keys |-> Len(config[k])], ![p].loaded = [k \in Keys |-> Len(config[k])]]
  /\ UNCHANGED <<config, secret, rotated, sets, starts>>

\* Mutant of AfterGet: what a miss reads is not kept, and hits are read again.
GetUncached(s, k) ==
  IF Exists(k) THEN [s EXCEPT !.cache[k] = RowValue(k), !.seen[k] = Len(config[k])] ELSE s

\* get: a hit is answered from the cache, a miss from the row, which is cached; a
\* missing row is not remembered.
AfterGet(s, k) ==
  IF s.cache[k] = NULL /\ Exists(k)
    THEN [s EXCEPT !.cache[k] = RowValue(k), !.seen[k] = Len(config[k])] ELSE s

\* Mutant of Normalized: the caller's value is kept.
NotNormalized(k, v) == v

\* set works on the value that its text stands for.
Normalized(k, v) == DeserializeValue(k, SerializeValue(v))

\* set: the upsert commits, then the cache follows, unless the call fails in between.
SetValue(p, k, v) ==
  /\ process[p].phase = "up" /\ sets < MaxSets
  /\ sets' = sets + 1
  /\ Insert(k, SerializeValue(Normalized(k, v)), "set")
  /\ \/ process' = [process EXCEPT ![p].cache[k] = Normalized(k, v), ![p].seen[k] = Len(config[k]) + 1]
     \/ UNCHANGED process
  /\ UNCHANGED <<secret, rotated, starts>>

CloseStore(p) ==
  /\ process[p].phase # "down"
  /\ process' = [process EXCEPT ![p] = Down]
  /\ UNCHANGED <<config, secret, rotated, sets, starts>>

-----------------------------------------------------------------------------
(* SecretStore                                                             *)

\* Mutant of SecretRow: a conflicting upsert leaves is_encrypted alone.
SecretRowKeepsFlag(key, value) ==
  [cell |-> [plaintext |-> value, fernet |-> key],
   is_encrypted |-> IF secret = NULL THEN key # NULL ELSE secret.is_encrypted]

\* _encode, and the row of the upsert: a Fernet token, or base64 without a key.
SecretRow(key, value) ==
  [cell |-> [plaintext |-> value, fernet |-> key], is_encrypted |-> key # NULL]

\* set_secret of a new API key, by an operator whose store has this Fernet key or none.
SetSecret(key) ==
  /\ sets < MaxSets /\ sets' = sets + 1
  /\ secret' = SecretRow(key, rotated + 1)
  /\ rotated' = rotated + 1
  /\ UNCHANGED <<config, process, starts>>

\* What decoding gives that is not the plaintext of any secret, and the outcome of a
\* call that raises.
Garbage == -1
Error   == -2

\* _decode: a token needs its own Fernet key; base64-decoding a token fails or gives
\* bytes that mean nothing.
Decoded(key, row) ==
  IF row.is_encrypted
    THEN {IF key # NULL /\ row.cell.fernet = key THEN row.cell.plaintext ELSE Error}
    ELSE IF row.cell.fernet = NULL THEN {row.cell.plaintext} ELSE {Garbage, Error}

\* require_secret: an absent row is an error too.
RequireSecret(key) == IF secret = NULL THEN {Error} ELSE Decoded(key, secret)

-----------------------------------------------------------------------------
(* Properties.                                                             *)

\* The settings are the operator's, and every process reads them alike.  A default
\* only ever creates a row: starting processes never replaces what was seeded or set,
\* although they start while it is being set.  And two processes that know the same
\* version of a row hold the same value, whether they wrote it, loaded it or read it
\* on a miss.
SettingsAgree ==
  /\ \A k \in Keys : \A i \in DOMAIN config[k] : i > 1 => config[k][i].by = "set"
  /\ \A p, q \in Processes, k \in Keys :
       /\ process[p].cache[k] # NULL /\ process[q].cache[k] # NULL
       /\ process[p].seen[k] = process[q].seen[k]
       => process[p].cache[k] = process[q].cache[k]
================================================================================
