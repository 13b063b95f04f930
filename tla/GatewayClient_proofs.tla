-------------------------- MODULE GatewayClient_proofs --------------------------
(***************************************************************************)
(* Proofs about GatewayClient and the stores of ConfigStore, for every set *)
(* of processes, tasks, URLs and Fernet keys, and every bound.             *)
(***************************************************************************)
EXTENDS GatewayClient, SequenceTheorems, TLAPS

-----------------------------------------------------------------------------
(* The stores.                                                             *)

\* The texts that a row of a key may hold.
TextsOf(k) == IF k = "limit" THEN {"1", "2", "02"} ELSE Urls

AnyValue == {IntValue(1), IntValue(2)} \cup {TextValue(u) : u \in Urls}

Store == [phase : {"down", "connected", "defaults", "up"},
          cache : [Keys -> AnyValue \cup {NULL}],
          seen : [Keys -> Nat], loaded : [Keys -> Nat]]

\* Every row has versions of its own kind of text, the first of any origin.
RowsOK ==
  /\ config \in [Keys -> Seq([text : Texts, by : {"seed", "default", "set"}])]
  /\ \A k \in Keys : \A i \in DOMAIN config[k] :
       config[k][i].text \in TextsOf(k) /\ (i > 1 => config[k][i].by = "set")

\* A cached value is what the version that the process knows stands for.
Knows(s, table) ==
  \A k \in Keys : s.cache[k] # NULL =>
    /\ s.seen[k] \in DOMAIN table[k]
    /\ s.cache[k] = DeserializeValue(k, table[k][s.seen[k]].text)

\* A row that existed when the process started is in its cache.
Kept(s) == s.phase = "up" => \A k \in Keys : s.loaded[k] > 0 => s.cache[k] # NULL

CachesOK ==
  /\ process \in [Processes -> Store]
  /\ \A p \in Processes : Knows(process[p], config) /\ Kept(process[p])

\* The row of the API key holds the latest one, and says truly whether it is encrypted.
SecretOK ==
  /\ rotated \in Nat
  /\ secret # NULL => /\ secret.cell.plaintext = rotated
                      /\ secret.is_encrypted <=> secret.cell.fernet # NULL

StoresOK == RowsOK /\ CachesOK /\ SecretOK

\* The text of a value stands for that value again, and is one a row may hold.
LEMMA Serialized ==
  ASSUME NEW k \in Keys, NEW v \in ValuesOf(k)
  PROVE  /\ SerializeValue(v) \in TextsOf(k) /\ SerializeValue(v) \in Texts
         /\ DeserializeValue(k, SerializeValue(v)) = v
<1>1. CASE k = "limit"
  <2>1. SerializeValue(IntValue(1)) = "1" /\ SerializeValue(IntValue(2)) = "2"
    BY DEF SerializeValue, IntValue, Canonical
  <2>2. v = IntValue(1) \/ v = IntValue(2)
    BY <1>1 DEF ValuesOf
  <2>3. QED
    BY <1>1, <2>1, <2>2 DEF DeserializeValue, IntOf, TextsOf, Texts
<1>2. CASE k # "limit"
  <2>1. PICK u \in Urls : v = TextValue(u)
    BY <1>2 DEF ValuesOf
  <2>2. SerializeValue(v) = u
    BY <2>1 DEF SerializeValue, TextValue
  <2>3. QED BY <1>2, <2>1, <2>2 DEF DeserializeValue, TextsOf, Texts
<1>3. QED BY <1>1, <1>2

\* What a row may hold stands for a value.
LEMMA Deserialized ==
  ASSUME NEW k \in Keys, NEW raw \in TextsOf(k)
  PROVE  DeserializeValue(k, raw) \in ValuesOf(k) /\ DeserializeValue(k, raw) # NULL
<1>1. DeserializeValue(k, raw) \in ValuesOf(k)
  <2>1. CASE k = "limit"
    BY <2>1 DEF DeserializeValue, TextsOf, ValuesOf, IntOf
  <2>2. CASE k # "limit"
    BY <2>2 DEF DeserializeValue, TextsOf, ValuesOf
  <2>3. QED BY <2>1, <2>2
<1>2. QED BY <1>1, NullAssumption

\* set normalizes whatever the caller gives to a value.
LEMMA NormalizedValue ==
  ASSUME NEW k \in Keys, NEW v \in Inputs(k)
  PROVE  Normalized(k, v) \in ValuesOf(k)
<1>1. CASE k = "limit"
  <2>1. CASE v = IntValue(2)
    <3>1. SerializeValue(v) = "2"
      BY <2>1 DEF SerializeValue, IntValue, Canonical
    <3>2. QED BY <1>1, <3>1 DEF Normalized, DeserializeValue, IntOf, ValuesOf
  <2>2. CASE v = TextValue("junk")
    <3>1. SerializeValue(v) = "junk"
      BY <2>2 DEF SerializeValue, TextValue
    <3>2. QED BY <1>1, <3>1 DEF Normalized, DeserializeValue, DefaultLimit, ValuesOf, IntOf
  <2>3. QED BY <1>1, <2>1, <2>2 DEF Inputs
<1>2. CASE k # "limit"
  <2>1. v \in ValuesOf(k)
    BY <1>2 DEF Inputs, ValuesOf
  <2>2. QED BY <2>1, Serialized DEF Normalized
<1>3. QED BY <1>1, <1>2

\* What a cache holds are values of its keys.
LEMMA CachedValue ==
  ASSUME RowsOK, NEW s \in Store, Knows(s, config), NEW k \in Keys, s.cache[k] # NULL
  PROVE  s.cache[k] \in ValuesOf(k)
BY Deserialized DEF RowsOK, Knows

\* The current row of a key stands for a value.
LEMMA CurrentRow ==
  ASSUME RowsOK, NEW k \in Keys, Exists(k)
  PROVE  /\ Len(config[k]) \in DOMAIN config[k] /\ Len(config[k]) \in Nat \ {0}
         /\ RowValue(k) = DeserializeValue(k, config[k][Len(config[k])].text)
         /\ RowValue(k) \in ValuesOf(k) /\ RowValue(k) # NULL
<1>1. config[k] \in Seq([text : Texts, by : {"seed", "default", "set"}]) /\ config[k] # << >>
  BY DEF RowsOK, Exists
<1>2. Len(config[k]) \in DOMAIN config[k] /\ Len(config[k]) \in Nat \ {0}
  BY <1>1
<1>3. RowValue(k) = DeserializeValue(k, config[k][Len(config[k])].text)
  BY DEF RowValue, Last
<1>4. QED BY <1>2, <1>3, Deserialized DEF RowsOK

\* A get keeps the cache truthful, and never replaces an entry.
LEMMA GetKeeps ==
  ASSUME RowsOK, NEW s \in Store, Knows(s, config), Kept(s), NEW k \in Keys
  PROVE  LET n == AfterGet(s, k)
         IN /\ n \in Store /\ Knows(n, config) /\ Kept(n)
            /\ n.phase = s.phase /\ n.loaded = s.loaded
            /\ \A j \in Keys : s.cache[j] # NULL => n.cache[j] = s.cache[j]
<1>1. CASE ~(s.cache[k] = NULL /\ Exists(k))
  BY <1>1 DEF AfterGet
<1>2. CASE s.cache[k] = NULL /\ Exists(k)
  <2> DEFINE n == [s EXCEPT !.cache[k] = RowValue(k), !.seen[k] = Len(config[k])]
  <2>1. AfterGet(s, k) = n
    BY <1>2 DEF AfterGet
  <2>2. /\ Len(config[k]) \in DOMAIN config[k] /\ Len(config[k]) \in Nat \ {0}
        /\ RowValue(k) = DeserializeValue(k, config[k][Len(config[k])].text)
        /\ RowValue(k) \in ValuesOf(k) /\ RowValue(k) # NULL
    BY <1>2, CurrentRow
  <2>3. /\ n.cache = [s.cache EXCEPT ![k] = RowValue(k)]
        /\ n.seen = [s.seen EXCEPT ![k] = Len(config[k])]
        /\ n.phase = s.phase /\ n.loaded = s.loaded
    BY DEF Store
  <2>4. n \in Store
    BY <2>2 DEF Store, ValuesOf, AnyValue
  <2>5. /\ n.cache[k] = RowValue(k) /\ n.seen[k] = Len(config[k])
        /\ \A j \in Keys \ {k} : n.cache[j] = s.cache[j] /\ n.seen[j] = s.seen[j]
    BY <2>3 DEF Store
  <2> HIDE DEF n
  <2>6. Knows(n, config)
    BY <2>2, <2>5 DEF Knows
  <2>7. Kept(n)
    BY <2>2, <2>3, <2>5 DEF Kept
  <2>8. QED BY <1>2, <2>1, <2>3, <2>4, <2>5, <2>6, <2>7
<1>3. QED BY <1>1, <1>2

\* An insert adds a version and changes none.
LEMMA InsertKeeps ==
  ASSUME RowsOK, NEW k \in Keys, NEW text \in Texts, text \in TextsOf(k),
         NEW by \in {"default", "set"}, by = "default" => config[k] = << >>, Insert(k, text, by)
  PROVE  /\ RowsOK'
         /\ \A j \in Keys : \A i \in DOMAIN config[j] :
              i \in DOMAIN config'[j] /\ config'[j][i] = config[j][i]
         /\ Len(config[k]) + 1 \in DOMAIN config'[k]
         /\ config'[k][Len(config[k]) + 1].text = text
<1> DEFINE row == [text |-> text, by |-> by]
           V == [text : Texts, by : {"seed", "default", "set"}]
<1>1. row \in V /\ row.text = text /\ row.by = by
  OBVIOUS
<1>2. config' = [config EXCEPT ![k] = Append(config[k], row)]
  BY DEF Insert
<1>3. config \in [Keys -> Seq(V)] /\ config[k] \in Seq(V)
  BY DEF RowsOK
<1> HIDE DEF row, V
<1>4. /\ Append(config[k], row) \in Seq(V)
      /\ DOMAIN Append(config[k], row) = DOMAIN config[k] \cup {Len(config[k]) + 1}
      /\ \A i \in DOMAIN config[k] : Append(config[k], row)[i] = config[k][i]
      /\ Append(config[k], row)[Len(config[k]) + 1] = row
  BY <1>1, <1>3
<1>5. config'[k] = Append(config[k], row) /\ \A j \in Keys \ {k} : config'[j] = config[j]
  BY <1>2, <1>3
<1>6. config' \in [Keys -> Seq(V)]
  BY <1>2, <1>3, <1>4
<1>7. by = "default" => Len(config[k]) + 1 = 1
  BY <1>3
<1>8. \A j \in Keys : \A i \in DOMAIN config'[j] :
        config'[j][i].text \in TextsOf(j) /\ (i > 1 => config'[j][i].by = "set")
  BY <1>1, <1>4, <1>5, <1>7 DEF RowsOK
<1>9. RowsOK'
  BY <1>6, <1>8 DEF RowsOK, V
<1>10. QED BY <1>1, <1>4, <1>5, <1>9

\* A process whose store is down knows nothing.
LEMMA DownKeeps == Down \in Store /\ Knows(Down, config) /\ Kept(Down)
<1>1. Down \in Store
  BY DEF Down, Store
<1>2. Down.phase = "down" /\ \A k \in Keys : Down.cache[k] = NULL
  BY DEF Down
<1>3. QED BY <1>1, <1>2 DEF Knows, Kept

\* Steps that change one store, and no row, keep the stores.
LEMMA StoreChange ==
  ASSUME StoresOK, UNCHANGED <<config, secret, rotated>>, NEW p \in Processes,
         NEW s \in Store, Knows(s, config), Kept(s), process' = [process EXCEPT ![p] = s]
  PROVE  StoresOK'
<1>1. RowsOK' /\ SecretOK'
  BY DEF StoresOK, RowsOK, SecretOK
<1>2. process' \in [Processes -> Store]
  BY DEF StoresOK, CachesOK
<1>3. \A q \in Processes : process'[q] = s \/ process'[q] = process[q]
  BY DEF StoresOK, CachesOK
<1>4. \A q \in Processes : Knows(process'[q], config) /\ Kept(process'[q])
  BY <1>3 DEF StoresOK, CachesOK
<1>5. CachesOK'
  BY <1>2, <1>4 DEF CachesOK, Knows
<1>6. QED BY <1>1, <1>5 DEF StoresOK

\* Steps that add a version, and perhaps tell one store of it, keep the stores.
LEMMA RowAdded ==
  ASSUME StoresOK, UNCHANGED <<secret, rotated>>, RowsOK',
         \A j \in Keys : \A i \in DOMAIN config[j] :
           i \in DOMAIN config'[j] /\ config'[j][i] = config[j][i],
         NEW p \in Processes, NEW s \in Store, Knows(s, config'), Kept(s),
         process' = process \/ process' = [process EXCEPT ![p] = s]
  PROVE  StoresOK'
<1>1. SecretOK'
  BY DEF StoresOK, SecretOK
<1>2. ASSUME NEW x \in Store, Knows(x, config) PROVE Knows(x, config')
  BY <1>2 DEF Knows
<1>3. process' \in [Processes -> Store]
  BY DEF StoresOK, CachesOK
<1>4. \A q \in Processes : process'[q] = s \/ process'[q] = process[q]
  BY DEF StoresOK, CachesOK
<1>5. \A q \in Processes : Knows(process'[q], config') /\ Kept(process'[q])
  BY <1>2, <1>4 DEF StoresOK, CachesOK
<1>6. QED BY <1>1, <1>3, <1>5 DEF StoresOK, CachesOK

\* Starting, closing and setting keep the stores.
LEMMA StoreSteps ==
  ASSUME StoresOK,
         \/ \E p \in Processes : \/ StartStore(p) \/ EnsureDefaults(p) \/ LoadCache(p)
                                 \/ CloseStore(p)
         \/ \E p \in Processes, k \in Keys : \E v \in Inputs(k) : SetValue(p, k, v)
         \/ \E key \in FernetKeys \cup {NULL} : SetSecret(key)
  PROVE  StoresOK'
<1>1. ASSUME NEW p \in Processes
      PROVE  process[p] \in Store /\ Knows(process[p], config) /\ Kept(process[p])
  BY DEF StoresOK, CachesOK
<1>2. ASSUME NEW p \in Processes, StartStore(p) PROVE StoresOK'
  <2> DEFINE s == [process[p] EXCEPT !.phase = "connected"]
  <2>1. s \in Store /\ s.phase = "connected" /\ s.cache = process[p].cache /\ s.seen = process[p].seen
    BY <1>1 DEF Store
  <2>2. process' = [process EXCEPT ![p] = s] /\ UNCHANGED <<config, secret, rotated>>
    BY <1>2 DEF StartStore
  <2> HIDE DEF s
  <2>3. Knows(s, config) /\ Kept(s)
    BY <1>1, <2>1 DEF Knows, Kept
  <2>4. QED BY <2>1, <2>2, <2>3, StoreChange
<1>3. ASSUME NEW p \in Processes, CloseStore(p) PROVE StoresOK'
  BY <1>3, DownKeeps, StoreChange DEF CloseStore
<1>4. ASSUME NEW p \in Processes, LoadCache(p) PROVE StoresOK'
  <2> DEFINE cache == [k \in Keys |-> IF Exists(k) THEN RowValue(k) ELSE NULL]
             seen == [k \in Keys |-> Len(config[k])]
             s == [process[p] EXCEPT !.phase = "up", !.cache = cache, !.seen = seen, !.loaded = seen]
  <2>1. RowsOK
    BY DEF StoresOK
  <2>2. cache \in [Keys -> AnyValue \cup {NULL}]
    BY <2>1, CurrentRow DEF ValuesOf, AnyValue
  <2>3. seen \in [Keys -> Nat]
    BY <2>1 DEF RowsOK
  <2>4. process' = [process EXCEPT ![p] = s] /\ UNCHANGED <<config, secret, rotated>>
    BY <1>4 DEF LoadCache
  <2>5. \A k \in Keys : /\ cache[k] # NULL => Exists(k) /\ cache[k] = RowValue(k)
                        /\ Exists(k) => cache[k] = RowValue(k)
                        /\ seen[k] = Len(config[k])
    OBVIOUS
  <2> HIDE DEF cache, seen
  <2>6. s \in Store /\ s.phase = "up" /\ s.cache = cache /\ s.seen = seen /\ s.loaded = seen
    BY <1>1, <2>2, <2>3 DEF Store
  <2> HIDE DEF s
  <2>7. Knows(s, config)
    BY <2>1, <2>5, <2>6, CurrentRow DEF Knows
  <2>8. Kept(s)
    <3>1. \A k \in Keys : Len(config[k]) > 0 => Exists(k)
      BY <2>1 DEF RowsOK, Exists
    <3>2. QED BY <2>1, <2>5, <2>6, <3>1, CurrentRow DEF Kept
  <2>9. QED BY <2>4, <2>6, <2>7, <2>8, StoreChange
<1>5. ASSUME NEW p \in Processes, EnsureDefaults(p) PROVE StoresOK'
  <2> DEFINE s == [process[p] EXCEPT !.phase = "defaults"]
  <2>1. s \in Store /\ s.phase = "defaults" /\ s.cache = process[p].cache /\ s.seen = process[p].seen
    BY <1>1 DEF Store
  <2>2. process' = [process EXCEPT ![p] = s] /\ UNCHANGED <<secret, rotated>>
    BY <1>5 DEF EnsureDefaults
  <2> HIDE DEF s
  <2>3. Knows(s, config) /\ Kept(s)
    BY <1>1, <2>1 DEF Knows, Kept
  <2>4. CASE config' = config
    BY <2>1, <2>2, <2>3, <2>4, StoreChange
  <2>5. CASE config["limit"] = << >> /\ Insert("limit", SerializeValue(DefaultLimit), "default")
    <3>1. "limit" \in Keys /\ DefaultLimit \in ValuesOf("limit")
      BY DEF Keys, DefaultLimit, ValuesOf
    <3>2. SerializeValue(DefaultLimit) \in Texts /\ SerializeValue(DefaultLimit) \in TextsOf("limit")
      BY <3>1, Serialized
    <3>3. /\ RowsOK'
          /\ \A j \in Keys : \A i \in DOMAIN config[j] :
               i \in DOMAIN config'[j] /\ config'[j][i] = config[j][i]
      BY <2>5, <3>1, <3>2, InsertKeeps DEF StoresOK
    <3>4. Knows(s, config')
      BY <2>3, <3>3 DEF Knows
    <3>5. QED BY <2>1, <2>2, <2>3, <3>3, <3>4, RowAdded
  <2>6. QED BY <1>5, <2>4, <2>5 DEF EnsureDefaults, InsertDefault
<1>6. ASSUME NEW p \in Processes, NEW k \in Keys, NEW v \in Inputs(k), SetValue(p, k, v)
      PROVE  StoresOK'
  <2> DEFINE w == Normalized(k, v)
             s == [process[p] EXCEPT !.cache[k] = w, !.seen[k] = Len(config[k]) + 1]
  <2>1. w \in ValuesOf(k) /\ w # NULL
    BY NormalizedValue, NullAssumption
  <2>2. /\ SerializeValue(w) \in TextsOf(k) /\ SerializeValue(w) \in Texts
        /\ DeserializeValue(k, SerializeValue(w)) = w
    BY <2>1, Serialized
  <2>3. Insert(k, SerializeValue(w), "set") /\ UNCHANGED <<secret, rotated>>
    BY <1>6 DEF SetValue
  <2>4. process' = process \/ process' = [process EXCEPT ![p] = s]
    BY <1>6 DEF SetValue
  <2> HIDE DEF w
  <2>5. /\ RowsOK'
        /\ \A j \in Keys : \A i \in DOMAIN config[j] :
             i \in DOMAIN config'[j] /\ config'[j][i] = config[j][i]
        /\ Len(config[k]) + 1 \in DOMAIN config'[k]
        /\ config'[k][Len(config[k]) + 1].text = SerializeValue(w)
    BY <2>2, <2>3, InsertKeeps DEF StoresOK
  <2>6. w \in AnyValue /\ Len(config[k]) + 1 \in Nat
    BY <2>1 DEF ValuesOf, AnyValue, StoresOK, RowsOK
  <2>7. s \in Store /\ s.phase = process[p].phase /\ s.loaded = process[p].loaded
    BY <1>1, <2>6 DEF Store
  <2>8. /\ s.cache[k] = w /\ s.seen[k] = Len(config[k]) + 1
        /\ \A j \in Keys \ {k} : s.cache[j] = process[p].cache[j] /\ s.seen[j] = process[p].seen[j]
    BY <1>1 DEF Store
  <2> HIDE DEF s
  <2>9. Knows(s, config')
    BY <1>1, <2>2, <2>5, <2>8 DEF Knows
  <2>10. Kept(s)
    BY <1>1, <2>1, <2>7, <2>8 DEF Kept
  <2>11. QED BY <2>3, <2>4, <2>5, <2>7, <2>9, <2>10, RowAdded
<1>7. ASSUME NEW key \in FernetKeys \cup {NULL}, SetSecret(key) PROVE StoresOK'
  <2>1. UNCHANGED <<config, process>> /\ rotated' = rotated + 1 /\ secret' = SecretRow(key, rotated + 1)
    BY <1>7 DEF SetSecret
  <2>2. /\ secret'.cell.plaintext = rotated' /\ secret'.cell.fernet = key
        /\ secret'.is_encrypted = (key # NULL)
    BY <2>1 DEF SecretRow
  <2>3. rotated' \in Nat
    BY <2>1 DEF StoresOK, SecretOK
  <2>4. SecretOK'
    BY <2>2, <2>3, Zenon DEF SecretOK
  <2>5. RowsOK' /\ CachesOK'
    BY <2>1 DEF StoresOK, RowsOK, CachesOK
  <2>6. QED BY <2>4, <2>5 DEF StoresOK
<1>8. QED BY <1>2, <1>3, <1>4, <1>5, <1>6, <1>7

-----------------------------------------------------------------------------
(* The tasks.                                                              *)

Phases == {"idle", "loading", "alias", "base_url", "secret", "request", "sleep", "return"}
Frame == [op : Operations, observed : BOOLEAN]

TaskState ==
  [phase : Phases, frames : Seq(Frame), depth : {0, 1}, url : Urls \cup {NULL},
   key : Int \cup {NULL}, version : Nat, home : Urls \cup {NULL}, file : BOOLEAN,
   outcome : Outcomes, calls : Nat, polls : Nat]

\* The context has a depth exactly inside a method, and the outermost frame alone is
\* measured.
Measured(r) ==
  /\ r.depth = IF r.frames = << >> THEN 0 ELSE 1
  /\ \A i \in DOMAIN r.frames : r.frames[i].observed <=> i = 1

Framed(r) == (r.phase = "idle" <=> r.frames = << >>) /\ Measured(r)

\* A request carries the latest key.
Keyed(r) == r.phase = "request" => r.key = r.version

\* A gateway that the store answers with: the alias's, or the common one if the alias
\* had no row when the process started.
Origin(url, s) ==
  \/ TextValue(url) = s.cache["alias"]
  \/ TextValue(url) = s.cache["base_url"] /\ s.loaded["alias"] = 0

\* A task that moves to another gateway moves to the alias's first row.
Located(r, s) ==
  /\ r.phase # "idle" \/ r.home # NULL => s.phase = "up"
  /\ r.home # NULL => Origin(r.home, s)
  /\ r.phase = "base_url" =>
       s.loaded["alias"] = 0 /\ (r.home # NULL => TextValue(r.home) = s.cache["base_url"])
  /\ r.phase \in {"secret", "request"} =>
       /\ r.url # NULL /\ Origin(r.url, s)
       /\ \/ r.home \in {NULL, r.url}
          \/ TextValue(r.url) = s.cache["alias"] /\ s.loaded["alias"] = 0
  /\ r.phase = "request" => r.home # NULL

\* The conjuncts about one task and the store of the client's process.
TaskOK(r, s) == r \in TaskState /\ Framed(r) /\ Keyed(r) /\ Located(r, s)

TasksOK == /\ task \in [Tasks -> TaskState]
           /\ \A t \in Tasks : TaskOK(task[t], process[Client])

\* Every host call that ended has been measured.
BalanceOK == /\ balance \in [Operations \X Outcomes -> Int]
             /\ MeasuredOnce

\* The inductive invariant.
IInv == StoresOK /\ fernet \in FernetKeys \cup {NULL} /\ TasksOK /\ BalanceOK

\* A store that goes on answering what it has answered.
Lasting(s, n) ==
  /\ n.phase = s.phase /\ n.loaded = s.loaded
  /\ \A k \in Keys : s.cache[k] # NULL => n.cache[k] = s.cache[k]

\* A URL is a value.
LEMMA TextIsValue == \A u \in Urls : TextValue(u) # NULL
<1>1. \A u \in Urls : TextValue(u) \in ValuesOf("alias") /\ "alias" \in Keys
  BY DEF ValuesOf, Keys
<1>2. QED BY <1>1, NullAssumption

\* Tasks stay located while the store lasts.
LEMMA LocatedLasts ==
  ASSUME NEW r \in TaskState, NEW s, NEW n, Located(r, s), Lasting(s, n)
  PROVE  Located(r, n)
<1>1. "alias" \in Keys /\ "base_url" \in Keys
  BY DEF Keys
<1>2. ASSUME NEW u \in Urls, Origin(u, s) PROVE Origin(u, n)
  BY <1>1, <1>2, TextIsValue DEF Origin, Lasting
<1>3. ASSUME NEW u \in Urls, NEW k \in Keys, TextValue(u) = s.cache[k] PROVE TextValue(u) = n.cache[k]
  BY <1>3, TextIsValue DEF Lasting
<1>4. /\ n.phase = s.phase /\ n.loaded = s.loaded
      /\ r.home # NULL => r.home \in Urls
      /\ r.url # NULL => r.url \in Urls
  BY DEF Lasting, TaskState
<1>5. QED BY <1>1, <1>2, <1>3, <1>4 DEF Located

\* A process that is not up has only idle tasks without a gateway.
LEMMA LocatedAnywhere ==
  ASSUME NEW r \in TaskState, NEW s, NEW n, Located(r, s), s.phase # "up"
  PROVE  Located(r, n)
BY DEF Located

\* A task inside a method goes on inside it.
LEMMA Moves ==
  ASSUME NEW s, NEW r \in TaskState, TaskOK(r, s), r.phase # "idle", NEW q \in TaskState,
         q.frames = r.frames, q.depth = r.depth, q.home = r.home,
         q.phase \in {"loading", "alias", "sleep", "return"}
  PROVE  TaskOK(q, s)
<1>1. Framed(q)
  BY DEF TaskOK, Framed, Measured
<1>2. Keyed(q) /\ Located(q, s)
  BY DEF TaskOK, Keyed, Located
<1>3. QED BY <1>1, <1>2 DEF TaskOK

\* A method is entered.
LEMMA Enters ==
  ASSUME NEW r \in TaskState, Measured(r), NEW op \in Operations
  PROVE  LET e == Entered(r, op)
         IN /\ e \in TaskState /\ Measured(e) /\ e.frames # << >>
            /\ e.home = r.home /\ e.calls = r.calls
<1> DEFINE fr == [op |-> op, observed |-> ~IsNested(r)]
           e == [r EXCEPT !.frames = Append(r.frames, fr), !.depth = 1]
<1>1. Entered(r, op) = e
  BY DEF Entered
<1>2. r.frames \in Seq(Frame) /\ r.depth \in {0, 1}
  BY DEF TaskState
<1>3. fr \in Frame
  BY DEF Frame, IsNested
<1>4. fr.observed <=> ~(r.depth > 0)
  BY DEF IsNested
<1>5. fr.observed <=> r.frames = << >>
  BY <1>2, <1>4 DEF Measured
<1> HIDE DEF fr
<1>6. /\ Append(r.frames, fr) \in Seq(Frame) /\ Append(r.frames, fr) # << >>
      /\ DOMAIN Append(r.frames, fr) = DOMAIN r.frames \cup {Len(r.frames) + 1}
      /\ \A i \in DOMAIN r.frames : Append(r.frames, fr)[i] = r.frames[i]
      /\ Append(r.frames, fr)[Len(r.frames) + 1] = fr
      /\ r.frames = << >> <=> Len(r.frames) + 1 = 1
  BY <1>2, <1>3
<1>7. /\ e \in TaskState /\ e.frames = Append(r.frames, fr) /\ e.depth = 1
      /\ e.home = r.home /\ e.calls = r.calls
  BY <1>6 DEF TaskState
<1> HIDE DEF e
<1>8. Measured(e)
  BY <1>5, <1>6, <1>7 DEF Measured
<1>9. QED BY <1>1, <1>6, <1>7, <1>8

\* A sequence without its last element.
LEMMA FrontOf ==
  ASSUME NEW S, NEW q \in Seq(S), q # << >>
  PROVE  /\ Front(q) \in Seq(S)
         /\ DOMAIN Front(q) = 1 .. Len(q) - 1
         /\ \A i \in DOMAIN Front(q) : i \in DOMAIN q /\ Front(q)[i] = q[i]
         /\ Front(q) = << >> <=> Len(q) = 1
<1> DEFINE n == Len(q) - 1
<1>1. n \in Nat /\ Front(q) = SubSeq(q, 1, n) /\ \A i \in 1 .. n : q[i] \in S
  BY DEF Front
<1> HIDE DEF n
<1>2. /\ SubSeq(q, 1, n) \in Seq(S) /\ Len(SubSeq(q, 1, n)) = n
      /\ \A i \in 1 .. n : SubSeq(q, 1, n)[i] = q[i]
  BY <1>1, SubSeqProperties
<1>3. SubSeq(q, 1, n) = << >> <=> n = 0
  BY <1>1, <1>2
<1>4. QED BY <1>1, <1>2, <1>3 DEF n

\* The method on top returns.
LEMMA Leaves ==
  ASSUME NEW r \in TaskState, Measured(r), r.frames # << >>
  PROVE  LET e == [r EXCEPT !.frames = Front(@), !.depth = IF Last(r.frames).observed THEN 0 ELSE @]
         IN /\ e \in TaskState /\ Measured(e)
            /\ e.home = r.home /\ e.phase = r.phase
            /\ Last(r.frames).observed <=> Len(r.frames) = 1
<1> DEFINE d == IF Last(r.frames).observed THEN 0 ELSE r.depth
           e == [r EXCEPT !.frames = Front(r.frames), !.depth = d]
<1>1. r.frames \in Seq(Frame) /\ r.depth \in {0, 1} /\ r.depth = 1
  BY DEF TaskState, Measured
<1>2. Len(r.frames) \in Nat \ {0} /\ Len(r.frames) \in DOMAIN r.frames
  BY <1>1
<1>3. Last(r.frames).observed <=> Len(r.frames) = 1
  BY <1>2 DEF Last, Measured
<1>4. /\ Front(r.frames) \in Seq(Frame)
      /\ DOMAIN Front(r.frames) = 1 .. Len(r.frames) - 1
      /\ \A i \in DOMAIN Front(r.frames) : i \in DOMAIN r.frames /\ Front(r.frames)[i] = r.frames[i]
      /\ Front(r.frames) = << >> <=> Len(r.frames) = 1
  BY <1>1, <1>2, FrontOf
<1>5. d \in {0, 1} /\ d = IF Front(r.frames) = << >> THEN 0 ELSE 1
  BY <1>1, <1>3, <1>4
<1> HIDE DEF d
<1>6. e \in TaskState /\ e.frames = Front(r.frames) /\ e.depth = d /\ e.home = r.home
      /\ e.phase = r.phase
  BY <1>4, <1>5 DEF TaskState
<1> HIDE DEF e
<1>7. Measured(e)
  BY <1>4, <1>5, <1>6 DEF Measured
<1>8. QED BY <1>3, <1>6, <1>7 DEF d, e

-----------------------------------------------------------------------------
(* The steps.                                                              *)

\* The client's store and a task, taken out of the invariant.
LEMMA TaskFacts ==
  ASSUME IInv, NEW t \in Tasks
  PROVE  /\ task[t] \in TaskState /\ TaskOK(task[t], process[Client])
         /\ process[Client] \in Store /\ Knows(process[Client], config) /\ Kept(process[Client])
         /\ Client \in Processes
BY ClientAssumption DEF IInv, TasksOK, StoresOK, CachesOK

\* A step of one task keeps the invariant if the task does, the store lasts and the
\* measurements balance.
LEMMA OneTask ==
  ASSUME IInv, NEW t \in Tasks, NEW r \in TaskState, TaskOK(r, process'[Client]),
         task' = [task EXCEPT ![t] = r], Lasting(process[Client], process'[Client]),
         StoresOK', UNCHANGED fernet, BalanceOK'
  PROVE  IInv'
<1>1. task' \in [Tasks -> TaskState]
  BY DEF IInv, TasksOK
<1>2. ASSUME NEW u \in Tasks PROVE TaskOK(task'[u], process'[Client])
  <2>1. CASE u = t
    BY <2>1 DEF IInv, TasksOK
  <2>2. CASE u # t
    <3>1. task'[u] = task[u]
      BY <2>2 DEF IInv, TasksOK
    <3>2. Located(task[u], process'[Client])
      BY TaskFacts, LocatedLasts DEF TaskOK
    <3>3. QED BY <3>1, <3>2, TaskFacts DEF TaskOK
  <2>3. QED BY <2>1, <2>2
<1>3. QED BY <1>1, <1>2 DEF IInv, TasksOK

\* ... in particular one that leaves the stores alone.
LEMMA OneStep ==
  ASSUME IInv, NEW t \in Tasks, NEW r \in TaskState, TaskOK(r, process[Client]), Step(t, r),
         UNCHANGED stores
  PROVE  IInv'
<1>1. /\ task' = [task EXCEPT ![t] = r] /\ UNCHANGED <<fernet, balance>>
      /\ UNCHANGED <<config, secret, rotated, process>>
  BY DEF Step, stores
<1>2. StoresOK'
  BY <1>1 DEF IInv, StoresOK, RowsOK, CachesOK, SecretOK
<1>3. BalanceOK'
  BY <1>1 DEF IInv, BalanceOK, MeasuredOnce
<1>4. Lasting(process[Client], process'[Client]) /\ process'[Client] = process[Client]
  BY <1>1 DEF Lasting
<1>5. QED BY <1>1, <1>2, <1>3, <1>4, OneTask

\* The method on top ends.
LEMMA EndsOK ==
  ASSUME NEW s, NEW r \in TaskState, TaskOK(r, s), r.phase # "idle", NEW outcome \in Outcomes
  PROVE  LET e == Ends(r, outcome)
         IN /\ e \in TaskState /\ TaskOK(e, s)
            /\ \A b \in BOOLEAN : LET q == [e EXCEPT !.file = b] IN q \in TaskState /\ TaskOK(q, s)
<1> DEFINE e == Ends(r, outcome)
<1>1. /\ e \in TaskState /\ e.frames = r.frames /\ e.depth = r.depth /\ e.home = r.home
      /\ e.phase = "return"
  BY DEF Ends, TaskState, Phases
<1> HIDE DEF e
<1>2. ASSUME NEW b \in BOOLEAN
      PROVE  LET q == [e EXCEPT !.file = b]
             IN /\ q \in TaskState /\ q.frames = r.frames /\ q.depth = r.depth /\ q.home = r.home
                /\ q.phase = "return"
  BY <1>1 DEF TaskState
<1>3. TaskOK(e, s)
  BY <1>1, Moves
<1>4. ASSUME NEW b \in BOOLEAN PROVE TaskOK([e EXCEPT !.file = b], s)
  <2> DEFINE q == [e EXCEPT !.file = b]
  <2>1. /\ q \in TaskState /\ q.frames = r.frames /\ q.depth = r.depth /\ q.home = r.home
        /\ q.phase = "return"
    BY <1>2
  <2> HIDE DEF q
  <2>2. TaskOK(q, s)
    BY <2>1, Moves
  <2>3. QED BY <2>2 DEF q
<1>5. QED BY <1>1, <1>2, <1>3, <1>4 DEF e

\* A task that fails inside a method.
LEMMA FailsStep ==
  ASSUME IInv, NEW t \in Tasks, task[t].phase # "idle", Step(t, Fails(task[t])), UNCHANGED stores
  PROVE  IInv'
<1>1. Fails(task[t]) \in TaskState /\ TaskOK(Fails(task[t]), process[Client])
  <2>1. "error" \in Outcomes
    BY DEF Outcomes
  <2>2. QED BY <2>1, TaskFacts, EndsOK DEF Fails
<1>2. QED BY <1>1, OneStep

\* A task that goes on inside a method.
LEMMA MovesStep ==
  ASSUME IInv, NEW t \in Tasks, task[t].phase # "idle", NEW q \in TaskState, Step(t, q),
         q.frames = task[t].frames, q.depth = task[t].depth, q.home = task[t].home,
         q.phase \in {"loading", "alias", "sleep", "return"}, UNCHANGED stores
  PROVE  IInv'
<1>1. TaskOK(q, process[Client])
  BY TaskFacts, Moves
<1>2. QED BY <1>1, OneStep

\* A task that enters a method.
LEMMA EntersOK ==
  ASSUME NEW s, NEW r \in TaskState, TaskOK(r, s), s.phase = "up", NEW q \in TaskState,
         Measured(q), q.frames # << >>, q.home = r.home, q.phase \in {"loading", "alias"}
  PROVE  TaskOK(q, s)
<1>1. Framed(q)
  BY DEF Framed
<1>2. Keyed(q) /\ Located(q, s)
  BY DEF TaskOK, Keyed, Located
<1>3. QED BY <1>1, <1>2 DEF TaskOK

\* The host calls a method, or a method calls another.
LEMMA CallsStep ==
  ASSUME IInv, NEW t \in Tasks, NEW e \in TaskState, Measured(e), e.frames # << >>,
         e.home = task[t].home, NEW phase \in {"loading", "alias"},
         Calls(t, [e EXCEPT !.phase = phase])
  PROVE  IInv'
<1> DEFINE q == [[e EXCEPT !.phase = phase] EXCEPT !.calls = @ + 1]
<1>1. phase \in Phases
  BY DEF Phases
<1>2. /\ q \in TaskState /\ q.frames = e.frames /\ q.depth = e.depth /\ q.home = e.home
      /\ q.phase = phase
  <2> DEFINE p == [e EXCEPT !.phase = phase]
  <2>1. /\ p \in TaskState /\ p.frames = e.frames /\ p.depth = e.depth /\ p.home = e.home
        /\ p.phase = phase /\ p.calls \in Nat
    BY <1>1 DEF TaskState
  <2> HIDE DEF p
  <2>2. /\ [p EXCEPT !.calls = @ + 1] \in TaskState
        /\ LET x == [p EXCEPT !.calls = @ + 1]
           IN x.frames = p.frames /\ x.depth = p.depth /\ x.home = p.home /\ x.phase = p.phase
    BY <2>1, SMTT(30) DEF TaskState
  <2>3. QED BY <2>1, <2>2 DEF p
<1>3. Step(t, q) /\ UNCHANGED stores /\ process[Client].phase = "up"
  BY DEF Calls, Turn
<1> HIDE DEF q
<1>4. Measured(q)
  BY <1>2 DEF Measured
<1>5. TaskOK(q, process[Client])
  BY <1>2, <1>3, <1>4, TaskFacts, EntersOK
<1>6. QED BY <1>2, <1>3, <1>5, OneStep

\* The operations up to the lookup of the credentials.
LEMMA CallSteps ==
  ASSUME IInv, NEW t \in Tasks,
         \/ Upload(t) \/ PayloadLoaded(t) \/ PollAgain(t)
         \/ \E op \in {"create_batch_job", "delete_file", "get_batch_status", "cancel_batch"} :
              Direct(t, op)
         \/ \E op \in {"wait_for_batch", "download_results"} : Nesting(t, op)
  PROVE  IInv'
<1>1. task[t] \in TaskState /\ Measured(task[t]) /\ TaskOK(task[t], process[Client])
  BY TaskFacts DEF TaskOK, Framed
<1>2. {"upload_jsonl", "create_batch_job", "delete_file", "get_batch_status", "cancel_batch",
       "wait_for_batch", "download_results"} \subseteq Operations
  BY DEF Operations
<1>3. ASSUME NEW op \in Operations
      PROVE  LET e == Entered(task[t], op)
             IN e \in TaskState /\ Measured(e) /\ e.frames # << >> /\ e.home = task[t].home
  BY <1>1, Enters
<1>4. CASE Upload(t)
  <2>1. Calls(t, [Entered(task[t], "upload_jsonl") EXCEPT !.phase = "loading"])
    BY <1>4 DEF Upload
  <2>2. QED BY <1>2, <1>3, <2>1, CallsStep
<1>5. ASSUME NEW op \in Operations, Direct(t, op) PROVE IInv'
  <2>1. Calls(t, [Entered(task[t], op) EXCEPT !.phase = "alias"])
    BY <1>5 DEF Direct
  <2>2. QED BY <1>3, <1>5, <2>1, CallsStep
<1>6. ASSUME NEW op \in Operations, Nesting(t, op) PROVE IInv'
  <2> DEFINE e == Entered(task[t], op)
             f == Entered(e, "get_batch_status")
  <2>1. Calls(t, [f EXCEPT !.phase = "alias"])
    BY <1>6 DEF Nesting
  <2>2. e \in TaskState /\ Measured(e) /\ e.home = task[t].home
    BY <1>3, <1>6
  <2> HIDE DEF e
  <2>3. f \in TaskState /\ Measured(f) /\ f.frames # << >> /\ f.home = e.home
    BY <1>2, <2>2, Enters
  <2> HIDE DEF f
  <2>4. QED BY <2>1, <2>2, <2>3, CallsStep
<1>7. CASE PayloadLoaded(t)
  <2>1. task[t].phase = "loading" /\ UNCHANGED stores
    BY <1>7 DEF PayloadLoaded
  <2>2. CASE Step(t, [task[t] EXCEPT !.phase = "alias"])
    <3> DEFINE q == [task[t] EXCEPT !.phase = "alias"]
    <3>1. /\ q \in TaskState /\ q.phase = "alias" /\ q.frames = task[t].frames
          /\ q.depth = task[t].depth /\ q.home = task[t].home
      BY <1>1 DEF TaskState, Phases
    <3>2. Step(t, q)
      BY <2>2
    <3> HIDE DEF q
    <3>3. QED BY <2>1, <3>1, <3>2, MovesStep
  <2>3. CASE Step(t, Fails(task[t]))
    BY <2>1, <2>3, FailsStep
  <2>4. QED BY <1>7, <2>2, <2>3 DEF PayloadLoaded
<1>8. CASE PollAgain(t)
  <2>1. task[t].phase = "sleep" /\ UNCHANGED stores /\ process[Client].phase = "up"
    BY <1>8 DEF PollAgain, Turn
  <2>2. CASE Step(t, [Entered(task[t], "get_batch_status") EXCEPT !.phase = "alias"])
    <3> DEFINE e == Entered(task[t], "get_batch_status")
               q == [e EXCEPT !.phase = "alias"]
    <3>1. e \in TaskState /\ Measured(e) /\ e.frames # << >> /\ e.home = task[t].home
      BY <1>2, <1>3
    <3>2. Step(t, q)
      BY <2>2
    <3> HIDE DEF e
    <3>3. /\ q \in TaskState /\ q.phase = "alias" /\ q.frames = e.frames
          /\ q.depth = e.depth /\ q.home = e.home
      BY <3>1 DEF TaskState, Phases
    <3> HIDE DEF q
    <3>4. Measured(q) /\ q.frames # << >>
      BY <3>1, <3>3 DEF Measured
    <3>5. TaskOK(q, process[Client])
      BY <1>1, <2>1, <3>1, <3>3, <3>4, EntersOK
    <3>6. QED BY <2>1, <3>2, <3>3, <3>5, OneStep
  <2>3. CASE Step(t, Fails(task[t]))
    BY <2>1, <2>3, FailsStep
  <2>4. QED BY <1>8, <2>2, <2>3 DEF PollAgain
<1>9. QED BY <1>2, <1>4, <1>5, <1>6, <1>7, <1>8

\* The provider's answers.
LEMMA RespondSteps ==
  ASSUME IInv, NEW t \in Tasks, Respond(t) \/ NextFile(t)
  PROVE  IInv'
<1>1. task[t] \in TaskState /\ TaskOK(task[t], process[Client])
  BY TaskFacts
<1>2. task[t].phase = "request" /\ UNCHANGED stores
  BY DEF Respond, NextFile
<1>3. CASE Step(t, Fails(task[t]))
  BY <1>2, <1>3, FailsStep
<1>4. ASSUME NEW b, b \in BOOLEAN, Step(t, [Ends(task[t], "success") EXCEPT !.file = b]) PROVE IInv'
  <2>1. "success" \in Outcomes
    BY DEF Outcomes
  <2>2. LET q == [Ends(task[t], "success") EXCEPT !.file = b]
        IN q \in TaskState /\ TaskOK(q, process[Client])
    BY <1>1, <1>2, <1>4, <2>1, EndsOK
  <2>3. QED BY <1>2, <1>4, <2>2, OneStep
<1>5. CASE NextFile(t)
  <2> DEFINE q == [task[t] EXCEPT !.phase = "alias", !.url = NULL, !.key = NULL, !.version = 0,
                                  !.polls = 1]
  <2>1. /\ q \in TaskState /\ q.phase = "alias" /\ q.frames = task[t].frames
        /\ q.depth = task[t].depth /\ q.home = task[t].home
    BY <1>1 DEF TaskState, Phases
  <2>2. Step(t, q)
    BY <1>5 DEF NextFile
  <2> HIDE DEF q
  <2>3. QED BY <1>2, <2>1, <2>2, MovesStep
<1>6. CASE Respond(t) /\ ~Step(t, Fails(task[t]))
  <2> DEFINE e == Ends(task[t], "success")
             b == CASE Top(t).op = "upload_jsonl" -> TRUE
                    [] Top(t).op = "delete_file"  -> FALSE
                    [] OTHER -> e.file
  <2>1. e.file \in BOOLEAN
    BY <1>1 DEF Ends, TaskState
  <2>2. b \in BOOLEAN
    BY <2>1
  <2>3. Step(t, [e EXCEPT !.file = b])
    BY <1>6 DEF Respond
  <2> HIDE DEF b
  <2>4. QED BY <1>4, <2>2, <2>3
<1>7. QED BY <1>3, <1>5, <1>6

\* A cached URL is one, and two that are cached alike are one.
LEMMA CachedUrl ==
  ASSUME RowsOK, NEW s \in Store, Knows(s, config), NEW k \in {"alias", "base_url"},
         s.cache[k] # NULL
  PROVE  /\ s.cache[k].text \in Urls /\ TextValue(s.cache[k].text) = s.cache[k]
         /\ \A u \in Urls : TextValue(u) = s.cache[k] => u = s.cache[k].text
<1>1. k \in Keys /\ ValuesOf(k) = {TextValue(u) : u \in Urls}
  BY DEF Keys, ValuesOf
<1>2. PICK u \in Urls : s.cache[k] = TextValue(u)
  BY <1>1, CachedValue
<1>3. \A v : TextValue(v).text = v
  BY DEF TextValue
<1>4. QED BY <1>2, <1>3

\* A task that asks the store keeps the invariant, if its new state does.
LEMMA LookUpStep ==
  ASSUME IInv, NEW t \in Tasks, NEW k \in Keys, NEW q \in TaskState,
         TaskOK(q, AfterGet(process[Client], k)), Step(t, q),
         process' = [process EXCEPT ![Client] = AfterGet(process[Client], k)],
         UNCHANGED <<config, secret, rotated>>
  PROVE  IInv'
<1> DEFINE s == AfterGet(process[Client], k)
<1>1. /\ s \in Store /\ Knows(s, config) /\ Kept(s) /\ Lasting(process[Client], s)
  BY TaskFacts, GetKeeps DEF IInv, StoresOK, Lasting
<1>2. process'[Client] = s
  BY ClientAssumption DEF IInv, StoresOK, CachesOK
<1> HIDE DEF s
<1>3. StoresOK'
  BY <1>1, ClientAssumption, StoreChange DEF IInv, s
<1>4. BalanceOK' /\ UNCHANGED fernet /\ task' = [task EXCEPT ![t] = q]
  BY DEF Step, IInv, BalanceOK, MeasuredOnce
<1>5. TaskOK(q, process'[Client])
  BY <1>2 DEF s
<1>6. QED BY <1>1, <1>2, <1>3, <1>4, <1>5, OneTask

\* The alias.
LEMMA AliasStep ==
  ASSUME IInv, NEW t \in Tasks, LookUpAlias(t)
  PROVE  IInv'
<1> DEFINE r == task[t]
           s == AfterGet(process[Client], "alias")
<1>1. /\ r \in TaskState /\ TaskOK(r, process[Client]) /\ r.phase = "alias" /\ "alias" \in Keys
      /\ "base_url" \in Keys
  BY TaskFacts DEF LookUpAlias, Keys
<1>2. /\ s \in Store /\ Knows(s, config) /\ Kept(s) /\ Lasting(process[Client], s)
  BY <1>1, TaskFacts, GetKeeps DEF IInv, StoresOK, Lasting
<1>3. /\ process' = [process EXCEPT ![Client] = s] /\ UNCHANGED <<config, secret, rotated>>
      /\ Step(t, IF s.cache["alias"] = NULL THEN [r EXCEPT !.phase = "base_url"]
                 ELSE [r EXCEPT !.phase = "secret", !.url = s.cache["alias"].text])
  BY DEF LookUpAlias
<1>4. Located(r, s)
  BY <1>1, <1>2, LocatedLasts DEF TaskOK
<1>5. /\ s.phase = "up" /\ s.loaded["alias"] \in Nat
      /\ r.home # NULL => r.home \in Urls /\ Origin(r.home, s)
  BY <1>1, <1>2, <1>4 DEF Located, Store, TaskState
<1> HIDE DEF s
<1>6. CASE s.cache["alias"] = NULL
  <2> DEFINE q == [r EXCEPT !.phase = "base_url"]
  <2>1. /\ q \in TaskState /\ q.phase = "base_url" /\ q.frames = r.frames /\ q.depth = r.depth
        /\ q.home = r.home
    BY <1>1 DEF TaskState, Phases
  <2>2. Step(t, q)
    BY <1>3, <1>6
  <2> HIDE DEF q
  <2>3. s.loaded["alias"] = 0
    BY <1>1, <1>2, <1>5, <1>6 DEF Kept
  <2>4. r.home # NULL => TextValue(r.home) = s.cache["base_url"]
    BY <1>5, <1>6, TextIsValue DEF Origin
  <2>5. Located(q, s)
    BY <1>5, <2>1, <2>3, <2>4 DEF Located
  <2>6. TaskOK(q, s)
    BY <1>1, <2>1, <2>5 DEF TaskOK, Framed, Measured, Keyed
  <2>7. QED BY <1>1, <1>3, <2>1, <2>2, <2>6, LookUpStep DEF s
<1>7. CASE s.cache["alias"] # NULL
  <2> DEFINE u == s.cache["alias"].text
             q == [r EXCEPT !.phase = "secret", !.url = u]
  <2>1. u \in Urls /\ TextValue(u) = s.cache["alias"] /\ u # NULL
        /\ \A v \in Urls : TextValue(v) = s.cache["alias"] => v = u
    BY <1>2, <1>7, CachedUrl, StoreAssumption DEF IInv, StoresOK
  <2>2. Step(t, q)
    BY <1>3, <1>7
  <2> HIDE DEF u
  <2>3. /\ q \in TaskState /\ q.phase = "secret" /\ q.frames = r.frames /\ q.depth = r.depth
        /\ q.home = r.home /\ q.url = u
    BY <1>1, <2>1 DEF TaskState, Phases
  <2> HIDE DEF q
  <2>4. r.home \in {NULL, u} \/ (TextValue(u) = s.cache["alias"] /\ s.loaded["alias"] = 0)
    BY <1>5, <2>1 DEF Origin
  <2>5. Origin(u, s)
    BY <2>1 DEF Origin
  <2>6. Located(q, s)
    BY <1>5, <2>1, <2>3, <2>4, <2>5 DEF Located
  <2>7. TaskOK(q, s)
    BY <1>1, <2>3, <2>6 DEF TaskOK, Framed, Measured, Keyed
  <2>8. QED BY <1>1, <1>3, <2>2, <2>3, <2>7, LookUpStep DEF s
<1>8. QED BY <1>6, <1>7

\* The common URL.
LEMMA BaseUrlStep ==
  ASSUME IInv, NEW t \in Tasks, LookUpBaseUrl(t)
  PROVE  IInv'
<1> DEFINE r == task[t]
           s == AfterGet(process[Client], "base_url")
<1>1. /\ r \in TaskState /\ TaskOK(r, process[Client]) /\ r.phase = "base_url"
      /\ "base_url" \in Keys
  BY TaskFacts DEF LookUpBaseUrl, Keys
<1>2. /\ s \in Store /\ Knows(s, config) /\ Kept(s) /\ Lasting(process[Client], s)
  BY <1>1, TaskFacts, GetKeeps DEF IInv, StoresOK, Lasting
<1>3. /\ process' = [process EXCEPT ![Client] = s] /\ UNCHANGED <<config, secret, rotated>>
      /\ Step(t, IF s.cache["base_url"] = NULL THEN Fails(r)
                 ELSE [r EXCEPT !.phase = "secret", !.url = s.cache["base_url"].text])
  BY DEF LookUpBaseUrl
<1>4. Located(r, s)
  BY <1>1, <1>2, LocatedLasts DEF TaskOK
<1>5. /\ s.phase = "up" /\ s.loaded["alias"] = 0
      /\ r.home # NULL => r.home \in Urls /\ TextValue(r.home) = s.cache["base_url"]
                          /\ Origin(r.home, s)
  BY <1>1, <1>4 DEF Located, TaskState
<1>6. TaskOK(r, s)
  BY <1>1, <1>4 DEF TaskOK
<1> HIDE DEF s
<1>7. CASE s.cache["base_url"] = NULL
  <2>1. "error" \in Outcomes
    BY DEF Outcomes
  <2>2. Fails(r) \in TaskState /\ TaskOK(Fails(r), s)
    BY <1>1, <1>6, <2>1, EndsOK DEF Fails
  <2>3. Step(t, Fails(r))
    BY <1>3, <1>7
  <2>4. QED BY <1>1, <1>3, <2>2, <2>3, LookUpStep DEF s
<1>8. CASE s.cache["base_url"] # NULL
  <2> DEFINE u == s.cache["base_url"].text
             q == [r EXCEPT !.phase = "secret", !.url = u]
  <2>1. u \in Urls /\ TextValue(u) = s.cache["base_url"] /\ u # NULL
        /\ \A v \in Urls : TextValue(v) = s.cache["base_url"] => v = u
    BY <1>2, <1>8, CachedUrl, StoreAssumption DEF IInv, StoresOK
  <2>2. Step(t, q)
    BY <1>3, <1>8
  <2> HIDE DEF u
  <2>3. /\ q \in TaskState /\ q.phase = "secret" /\ q.frames = r.frames /\ q.depth = r.depth
        /\ q.home = r.home /\ q.url = u
    BY <1>1, <2>1 DEF TaskState, Phases
  <2> HIDE DEF q
  <2>4. r.home \in {NULL, u}
    BY <1>5, <2>1
  <2>5. Origin(u, s)
    BY <1>5, <2>1 DEF Origin
  <2>6. Located(q, s)
    BY <1>5, <2>1, <2>3, <2>4, <2>5 DEF Located
  <2>7. TaskOK(q, s)
    BY <1>1, <2>3, <2>6 DEF TaskOK, Framed, Measured, Keyed
  <2>8. QED BY <1>1, <1>3, <2>2, <2>3, <2>7, LookUpStep DEF s
<1>9. QED BY <1>7, <1>8

\* The latest API key is decoded, or the call fails.
LEMMA LatestSecret ==
  ASSUME SecretOK, NEW fkey \in FernetKeys \cup {NULL}, NEW key \in RequireSecret(fkey), key # Error
  PROVE  key = rotated
BY DEF SecretOK, RequireSecret, Decoded

\* The API key.
LEMMA SecretStep ==
  ASSUME IInv, NEW t \in Tasks, LookUpSecret(t)
  PROVE  IInv'
<1> DEFINE r == task[t]
           s == process[Client]
<1>1. r \in TaskState /\ TaskOK(r, s) /\ r.phase = "secret" /\ UNCHANGED stores
  BY TaskFacts DEF LookUpSecret
<1>2. CASE Step(t, Fails(r))
  BY <1>1, <1>2, FailsStep
<1>3. CASE ~Step(t, Fails(r))
  <2> DEFINE home == IF r.home = NULL THEN r.url ELSE r.home
             Q(key) == [r EXCEPT !.phase = "request", !.key = key, !.version = rotated, !.home = home]
  <2>1. PICK key : key \in RequireSecret(fernet) /\ key # Error /\ Step(t, Q(key))
    BY <1>3 DEF LookUpSecret
  <2>2. key = rotated /\ rotated \in Nat
    BY <2>1, LatestSecret DEF IInv, StoresOK, SecretOK
  <2>3. /\ r.url \in Urls /\ r.url # NULL /\ Origin(r.url, s) /\ s.phase = "up"
        /\ \/ r.home \in {NULL, r.url}
           \/ TextValue(r.url) = s.cache["alias"] /\ s.loaded["alias"] = 0
        /\ r.home \in Urls \cup {NULL}
        /\ r.home # NULL => Origin(r.home, s)
    BY <1>1 DEF TaskOK, Located, TaskState
  <2>4. /\ home \in Urls \cup {NULL} /\ home # NULL /\ Origin(home, s)
        /\ home = r.url \/ (TextValue(r.url) = s.cache["alias"] /\ s.loaded["alias"] = 0)
    BY <2>3
  <2> DEFINE q == [r EXCEPT !.phase = "request", !.key = key, !.version = rotated, !.home = home]
  <2>5. Step(t, q)
    BY <2>1
  <2> HIDE DEF home, Q
  <2>6. /\ q \in TaskState /\ q.phase = "request" /\ q.frames = r.frames /\ q.depth = r.depth
        /\ q.home = home /\ q.url = r.url /\ q.key = key /\ q.version = rotated
    <3>1. "request" \in Phases /\ key \in Int \cup {NULL} /\ rotated \in Nat
          /\ home \in Urls \cup {NULL}
      BY <2>2, <2>4 DEF Phases
    <3>2. QED BY <1>1, <3>1 DEF TaskState
  <2> HIDE DEF q
  <2>7. Located(q, s)
    BY <2>3, <2>4, <2>6 DEF Located
  <2>8. Keyed(q)
    BY <2>2, <2>6 DEF Keyed
  <2>9. TaskOK(q, s)
    BY <1>1, <2>6, <2>7, <2>8 DEF TaskOK, Framed, Measured
  <2>10. QED BY <1>1, <2>5, <2>6, <2>9, OneStep
<1>4. QED BY <1>2, <1>3

\* Where a task goes on after a return.
LEMMA ResumedOK ==
  ASSUME IInv, NEW t \in Tasks, task[t].phase = "return", NEW q \in Resumed(t)
  PROVE  q \in TaskState /\ TaskOK(q, process[Client])
<1> DEFINE r == task[t]
           s == process[Client]
           e == [r EXCEPT !.frames = Front(@), !.depth = IF Last(r.frames).observed THEN 0 ELSE @]
<1>1. /\ r \in TaskState /\ Measured(r) /\ r.frames # << >> /\ Located(r, s) /\ r.phase = "return"
  BY TaskFacts DEF TaskOK, Framed
<1>2. e \in TaskState /\ Measured(e) /\ e.home = r.home /\ e.phase = "return"
  BY <1>1, Leaves
<1>3. q \in (IF e.frames = << >> THEN {[Idle EXCEPT !.depth = e.depth, !.home = e.home,
                                                    !.file = e.file, !.calls = e.calls]}
             ELSE IF e.outcome = "error" THEN {e}
             ELSE IF Last(e.frames).op = "wait_for_batch"
               THEN {[e EXCEPT !.polls = @ + 1], [e EXCEPT !.polls = @ + 1, !.outcome = "error"]}
                    \cup (IF e.polls + 1 < MaxPolls
                            THEN {[e EXCEPT !.polls = @ + 1, !.phase = "sleep"]} ELSE {})
               ELSE {e, [e EXCEPT !.phase = "alias"]})
  BY DEF Resumed, Top
<1>4. s.phase = "up" /\ (r.home # NULL => Origin(r.home, s))
  BY <1>1 DEF Located
<1> HIDE DEF e
<1>5. CASE e.frames = << >>
  <2> DEFINE i == [Idle EXCEPT !.depth = e.depth, !.home = e.home, !.file = e.file,
                               !.calls = e.calls]
  <2>1. q = i
    BY <1>3, <1>5
  <2>2. /\ i \in TaskState /\ i.phase = "idle" /\ i.frames = << >> /\ i.depth = e.depth
        /\ i.home = e.home
    BY <1>2, <1>5 DEF Idle, TaskState, Phases, Outcomes
  <2> HIDE DEF i
  <2>3. Framed(i) /\ Keyed(i)
    BY <1>2, <1>5, <2>2 DEF Framed, Measured, Keyed
  <2>4. Located(i, s)
    BY <1>2, <1>4, <2>2 DEF Located
  <2>5. QED BY <2>1, <2>2, <2>3, <2>4 DEF TaskOK
<1>6. CASE e.frames # << >>
  <2>1. /\ q \in TaskState /\ q.frames = e.frames /\ q.depth = e.depth /\ q.home = e.home
        /\ q.phase \in {"return", "sleep", "alias"}
    <3>1. \/ q = e \/ q = [e EXCEPT !.phase = "alias"]
          \/ q = [e EXCEPT !.polls = @ + 1]
          \/ q = [e EXCEPT !.polls = @ + 1, !.outcome = "error"]
          \/ q = [e EXCEPT !.polls = @ + 1, !.phase = "sleep"]
      BY <1>3, <1>6
    <3>2. e.polls + 1 \in Nat /\ "error" \in Outcomes /\ {"sleep", "alias"} \subseteq Phases
      BY <1>2 DEF TaskState, Outcomes, Phases
    <3>3. QED BY <1>2, <3>1, <3>2 DEF TaskState
  <2>2. Framed(q) /\ Keyed(q)
    BY <1>2, <1>6, <2>1 DEF Framed, Measured, Keyed
  <2>3. Located(q, s)
    BY <1>2, <1>4, <2>1 DEF Located
  <2>4. QED BY <2>1, <2>2, <2>3 DEF TaskOK
<1>7. QED BY <1>5, <1>6

\* A return is measured if and only if the host called the method.
LEMMA ReturnStep ==
  ASSUME IInv, NEW t \in Tasks, ReturnFrom(t)
  PROVE  IInv'
<1> DEFINE r == task[t]
           x == <<Top(t).op, r.outcome>>
<1>1. r \in TaskState /\ Measured(r) /\ r.frames # << >> /\ r.phase = "return"
  BY TaskFacts DEF TaskOK, Framed, ReturnFrom
<1>2. Top(t).observed <=> Len(r.frames) = 1
  BY <1>1, Leaves DEF Top
<1>3. balance' = [balance EXCEPT ![x] =
         @ + (IF Len(r.frames) = 1 THEN 1 ELSE 0) - (IF Top(t).observed THEN 1 ELSE 0)]
  BY DEF ReturnFrom
<1>4. balance \in [Operations \X Outcomes -> Int] /\ \A y \in Operations \X Outcomes : balance[y] = 0
  BY DEF IInv, BalanceOK, MeasuredOnce
<1>5. Top(t) \in Frame
  BY <1>1 DEF Top, Last, TaskState
<1>6. x \in Operations \X Outcomes
  BY <1>1, <1>5 DEF Frame, TaskState
<1> HIDE DEF x
<1>7. balance' = [balance EXCEPT ![x] = 0]
  <2> DEFINE n == balance[x] + (IF Len(r.frames) = 1 THEN 1 ELSE 0)
                  - (IF Top(t).observed THEN 1 ELSE 0)
  <2>1. (IF Len(r.frames) = 1 THEN 1 ELSE 0) = (IF Top(t).observed THEN 1 ELSE 0)
    BY <1>2
  <2>2. balance[x] = 0
    BY <1>4, <1>6
  <2>3. n = 0
    BY <2>1, <2>2
  <2>4. balance' = [balance EXCEPT ![x] = n]
    BY <1>3
  <2> HIDE DEF n
  <2>5. QED BY <2>3, <2>4
<1>8. BalanceOK'
  BY <1>4, <1>6, <1>7 DEF BalanceOK, MeasuredOnce
<1>9. PICK q \in Resumed(t) : task' = [task EXCEPT ![t] = q]
  BY DEF ReturnFrom
<1>10. q \in TaskState /\ TaskOK(q, process[Client])
  BY <1>1, <1>9, ResumedOK
<1>11. UNCHANGED <<config, secret, rotated, process, fernet>>
  BY DEF ReturnFrom, stores
<1>12. StoresOK' /\ Lasting(process[Client], process'[Client]) /\ process'[Client] = process[Client]
  BY <1>11 DEF IInv, StoresOK, RowsOK, CachesOK, SecretOK, Lasting
<1>13. QED BY <1>8, <1>9, <1>10, <1>11, <1>12, OneTask

\* Idle tasks of a process that is replaced.
LEMMA CloseStep ==
  ASSUME IInv, CloseClient
  PROVE  IInv'
<1>1. CloseStore(Client) /\ Client \in Processes
  BY ClientAssumption DEF CloseClient
<1>2. StoresOK'
  BY <1>1, StoreSteps DEF IInv
<1>3. ASSUME NEW n \in Nat, NEW s
      PROVE  LET q == [Idle EXCEPT !.calls = n] IN q \in TaskState /\ TaskOK(q, s)
  <2> DEFINE q == [Idle EXCEPT !.calls = n]
  <2>1. /\ q \in TaskState /\ q.phase = "idle" /\ q.frames = << >> /\ q.depth = 0 /\ q.home = NULL
    <3> DEFINE i == Idle
    <3>1. /\ i \in TaskState /\ i.phase = "idle" /\ i.frames = << >> /\ i.depth = 0 /\ i.home = NULL
      BY DEF Idle, TaskState, Phases, Outcomes
    <3> HIDE DEF i
    <3>2. LET x == [i EXCEPT !.calls = n]
          IN /\ x \in TaskState /\ x.phase = i.phase /\ x.frames = i.frames
             /\ x.depth = i.depth /\ x.home = i.home
      BY <3>1 DEF TaskState
    <3>3. QED BY <3>1, <3>2 DEF i
  <2> HIDE DEF q
  <2>2. Framed(q) /\ Keyed(q) /\ Located(q, s)
    BY <2>1 DEF Framed, Measured, Keyed, Located
  <2>3. QED BY <2>1, <2>2 DEF TaskOK, q
<1>4. task' = [t \in Tasks |-> [Idle EXCEPT !.calls = task[t].calls]]
  BY DEF CloseClient
<1>5. \A t \in Tasks : task[t].calls \in Nat
  BY DEF IInv, TasksOK, TaskState
<1>6. \A t \in Tasks : task'[t] \in TaskState /\ TaskOK(task'[t], process'[Client])
  BY <1>3, <1>4, <1>5
<1>7. task' \in [Tasks -> TaskState]
  BY <1>4, <1>6
<1>8. fernet' \in FernetKeys \cup {NULL} /\ BalanceOK'
  BY DEF CloseClient, IInv, BalanceOK, MeasuredOnce
<1>9. QED BY <1>2, <1>6, <1>7, <1>8 DEF IInv, TasksOK

\* Other processes, operators and the start of the client's own process.
LEMMA StoresStep ==
  ASSUME IInv, Stores, UNCHANGED client
  PROVE  IInv'
<1>1. StoresOK'
  BY StoreSteps DEF Stores, IInv
<1>2. Client \in Processes /\ process \in [Processes -> Store]
  BY ClientAssumption DEF IInv, StoresOK, CachesOK
<1>3. process'[Client] = process[Client] \/ process[Client].phase # "up"
  <2>1. ASSUME NEW p \in Processes, StartStore(p) \/ EnsureDefaults(p) \/ LoadCache(p)
        PROVE  process'[Client] = process[Client] \/ process[Client].phase # "up"
    <3>1. process[p].phase # "up" /\ (p # Client => process'[Client] = process[Client])
      BY <1>2, <2>1 DEF StartStore, EnsureDefaults, LoadCache
    <3>2. QED BY <3>1
  <2>2. ASSUME NEW p \in Processes \ {Client}, NEW k \in Keys, NEW v \in Inputs(k), SetValue(p, k, v)
        PROVE  process'[Client] = process[Client]
    BY <1>2, <2>2 DEF SetValue
  <2>3. ASSUME NEW p \in Processes \ {Client}, CloseStore(p) PROVE process'[Client] = process[Client]
    BY <1>2, <2>3 DEF CloseStore
  <2>4. ASSUME NEW key, SetSecret(key) PROVE process'[Client] = process[Client]
    BY <2>4 DEF SetSecret
  <2>5. QED BY <2>1, <2>2, <2>3, <2>4 DEF Stores
<1>4. UNCHANGED <<fernet, task, balance>>
  BY DEF client
<1>5. ASSUME NEW t \in Tasks PROVE TaskOK(task[t], process'[Client])
  BY <1>3, TaskFacts, LocatedAnywhere DEF TaskOK
<1>6. BalanceOK'
  BY <1>4 DEF IInv, BalanceOK, MeasuredOnce
<1>7. QED BY <1>1, <1>4, <1>5, <1>6 DEF IInv, TasksOK

\* The first state: an empty or seeded table, no process, idle tasks.
LEMMA InitIInv == Init => IInv
<1> SUFFICES ASSUME Init PROVE IInv
  OBVIOUS
<1> DEFINE V == [text : Texts, by : {"seed", "default", "set"}]
<1>1. PICK seeded \in {{}, {"limit", "base_url"}}, url \in Urls :
        config = [k \in Keys |->
          IF k \notin seeded THEN << >>
          ELSE <<[text |-> IF k = "limit" THEN "02" ELSE url, by |-> "seed"]>>]
  BY DEF Init, StoresInit
<1>2. RowsOK
  <2>1. ASSUME NEW k \in Keys
        PROVE  \/ config[k] = << >>
               \/ \E v \in V : config[k] = <<v>> /\ v.text \in TextsOf(k)
    <3>1. CASE k \notin seeded
      BY <1>1, <3>1
    <3>2. CASE k \in seeded
      <4> DEFINE v == [text |-> IF k = "limit" THEN "02" ELSE url, by |-> "seed"]
      <4>1. config[k] = <<v>>
        BY <1>1, <3>2
      <4>2. v \in V /\ v.text \in TextsOf(k)
        BY DEF TextsOf, Texts
      <4>3. QED BY <4>1, <4>2
    <3>3. QED BY <3>1, <3>2
  <2>2. ASSUME NEW k \in Keys
        PROVE  /\ config[k] \in Seq(V)
               /\ \A i \in DOMAIN config[k] : i = 1 /\ config[k][i].text \in TextsOf(k)
    <3>1. CASE config[k] = << >>
      BY <3>1
    <3>2. CASE \E v \in V : config[k] = <<v>> /\ v.text \in TextsOf(k)
      <4>1. PICK v \in V : config[k] = <<v>> /\ v.text \in TextsOf(k)
        BY <3>2
      <4> HIDE DEF V
      <4>2. <<v>> \in Seq(V) /\ DOMAIN <<v>> = {1} /\ <<v>>[1] = v
        OBVIOUS
      <4>3. QED BY <4>1, <4>2
    <3>3. QED BY <2>1, <3>1, <3>2
  <2>3. config \in [Keys -> Seq(V)]
    <3> DEFINE F(k) == IF k \notin seeded THEN << >>
                       ELSE <<[text |-> IF k = "limit" THEN "02" ELSE url, by |-> "seed"]>>
    <3>1. config = [k \in Keys |-> F(k)] /\ \A k \in Keys : F(k) = config[k]
      BY <1>1
    <3> HIDE DEF V, F
    <3>2. \A k \in Keys : F(k) \in Seq(V)
      BY <2>2, <3>1
    <3>3. QED BY <3>1, <3>2
  <2>4. ASSUME NEW k \in Keys, NEW i \in DOMAIN config[k]
        PROVE  config[k][i].text \in TextsOf(k) /\ ~(i > 1)
    BY <2>2
  <2>5. QED BY <2>3, <2>4, Zenon DEF RowsOK
<1>3. CachesOK
  BY DownKeeps DEF Init, StoresInit, CachesOK
<1>4. SecretOK
  BY DEF Init, StoresInit, SecretOK
<1>5. ASSUME NEW t \in Tasks PROVE task[t] \in TaskState /\ TaskOK(task[t], process[Client])
  <2>1. /\ Idle \in TaskState /\ Idle.phase = "idle" /\ Idle.frames = << >> /\ Idle.depth = 0
        /\ Idle.home = NULL
    BY DEF Idle, TaskState, Phases, Outcomes
  <2>2. task[t] = Idle
    BY DEF Init
  <2>3. QED BY <2>1, <2>2 DEF TaskOK, Framed, Measured, Keyed, Located
<1>6. task \in [Tasks -> TaskState]
  <2>1. task = [t \in Tasks |-> Idle]
    BY DEF Init
  <2>2. QED BY <1>5, <2>1
<1>7. BalanceOK
  BY DEF Init, BalanceOK, MeasuredOnce
<1>8. fernet \in FernetKeys \cup {NULL}
  BY DEF Init
<1>9. QED BY <1>2, <1>3, <1>4, <1>5, <1>6, <1>7, <1>8 DEF IInv, StoresOK, TasksOK

\* Every step keeps the invariant.
LEMMA NextIInv == IInv /\ [Next]_vars => IInv'
<1> SUFFICES ASSUME IInv, [Next]_vars PROVE IInv'
  OBVIOUS
<1>1. ASSUME NEW t \in Tasks, Task(t) PROVE IInv'
  BY <1>1, CallSteps, AliasStep, BaseUrlStep, SecretStep, RespondSteps, ReturnStep DEF Task
<1>2. CASE UNCHANGED vars
  BY <1>2 DEF vars, stores, client, IInv, StoresOK, RowsOK, CachesOK, SecretOK, TasksOK, BalanceOK,
              MeasuredOnce
<1>3. QED BY <1>1, <1>2, StoresStep, CloseStep DEF Next

\* The invariant holds in every state of every behaviour.
THEOREM Invariance == Spec => []IInv
BY InitIInv, NextIInv, PTL DEF Spec

\* com_config is the operators': a default never follows a seeded or set row, and two
\* processes that know the same version of a row hold the same value.
THEOREM SettingsAreShared == Spec => []SettingsAgree
<1>1. IInv => SettingsAgree
  <2> SUFFICES ASSUME IInv PROVE SettingsAgree
    OBVIOUS
  <2>1. \A k \in Keys : \A i \in DOMAIN config[k] : i > 1 => config[k][i].by = "set"
    BY DEF IInv, StoresOK, RowsOK
  <2>2. ASSUME NEW p \in Processes, NEW q \in Processes, NEW k \in Keys,
               process[p].cache[k] # NULL, process[q].cache[k] # NULL,
               process[p].seen[k] = process[q].seen[k]
        PROVE  process[p].cache[k] = process[q].cache[k]
    BY <2>2 DEF IInv, StoresOK, CachesOK, Knows
  <2>3. QED BY <2>1, <2>2 DEF SettingsAgree
<1>2. QED BY <1>1, Invariance, PTL

\* Every request carries the latest plaintext of the API key as of its lookup, whichever
\* Fernet keys the operators and the client have; otherwise the lookup fails.
THEOREM RequestsCarryTheKey == Spec => []KeyIsTheSecret
<1>1. IInv => KeyIsTheSecret
  BY DEF IInv, TasksOK, TaskOK, Keyed, KeyIsTheSecret
<1>2. QED BY <1>1, Invariance, PTL

\* All requests of a task go to one gateway, except for the move to an alias whose first
\* row appears while the process runs.
THEOREM GatewayIsStable == Spec => []OneGatewayPerTask
<1>1. IInv => OneGatewayPerTask
  <2> SUFFICES ASSUME IInv, NEW t \in Tasks, task[t].phase = "request"
               PROVE  \/ task[t].url = task[t].home
                      \/ /\ process[Client].loaded["alias"] = 0
                         /\ TextValue(task[t].url) = process[Client].cache["alias"]
    BY DEF OneGatewayPerTask
  <2>1. Located(task[t], process[Client])
    BY DEF IInv, TasksOK, TaskOK
  <2>2. QED BY <2>1 DEF Located
<1>2. QED BY <1>1, Invariance, PTL

\* Every call of a host is measured exactly once, under its own operation and outcome.
THEOREM MeasurementsBalance == Spec => []MeasuredOnce
<1>1. IInv => MeasuredOnce
  BY DEF IInv, BalanceOK
<1>2. QED BY <1>1, Invariance, PTL
=================================================================================
