--------------------------- MODULE ServicesProofs ---------------------------
(***************************************************************************)
(* Proofs about the components that have no module of proofs of their own: *)
(* each section is about one of them.  A section states the inductive      *)
(* invariant, proves that the initial states satisfy it and every action   *)
(* preserves it, and ends in the theorems.                                 *)
(***************************************************************************)
EXTENDS MCServices, PaymentProofs, WorkflowProofs, SchedulerProofs, QueryBuilderProofs,
  FiniteSetTheorems, TLAPS

-----------------------------------------------------------------------------
(* Workers: a worker is running exactly while one client listens to it.    *)

\* What RunsOnce says in cardinalities, and that a client that has not been
\* made yet listens to nobody.
ListeningOK ==
  /\ \A w \in Worker : running[w] <=> \E e \in Execution : w \in listening[e]
  /\ \A w \in Worker, d, e \in Execution :
       w \in listening[d] /\ w \in listening[e] => d = e
  /\ \A e \in Execution : e > executed => listening[e] = {}

WorkersInv == WorkersTypeOK /\ ListeningOK

LEMMA WorkersInitInv == WorkersInit => WorkersInv
BY WorkersAssumption
DEF WorkersInit, WorkersInv, WorkersTypeOK, ListeningOK, Worker, Execution, DynamicValue

LEMMA WorkersNextInv == WorkersInv /\ [WorkersNext]_workersVars => WorkersInv'
<1> SUFFICES ASSUME WorkersInv, [WorkersNext]_workersVars
             PROVE  WorkersInv'
  OBVIOUS
<1> USE WorkersAssumption DEF WorkersInv, WorkersTypeOK
<1>1. ASSUME NEW w \in Worker, AddWorker(w) PROVE WorkersInv'
  <2>1. BoundAfter(w) \in Worker \union {DynamicValue} /\ got[w] \in Worker
    BY <1>1 DEF AddWorker, BoundAfter, Registering
  <2> QED BY <1>1, <2>1 DEF AddWorker, ListeningOK
<1>2. ASSUME NEW w \in Worker, NEW n \in Name, GetWorkerMap(w, n) PROVE WorkersInv'
  BY <1>2 DEF GetWorkerMap, ListeningOK
<1>3. ASSUME NEW n \in Name, InitWorkers(n) PROVE WorkersInv'
  <2>1. CASE bound = DynamicValue
    BY <1>3, <2>1 DEF InitWorkers, ListeningOK, Execution
  <2>2. CASE bound # DynamicValue
    <3> DEFINE S == Starting(n)
               new == executed + 1
    <3>1. S \subseteq Worker /\ \A w \in S : ~running[w]
      BY <2>2 DEF Starting
    <3>2. new \in Execution /\ executed' = new /\ listening[new] = {}
      BY <1>3 DEF InitWorkers, Execution, ListeningOK
    <3>3. /\ running' = [w \in Worker |-> running[w] \/ w \in S]
          /\ listening' = [listening EXCEPT ![new] = S]
          /\ UNCHANGED <<bound, got, registered, nameOf, map>>
      BY <1>3, <2>2 DEF InitWorkers
    <3> HIDE DEF S, new
    <3>4. WorkersTypeOK'
      BY <3>1, <3>2, <3>3 DEF Execution
    <3>5. \A e \in Execution : listening'[e] = IF e = new THEN S ELSE listening[e]
      BY <3>2, <3>3
    <3>6. \A w \in Worker : running'[w] = (running[w] \/ w \in S)
      BY <3>3
    <3>7. \A w \in Worker : running'[w] <=> \E e \in Execution : w \in listening'[e]
      BY <3>2, <3>5, <3>6 DEF ListeningOK
    <3>8. \A w \in Worker, d, e \in Execution :
            w \in listening'[d] /\ w \in listening'[e] => d = e
      BY <3>1, <3>5 DEF ListeningOK
    <3>9. \A e \in Execution : e > executed' => listening'[e] = {}
      BY <3>2, <3>5 DEF ListeningOK, Execution, new
    <3> QED BY <3>4, <3>7, <3>8, <3>9 DEF ListeningOK
  <2> QED BY <2>1, <2>2
<1>4. ASSUME NEW e \in Execution, PollError(e) PROVE WorkersInv'
  <2>1. /\ running' = [w \in Worker |-> running[w] /\ w \notin listening[e]]
        /\ listening' = [listening EXCEPT ![e] = {}]
        /\ UNCHANGED <<bound, got, registered, nameOf, map, executed>>
    BY <1>4 DEF PollError
  <2>2. \A d \in Execution : listening'[d] = IF d = e THEN {} ELSE listening[d]
    BY <2>1
  <2>3. \A w \in Worker : running'[w] = (running[w] /\ w \notin listening[e])
    BY <2>1
  <2>4. WorkersTypeOK'
    BY <2>1
  <2>5. \A w \in Worker : running'[w] <=> \E d \in Execution : w \in listening'[d]
    BY <2>2, <2>3 DEF ListeningOK
  <2>6. \A w \in Worker, c, d \in Execution :
          w \in listening'[c] /\ w \in listening'[d] => c = d
    BY <2>2 DEF ListeningOK
  <2>7. \A d \in Execution : d > executed' => listening'[d] = {}
    BY <2>1, <2>2 DEF ListeningOK
  <2> QED BY <2>4, <2>5, <2>6, <2>7 DEF ListeningOK
<1>5. CASE UNCHANGED workersVars
  BY <1>5 DEF workersVars, ListeningOK
<1> QED BY <1>1, <1>2, <1>3, <1>4, <1>5 DEF WorkersNext

LEMMA ListeningCounts == WorkersInv => RunsOnce
<1> SUFFICES ASSUME WorkersInv, NEW w \in Worker
             PROVE  Cardinality({e \in Execution : w \in listening[e]})
                      = IF running[w] THEN 1 ELSE 0
  BY DEF RunsOnce
<1>1. CASE running[w]
  <2>1. PICK e \in Execution : w \in listening[e]
    BY <1>1 DEF WorkersInv, ListeningOK
  <2>2. {d \in Execution : w \in listening[d]} = {e}
    BY <2>1 DEF WorkersInv, ListeningOK
  <2> QED BY <1>1, <2>2, FS_Singleton
<1>2. CASE ~running[w]
  <2>1. {e \in Execution : w \in listening[e]} = {}
    BY <1>2 DEF WorkersInv, ListeningOK
  <2> QED BY <1>2, <2>1, FS_EmptySet
<1> QED BY <1>1, <1>2

\* However registrations, executions and failed polls follow each other, a
\* worker counts as running exactly while it is subscribed at one client
\* (initWorkers and the listeners of poll:error), for any number of them.
THEOREM WorkersRunOnce == WorkersSpec => []RunsOnce
<1>1. WorkersSpec => []WorkersInv
  BY WorkersInitInv, WorkersNextInv, PTL DEF WorkersSpec
<1> QED BY <1>1, ListeningCounts, PTL

\* The maps of workers and the clients that poll for them keep their types.
THEOREM WorkersTypes == WorkersSpec => []WorkersTypeOK
<1>1. WorkersInv => WorkersTypeOK
  BY DEF WorkersInv
<1> QED BY <1>1, WorkersInitInv, WorkersNextInv, PTL DEF WorkersSpec

-----------------------------------------------------------------------------
(* Cache: what is saved is as old as its find, and a find is at most a      *)
(* save's delay older than the save.                                       *)

\* What a reader that is about to save has found: it misses no write before
\* the find, and nothing that has settled under its key.
FoundOK ==
  \A r \in Saving :
    /\ found[r].version \in 0 .. version
    /\ found[r].at <= now /\ now <= found[r].at + SaveDelay
    /\ \A v \in 1 .. version : v > found[r].version => found[r].at <= writtenAt[v]
    /\ settled[KeyOf(reading[r])] <= found[r].version

\* What is in the cache, expired or not: a write it misses is no more than ttl
\* and the delay older than its end.
EntriesOK ==
  \A key \in Keys :
    /\ cached[key].version <= version /\ settled[key] <= version
    /\ cached[key].expires <= now + TTL
    /\ \A v \in 1 .. version : v > cached[key].version =>
         cached[key].expires <= writtenAt[v] + TTL + SaveDelay

CacheInv ==
  /\ CacheTypeOK /\ FoundOK /\ EntriesOK /\ SettledStays
  /\ \A r \in Reader : phaseOf[r] # "idle" => reading[r] \in Queries
  /\ \A v \in 1 .. version : writtenAt[v] <= now

LEMMA CacheInitInv == CacheInit => CacheInv
<1> SUFFICES ASSUME CacheInit PROVE CacheInv
  OBVIOUS
<1> USE CacheAssumption DEF CacheInit
<1>1. CacheTypeOK
  BY DEF CacheTypeOK, NoEntry, NotFoundYet
<1>2. Saving = {}
  BY DEF Saving
<1>3. EntriesOK /\ SettledStays
  BY DEF EntriesOK, SettledStays, Held, NoEntry
<1> QED BY <1>1, <1>2, <1>3 DEF CacheInv, FoundOK

\* A reader that ends leaves the others as they are.
LEMMA DoneSaving ==
  ASSUME NEW r \in Reader, CacheTypeOK, Done(r)
  PROVE  /\ Saving' = Saving \ {r}
         /\ \A q \in Reader \ {r} :
              found'[q] = found[q] /\ reading'[q] = reading[q] /\ phaseOf'[q] = phaseOf[q]
         /\ phaseOf'[r] = "idle"
         /\ reading' \in [Reader -> Queries \union {NoQuery}]
         /\ phaseOf' \in [Reader -> {"idle", "search", "find", "save"}]
         /\ found' \in [Reader -> [version : 0 .. MaxVersion, at : 0 .. MaxTime]]
BY CacheAssumption DEF Done, CacheTypeOK, Saving, NotFoundYet

LEMMA SaveInv ==
  ASSUME CacheInv, NEW r \in Reader, SaveInCache(r)
  PROVE  CacheInv'
<1> DEFINE k == KeyOf(reading[r])
           e == [query |-> reading[r], version |-> found[r].version, expires |-> now + TTL]
<1> USE CacheAssumption
<1>1. r \in Saving /\ reading[r] \in Queries /\ k \in Keys
  BY DEF SaveInCache, Saving, CacheInv, Keys
<1>2. Done(r) /\ UNCHANGED <<now, version, writtenAt>>
  BY DEF SaveInCache
<1>3. cached' = [cached EXCEPT ![k] = e]
  BY DEF SaveInCache, Saved
<1>4. settled' = IF Saving = {r} THEN [settled EXCEPT ![k] = found[r].version] ELSE settled
  BY DEF SaveInCache
<1>5. /\ Saving' = Saving \ {r}
      /\ \A q \in Saving' : found'[q] = found[q] /\ reading'[q] = reading[q]
      /\ \A q \in Reader : phaseOf'[q] # "idle" => reading'[q] \in Queries
  BY <1>2, DoneSaving DEF CacheInv, Saving
<1>6. /\ found[r].version \in 0 .. version /\ found[r].at \in Nat
      /\ found[r].at <= now /\ now <= found[r].at + SaveDelay
      /\ \A v \in 1 .. version : v > found[r].version => found[r].at <= writtenAt[v]
      /\ settled[k] <= found[r].version
  BY <1>1 DEF CacheInv, FoundOK, CacheTypeOK
<1>7. /\ now \in Nat /\ version \in Nat /\ version <= MaxVersion /\ now <= MaxTime
      /\ \A v \in 1 .. version : writtenAt[v] \in Nat
      /\ \A key \in Keys : settled[key] \in Nat
  BY DEF CacheInv, CacheTypeOK
<1> HIDE DEF k
<1>8. \A key \in Keys : cached'[key] = IF key = k THEN e ELSE cached[key]
  BY <1>3 DEF CacheInv, CacheTypeOK
<1>9. \A key \in Keys : settled'[key] =
        IF Saving = {r} /\ key = k THEN found[r].version ELSE settled[key]
  BY <1>4 DEF CacheInv, CacheTypeOK
<1>10. e \in [query : Queries \union {NoQuery}, version : 0 .. MaxVersion,
              expires : 0 .. MaxTime + TTL]
  BY <1>1, <1>6, <1>7 DEF CacheInv, CacheTypeOK
<1>11. CacheTypeOK'
  <2>1. settled' \in [Keys -> 0 .. MaxVersion]
    BY <1>4, <1>6, <1>7 DEF CacheInv, CacheTypeOK
  <2>2. cached' \in [Keys -> [query : Queries \union {NoQuery}, version : 0 .. MaxVersion,
                              expires : 0 .. MaxTime + TTL]]
    BY <1>3, <1>10 DEF CacheInv, CacheTypeOK
  <2> QED BY <2>1, <2>2, <1>2, DoneSaving DEF CacheInv, CacheTypeOK
<1>12. FoundOK'
  <2>1. Saving # {r} \/ Saving' = {}
    BY <1>5
  <2>2. FoundOK
    BY DEF CacheInv
  <2> SUFFICES ASSUME NEW q \in Saving'
               PROVE  FoundOK!(q)'
    BY DEF FoundOK
  <2>3. q \in Saving /\ found'[q] = found[q] /\ reading'[q] = reading[q]
    BY <1>5
  <2>4. settled' = settled
    BY <1>4, <2>1
  <2> QED BY <1>2, <2>2, <2>3, <2>4 DEF FoundOK, KeyOf
<1>13. EntriesOK'
  <2> SUFFICES ASSUME NEW key \in Keys
               PROVE  EntriesOK!(key)'
    BY DEF EntriesOK
  <2>1. CASE key = k
    <3>1. cached'[key].version = found[r].version /\ cached'[key].expires = now + TTL
      BY <1>8, <2>1
    <3>2. settled'[key] <= version
      BY <1>1, <1>6, <1>7, <1>9, <2>1 DEF CacheInv, EntriesOK
    <3>3. ASSUME NEW v \in 1 .. version, v > found[r].version
          PROVE  now + TTL <= writtenAt[v] + TTL + SaveDelay
      BY <3>3, <1>6, <1>7
    <3> QED BY <3>1, <3>2, <3>3, <1>2, <1>6, <1>7
  <2>2. CASE key # k
    BY <2>2, <1>2, <1>8, <1>9 DEF CacheInv, EntriesOK
  <2> QED BY <2>1, <2>2
<1>14. SettledStays'
  <2> SUFFICES ASSUME NEW key \in Keys, Held(key)'
               PROVE  cached'[key].version >= settled'[key]
    BY DEF SettledStays
  <2>1. CASE key = k
    BY <2>1, <1>6, <1>7, <1>8, <1>9
  <2>2. CASE key # k
    <3>1. Held(key)
      BY <2>2, <1>2, <1>8 DEF Held
    <3> QED BY <3>1, <2>2, <1>8, <1>9 DEF CacheInv, SettledStays
  <2> QED BY <2>1, <2>2
<1>15. \A v \in 1 .. version' : writtenAt'[v] <= now'
  BY <1>2 DEF CacheInv
<1> QED BY <1>5, <1>11, <1>12, <1>13, <1>14, <1>15 DEF CacheInv

\* A step of a reader that saves nothing changes nothing but this reader.
LEMMA ReadingInv ==
  ASSUME CacheInv, NEW r \in Reader,
         UNCHANGED <<now, version, writtenAt, cached, settled>>,
         \A q \in Saving' : q \in Saving /\ found'[q] = found[q] /\ reading'[q] = reading[q],
         \A q \in Reader : phaseOf'[q] # "idle" => reading'[q] \in Queries,
         reading' \in [Reader -> Queries \union {NoQuery}],
         phaseOf' \in [Reader -> {"idle", "search", "find", "save"}],
         found' \in [Reader -> [version : 0 .. MaxVersion, at : 0 .. MaxTime]]
  PROVE  CacheInv'
<1>1. CacheTypeOK'
  BY DEF CacheInv, CacheTypeOK
<1>2. FoundOK'
  BY DEF CacheInv, FoundOK, KeyOf
<1>3. EntriesOK' /\ SettledStays'
  BY DEF CacheInv, EntriesOK, SettledStays, Held
<1> QED BY <1>1, <1>2, <1>3 DEF CacheInv

LEMMA FindInv ==
  ASSUME CacheInv, NEW r \in Reader, FindInDatabase(r)
  PROVE  CacheInv'
<1> USE CacheAssumption
<1>1. /\ phaseOf[r] = "find"
      /\ found' = [found EXCEPT ![r] = [version |-> version, at |-> now]]
      /\ phaseOf' = [phaseOf EXCEPT ![r] = "save"]
      /\ UNCHANGED <<now, version, writtenAt, cached, reading, settled>>
  BY DEF FindInDatabase
<1>2. reading[r] \in Queries /\ KeyOf(reading[r]) \in Keys
  BY <1>1 DEF CacheInv, Keys
<1>3. CacheTypeOK'
  BY <1>1 DEF CacheInv, CacheTypeOK
<1>4. EntriesOK' /\ SettledStays'
  BY <1>1 DEF CacheInv, EntriesOK, SettledStays, Held
<1>5. FoundOK'
  <2> SUFFICES ASSUME NEW q \in Saving' PROVE FoundOK!(q)'
    BY DEF FoundOK
  <2>1. CASE q = r
    <3>1. found'[q] = [version |-> version, at |-> now]
      BY <1>1, <2>1 DEF CacheInv, CacheTypeOK
    <3>2. version \in Nat /\ now \in Nat
      BY DEF CacheInv, CacheTypeOK
    <3>3. settled[KeyOf(reading[r])] <= version
      BY <1>2 DEF CacheInv, EntriesOK
    <3>4. KeyOf(reading[q])' = KeyOf(reading[r])
      BY <1>1, <2>1
    <3> QED BY <1>1, <3>1, <3>2, <3>3, <3>4
  <2>2. CASE q # r
    <3>1. q \in Saving /\ found'[q] = found[q]
      BY <1>1, <2>2 DEF Saving, CacheInv, CacheTypeOK
    <3> QED BY <1>1, <3>1 DEF CacheInv, FoundOK, KeyOf
  <2> QED BY <2>1, <2>2
<1>6. \A q \in Reader : phaseOf'[q] # "idle" => reading'[q] \in Queries
  BY <1>1, <1>2 DEF CacheInv, CacheTypeOK
<1> QED BY <1>1, <1>3, <1>4, <1>5, <1>6 DEF CacheInv

LEMMA WriteInv == CacheInv /\ Write => CacheInv'
<1> SUFFICES ASSUME CacheInv, Write PROVE CacheInv'
  OBVIOUS
<1> USE CacheAssumption
<1>1. /\ version < MaxVersion /\ version' = version + 1
      /\ writtenAt' = [writtenAt EXCEPT ![version + 1] = now]
      /\ UNCHANGED <<now, cached, reading, phaseOf, found, settled>>
  BY DEF Write
<1>2. version \in Nat /\ now \in Nat /\ version + 1 \in 1 .. MaxVersion
  BY <1>1 DEF CacheInv, CacheTypeOK
<1>3. \A v \in 1 .. version' :
        \/ v \in 1 .. version /\ writtenAt'[v] = writtenAt[v]
        \/ v = version + 1 /\ writtenAt'[v] = now
  BY <1>1, <1>2 DEF CacheInv, CacheTypeOK
<1>4. CacheTypeOK'
  BY <1>1, <1>2 DEF CacheInv, CacheTypeOK
<1>5. SettledStays'
  BY <1>1 DEF CacheInv, SettledStays, Held
<1>6. FoundOK'
  <2> SUFFICES ASSUME NEW q \in Saving' PROVE FoundOK!(q)'
    BY DEF FoundOK
  <2>1. q \in Saving /\ found'[q] = found[q] /\ KeyOf(reading[q])' = KeyOf(reading[q])
    BY <1>1 DEF Saving, KeyOf
  <2>2. FoundOK!(q) /\ found[q].at \in Nat
    BY <2>1 DEF CacheInv, FoundOK, CacheTypeOK, Saving
  <2> QED BY <1>1, <1>2, <1>3, <2>1, <2>2
<1>7. EntriesOK'
  <2> SUFFICES ASSUME NEW key \in Keys PROVE EntriesOK!(key)'
    BY DEF EntriesOK
  <2>1. /\ EntriesOK!(key) /\ cached[key].version \in Nat /\ cached[key].expires \in Nat
        /\ settled[key] \in Nat
    BY DEF CacheInv, EntriesOK, CacheTypeOK
  <2> QED BY <1>1, <1>2, <1>3, <2>1
<1>8. \A v \in 1 .. version' : writtenAt'[v] <= now'
  BY <1>1, <1>2, <1>3 DEF CacheInv
<1> QED BY <1>1, <1>4, <1>5, <1>6, <1>7, <1>8 DEF CacheInv

LEMMA PassInv == CacheInv /\ Pass => CacheInv'
<1> SUFFICES ASSUME CacheInv, Pass PROVE CacheInv'
  OBVIOUS
<1> USE CacheAssumption
<1>1. /\ now < MaxTime /\ now' = now + 1
      /\ \A r \in Saving : now < found[r].at + SaveDelay
      /\ UNCHANGED <<version, writtenAt, cached, reading, phaseOf, found, settled>>
  BY DEF Pass
<1>2. now \in Nat /\ version \in Nat
  BY DEF CacheInv, CacheTypeOK
<1>3. CacheTypeOK'
  BY <1>1, <1>2 DEF CacheInv, CacheTypeOK
<1>4. FoundOK'
  <2> SUFFICES ASSUME NEW q \in Saving' PROVE FoundOK!(q)'
    BY DEF FoundOK
  <2>1. q \in Saving /\ found'[q] = found[q] /\ KeyOf(reading[q])' = KeyOf(reading[q])
    BY <1>1 DEF Saving, KeyOf
  <2>2. FoundOK!(q) /\ found[q].at \in Nat
    BY <2>1 DEF CacheInv, FoundOK, CacheTypeOK, Saving
  <2> QED BY <1>1, <1>2, <2>1, <2>2
<1>5. EntriesOK'
  <2> SUFFICES ASSUME NEW key \in Keys PROVE EntriesOK!(key)'
    BY DEF EntriesOK
  <2>1. EntriesOK!(key) /\ cached[key].expires \in Nat
    BY DEF CacheInv, EntriesOK, CacheTypeOK
  <2> QED BY <1>1, <1>2, <2>1
<1>6. SettledStays'
  <2> SUFFICES ASSUME NEW key \in Keys, Held(key)'
               PROVE  cached'[key].version >= settled'[key]
    BY DEF SettledStays
  <2>1. Held(key)
    BY <1>1, <1>2 DEF Held, CacheInv, CacheTypeOK
  <2> QED BY <1>1, <2>1 DEF CacheInv, SettledStays
<1>7. \A v \in 1 .. version' : writtenAt'[v] <= now'
  BY <1>1, <1>2 DEF CacheInv, CacheTypeOK
<1> QED BY <1>1, <1>3, <1>4, <1>5, <1>6, <1>7 DEF CacheInv

LEMMA ClearInv == CacheInv /\ ClearCache => CacheInv'
<1> SUFFICES ASSUME CacheInv, ClearCache PROVE CacheInv'
  OBVIOUS
<1> USE CacheAssumption
<1>1. /\ cached' = [key \in Keys |-> NoEntry]
      /\ settled' = IF Saving = {} THEN [key \in Keys |-> version] ELSE settled
      /\ UNCHANGED <<now, version, writtenAt, reading, phaseOf, found>>
  BY DEF ClearCache
<1>2. now \in Nat /\ version \in Nat /\ version <= MaxVersion
  BY DEF CacheInv, CacheTypeOK
<1>3. settled' \in [Keys -> 0 .. MaxVersion] /\ \A key \in Keys : settled'[key] <= version
  BY <1>1, <1>2 DEF CacheInv, CacheTypeOK, EntriesOK
<1>4. CacheTypeOK'
  BY <1>1, <1>3 DEF CacheInv, CacheTypeOK, NoEntry
<1>5. FoundOK'
  <2>1. Saving' = Saving
    BY <1>1 DEF Saving
  <2>2. Saving = {} \/ settled' = settled
    BY <1>1
  <2> QED BY <1>1, <2>1, <2>2 DEF CacheInv, FoundOK, KeyOf
<1>6. EntriesOK' /\ SettledStays'
  <2>1. \A key \in Keys : cached'[key].version = 0 /\ cached'[key].expires = 0
    BY <1>1 DEF NoEntry
  <2>2. \A v \in 1 .. version : writtenAt[v] \in Nat
    BY DEF CacheInv, CacheTypeOK
  <2>3. EntriesOK'
    BY <1>1, <1>2, <1>3, <2>1, <2>2 DEF EntriesOK
  <2>4. \A key \in Keys : ~Held(key)'
    BY <1>1, <1>2, <2>1 DEF Held
  <2> QED BY <2>3, <2>4 DEF SettledStays
<1> QED BY <1>1, <1>4, <1>5, <1>6 DEF CacheInv

LEMMA CacheNextInv == CacheInv /\ [CacheNext]_cacheVars => CacheInv'
<1> SUFFICES ASSUME CacheInv, [CacheNext]_cacheVars PROVE CacheInv'
  OBVIOUS
<1> USE CacheAssumption
<1>1. ASSUME NEW r \in Reader, NEW q \in Queries, NEW f \in BOOLEAN, Read(r, q, f)
      PROVE  CacheInv'
  <2>1. /\ phaseOf[r] = "idle"
        /\ reading' = [reading EXCEPT ![r] = q]
        /\ phaseOf' = [phaseOf EXCEPT ![r] = IF f THEN "find" ELSE "search"]
        /\ UNCHANGED <<now, version, writtenAt, cached, found, settled>>
    BY <1>1 DEF Read
  <2>2. \A p \in Saving' : p \in Saving /\ reading'[p] = reading[p]
    BY <2>1 DEF Saving, CacheInv, CacheTypeOK
  <2>3. \A p \in Reader : phaseOf'[p] # "idle" => reading'[p] \in Queries
    BY <2>1 DEF CacheInv, CacheTypeOK
  <2>4. /\ reading' \in [Reader -> Queries \union {NoQuery}]
        /\ phaseOf' \in [Reader -> {"idle", "search", "find", "save"}]
        /\ found' \in [Reader -> [version : 0 .. MaxVersion, at : 0 .. MaxTime]]
    BY <2>1 DEF CacheInv, CacheTypeOK
  <2> QED BY <2>1, <2>2, <2>3, <2>4, ReadingInv
<1>2. ASSUME NEW r \in Reader, Done(r), UNCHANGED <<now, version, writtenAt, cached, settled>>
      PROVE  CacheInv'
  <2>1. \A p \in Saving' : p \in Saving /\ found'[p] = found[p] /\ reading'[p] = reading[p]
    BY <1>2, DoneSaving DEF CacheInv, Saving
  <2>2. \A p \in Reader : phaseOf'[p] # "idle" => reading'[p] \in Queries
    BY <1>2, DoneSaving DEF CacheInv
  <2>3. /\ reading' \in [Reader -> Queries \union {NoQuery}]
        /\ phaseOf' \in [Reader -> {"idle", "search", "find", "save"}]
        /\ found' \in [Reader -> [version : 0 .. MaxVersion, at : 0 .. MaxTime]]
    BY <1>2, DoneSaving DEF CacheInv
  <2> QED BY <1>2, <2>1, <2>2, <2>3, ReadingInv
<1>3. ASSUME NEW r \in Reader, SearchInCache(r) PROVE CacheInv'
  <2>1. CASE Held(KeyOf(reading[r]))
    BY <1>2, <1>3, <2>1 DEF SearchInCache
  <2>2. CASE ~Held(KeyOf(reading[r]))
    <3>1. /\ phaseOf[r] = "search" /\ phaseOf' = [phaseOf EXCEPT ![r] = "find"]
          /\ UNCHANGED <<now, version, writtenAt, cached, settled, reading, found>>
      BY <1>3, <2>2 DEF SearchInCache
    <3>2. \A p \in Saving' : p \in Saving
      BY <3>1 DEF Saving, CacheInv, CacheTypeOK
    <3>3. \A p \in Reader : phaseOf'[p] # "idle" => reading'[p] \in Queries
      BY <3>1 DEF CacheInv, CacheTypeOK
    <3>4. /\ reading' \in [Reader -> Queries \union {NoQuery}]
          /\ phaseOf' \in [Reader -> {"idle", "search", "find", "save"}]
          /\ found' \in [Reader -> [version : 0 .. MaxVersion, at : 0 .. MaxTime]]
      BY <3>1 DEF CacheInv, CacheTypeOK
    <3> QED BY <3>1, <3>2, <3>3, <3>4, ReadingInv
  <2> QED BY <2>1, <2>2
<1>4. ASSUME NEW r \in Reader, ReadFails(r) PROVE CacheInv'
  BY <1>2, <1>4 DEF ReadFails
<1>5. CASE UNCHANGED cacheVars
  <2>1. Saving' = Saving
    BY <1>5 DEF cacheVars, Saving
  <2> QED BY <1>5, <2>1
          DEF cacheVars, CacheInv, CacheTypeOK, FoundOK, EntriesOK, SettledStays, Held, KeyOf
<1> QED BY <1>1, <1>3, <1>4, <1>5, FindInv, SaveInv, WriteInv, PassInv, ClearInv DEF CacheNext

LEMMA AgedEntries == CacheInv => StaleIsBounded
<1> SUFFICES ASSUME CacheInv, NEW key \in Keys, NEW v \in 1 .. version,
                    Held(key), now >= writtenAt[v] + TTL + SaveDelay
             PROVE  cached[key].version >= v
  BY DEF StaleIsBounded
<1>1. /\ now \in Nat /\ version \in Nat /\ version <= MaxVersion
      /\ cached[key].version \in Nat /\ cached[key].expires \in Nat
      /\ writtenAt[v] \in Nat
  BY CacheAssumption DEF CacheInv, CacheTypeOK
<1>2. v > cached[key].version => cached[key].expires <= writtenAt[v] + TTL + SaveDelay
  BY DEF CacheInv, EntriesOK
<1> QED BY <1>1, <1>2, CacheAssumption DEF Held

LEMMA CacheInvariance == CacheSpec => []CacheInv
BY CacheInitInv, CacheNextInv, PTL DEF CacheSpec

\* Whatever reads, forced updates, saves nobody waits for and clears overtake
\* each other, the cache answers with nothing that misses a write older than
\* ttl and a save's delay, for any number of readers, keys and writes.
THEOREM CacheIsFresh == CacheSpec => []StaleIsBounded
BY CacheInvariance, AgedEntries, PTL

\* Nothing older follows what was left in the cache while no save was under way.
THEOREM SettledForGood == CacheSpec => []SettledStays
<1>1. CacheInv => SettledStays
  BY DEF CacheInv
<1> QED BY <1>1, CacheInvariance, PTL

\* Entries and readers keep their types.
THEOREM CacheTypes == CacheSpec => []CacheTypeOK
<1>1. CacheInv => CacheTypeOK
  BY DEF CacheInv
<1> QED BY <1>1, CacheInvariance, PTL

-----------------------------------------------------------------------------
(* Meeting: while requests come one after the other, what a request has     *)
(* decided is still right when it writes it.                               *)

\* The request that is under way is the only one, and nothing it has looked at
\* has changed since.
DecidedOK ==
  \A r \in Asks :
    /\ Asking(r) => meeting.linked /\ \A q \in Asks : serial /\ Asking(q) => q = r
    /\ step[r] = "write" => write[r].column # "none" /\ write[r].value \in Minutes
    /\ serial /\ step[r] = "write" /\ write[r].column \in {"startTime", "endTime"} => ~Ended
    /\ serial /\ step[r] = "write" /\ write[r].column = "startTime" /\ meeting.isScheduled
         => write[r].value + TimeToStart >= meeting.scheduleTime

MeetingInv ==
  /\ MeetingTypeOK /\ DecidedOK
  /\ meeting.linked => meeting.scheduleTime = planned
  /\ ~meeting.linked => ~Ended /\ ~meeting.isScheduled

LEMMA MeetingInitInv == MeetingInit => MeetingInv
BY MeetingAssumption
DEF MeetingInit, MeetingInv, MeetingTypeOK, DecidedOK, NoMeeting, NoWrite, Asking, Ended,
    Minutes, Times, Unset

\* A request that begins alone is the only one under way.
LEMMA AskAlone ==
  ASSUME MeetingInv, NEW r \in Asks, NEW label, Ask(r, label)
  PROVE  /\ step[r] = "idle" /\ step' = [step EXCEPT ![r] = label]
         /\ serial => \A q \in Asks : ~Asking(q)
<1> DEFINE B == {q \in Asks : Asking(q)}
<1>1. IsFiniteSet(B)
  <2>1. IsFiniteSet(Asks)
    BY MeetingAssumption, FS_Interval DEF Asks
  <2>2. B \in SUBSET Asks
    OBVIOUS
  <2> QED BY <2>1, <2>2, FS_Subset
<1>2. serial => Cardinality(B) = 0
  BY DEF Ask
<1>3. serial => B = {}
  BY <1>1, <1>2, FS_EmptySet
<1> QED BY <1>3 DEF Ask

\* What an update of one column does to the row.
LEMMA WrittenRow ==
  ASSUME MeetingTypeOK, NEW c \in {"startTime", "scheduleTime", "endTime"}, NEW v \in Times,
         NEW r, r = [meeting EXCEPT ![c] = v]
  PROVE  /\ r \in [linked : BOOLEAN, isScheduled : BOOLEAN, scheduleTime : Times,
                     startTime : Times, endTime : Times]
         /\ r.linked = meeting.linked /\ r.isScheduled = meeting.isScheduled
         /\ r.startTime = IF c = "startTime" THEN v ELSE meeting.startTime
         /\ r.scheduleTime = IF c = "scheduleTime" THEN v ELSE meeting.scheduleTime
         /\ r.endTime = IF c = "endTime" THEN v ELSE meeting.endTime
BY DEF MeetingTypeOK

\* A step that leaves the row and its schedule alone, and lets a request write
\* only what it may.
LEMMA DecidingInv ==
  ASSUME MeetingInv, NEW r \in Asks, NEW label, step' = [step EXCEPT ![r] = label],
         label \in {"findToken", "findEdit", "findEnd", "write", "token", "done", "refused"},
         UNCHANGED <<serial, minute, meeting, planned>>,
         label \in {"findToken", "findEdit", "findEnd", "write"} =>
           meeting.linked /\ \A q \in Asks : serial /\ Asking(q) => q = r,
         NEW column \in {"startTime", "scheduleTime", "endTime"}, NEW v \in Minutes,
         \/ label = "write" /\ write' = [write EXCEPT ![r] = [column |-> column, value |-> v]]
         \/ label # "write" /\ write' = write,
         serial /\ label = "write" /\ column \in {"startTime", "endTime"} => ~Ended,
         serial /\ label = "write" /\ column = "startTime" /\ meeting.isScheduled
           => v + TimeToStart >= meeting.scheduleTime
  PROVE  MeetingInv'
<1> USE DEF MeetingInv
<1>1. MeetingTypeOK'
  BY DEF MeetingTypeOK, Times
<1>2. \A q \in Asks : /\ q # r => step'[q] = step[q] /\ write'[q] = write[q]
                      /\ q = r => step'[q] = label
  BY DEF MeetingTypeOK
<1>3. label = "write" => write'[r] = [column |-> column, value |-> v]
  BY DEF MeetingTypeOK
<1>4. DecidedOK'
  <2> SUFFICES ASSUME NEW p \in Asks PROVE DecidedOK!(p)'
    BY DEF DecidedOK
  <2>1. Asking(p)' => meeting'.linked /\ \A q \in Asks : serial' /\ Asking(q)' => q = p
    BY <1>2 DEF Asking, DecidedOK
  <2>2. CASE p = r
    BY <2>1, <2>2, <1>2, <1>3 DEF Ended
  <2>3. CASE p # r
    BY <2>1, <2>3, <1>2 DEF DecidedOK, Ended
  <2> QED BY <2>2, <2>3
<1> QED BY <1>1, <1>4 DEF Ended

LEMMA LinkInv ==
  ASSUME MeetingInv, NEW r \in Asks, NEW scheduled \in BOOLEAN, NEW t \in Minutes,
         GetMeetingLink(r, scheduled, t)
  PROVE  MeetingInv'
<1> USE DEF MeetingInv
<1>1. /\ ~meeting.linked /\ Ask(r, "done")
      /\ meeting' = [NoMeeting EXCEPT !.linked = TRUE, !.isScheduled = scheduled,
                                      !.scheduleTime = t]
      /\ planned' = t /\ UNCHANGED <<serial, minute, write>>
  BY DEF GetMeetingLink
<1>2. /\ meeting' \in [linked : BOOLEAN, isScheduled : BOOLEAN, scheduleTime : Times,
                       startTime : Times, endTime : Times]
      /\ meeting'.linked /\ meeting'.scheduleTime = t /\ meeting'.endTime = Unset
  BY <1>1 DEF NoMeeting, Times, Unset
<1>3. step' = [step EXCEPT ![r] = "done"]
  BY <1>1 DEF Ask
<1>4. MeetingTypeOK'
  BY <1>1, <1>2, <1>3 DEF MeetingTypeOK
<1>5. \A q \in Asks : ~Asking(q)'
  BY <1>1, <1>3 DEF DecidedOK, Asking, MeetingTypeOK
<1>6. \A q \in Asks : step'[q] # "write"
  BY <1>5 DEF Asking
<1> QED BY <1>1, <1>2, <1>4, <1>5, <1>6 DEF DecidedOK

LEMMA UpdateInv ==
  ASSUME MeetingInv, NEW r \in Asks, UpdateMeeting(r)
  PROVE  MeetingInv'
<1> DEFINE c == write[r].column
           v == write[r].value
<1> USE DEF MeetingInv
<1>1. /\ step[r] = "write" /\ meeting' = [meeting EXCEPT ![c] = v]
      /\ planned' = IF c = "scheduleTime" THEN v ELSE planned
      /\ step' = [step EXCEPT ![r] = IF c = "startTime" THEN "token" ELSE "done"]
      /\ UNCHANGED <<serial, minute, write>>
  BY DEF UpdateMeeting, Written, Answer
<1>2. c \in {"startTime", "scheduleTime", "endTime"} /\ v \in Minutes /\ v \in Times
  BY <1>1 DEF DecidedOK, MeetingTypeOK, Times
<1>3. meeting.linked /\ \A q \in Asks : serial /\ Asking(q) => q = r
  BY <1>1 DEF DecidedOK, Asking
<1> HIDE DEF c, v
<1>4. /\ meeting' \in [linked : BOOLEAN, isScheduled : BOOLEAN, scheduleTime : Times,
                       startTime : Times, endTime : Times]
      /\ meeting'.linked = meeting.linked
      /\ meeting'.scheduleTime = IF c = "scheduleTime" THEN v ELSE meeting.scheduleTime
  BY <1>1, <1>2, WrittenRow
<1>5. MeetingTypeOK'
  BY <1>1, <1>2, <1>4 DEF MeetingTypeOK
<1>6. \A q \in Asks : /\ q # r => step'[q] = step[q]
                      /\ q = r => step'[q] \in {"token", "done"}
  BY <1>1 DEF MeetingTypeOK
<1>7. DecidedOK'
  <2> SUFFICES ASSUME NEW p \in Asks PROVE DecidedOK!(p)'
    BY DEF DecidedOK
  <2>1. CASE p = r
    BY <2>1, <1>6 DEF Asking
  <2>2. CASE p # r
    <3>1. /\ Asking(p)' => Asking(p) /\ meeting'.linked
          /\ serial' => ~Asking(p) /\ step'[p] # "write"
      BY <2>2, <1>1, <1>3, <1>4, <1>6 DEF Asking
    <3>2. Asking(p)' => \A q \in Asks : serial' /\ Asking(q)' => q = p
      BY <3>1
    <3> QED BY <3>1, <3>2, <2>2, <1>1, <1>6 DEF DecidedOK
  <2> QED BY <2>1, <2>2
<1> QED BY <1>1, <1>3, <1>4, <1>5, <1>7

LEMMA MeetingNextInv == MeetingInv /\ [MeetingNext]_meetingVars => MeetingInv'
<1> SUFFICES ASSUME MeetingInv, [MeetingNext]_meetingVars PROVE MeetingInv'
  OBVIOUS
<1> USE MeetingAssumption
<1>0. minute \in Minutes /\ minute \in Nat
  BY DEF MeetingInv, MeetingTypeOK, Minutes
<1>1. CASE NextMinute
  <2>1. minute' \in Minutes /\ UNCHANGED <<serial, meeting, step, write, planned>>
    BY <1>0, <1>1 DEF NextMinute, Minutes
  <2> QED BY <2>1 DEF MeetingInv, MeetingTypeOK, DecidedOK, Asking, Ended
<1>2. ASSUME NEW r \in Asks, NEW label \in {"findToken", "findEdit", "findEnd"},
             Request(r, label)
      PROVE  MeetingInv'
  <2>1. /\ meeting.linked /\ Ask(r, label)
        /\ UNCHANGED <<serial, minute, meeting, write, planned>>
    BY <1>2 DEF Request
  <2>2. step' = [step EXCEPT ![r] = label] /\ (serial => \A q \in Asks : ~Asking(q))
    BY <2>1, AskAlone
  <2> QED BY <1>0, <2>1, <2>2, DecidingInv
<1>3. ASSUME NEW r \in Asks, Asking(r), NEW answer \in {"token", "done", "refused"},
             Answer(r, answer), UNCHANGED <<serial, minute, meeting, planned>>
      PROVE  MeetingInv'
  BY <1>0, <1>3, DecidingInv DEF Answer
<1>4. ASSUME NEW r \in Asks, Asking(r), NEW v \in Minutes,
             NEW column \in {"startTime", "scheduleTime", "endTime"}, Decide(r, column, v),
             UNCHANGED <<serial, minute, meeting, planned>>,
             column \in {"startTime", "endTime"} => ~Ended,
             column = "startTime" /\ meeting.isScheduled
               => v + TimeToStart >= meeting.scheduleTime
      PROVE  MeetingInv'
  <2>1. meeting.linked /\ \A q \in Asks : serial /\ Asking(q) => q = r
    BY <1>4 DEF MeetingInv, DecidedOK
  <2> QED BY <1>4, <2>1, DecidingInv DEF Decide
<1>5. ASSUME NEW r \in Asks, FindForToken(r) PROVE MeetingInv'
  <2>1. Asking(r) /\ UNCHANGED <<serial, minute, meeting, planned>>
    BY <1>5 DEF FindForToken, Asking
  <2>2. CASE ~Open \/ TooEarly
    BY <1>3, <1>5, <2>1, <2>2 DEF FindForToken
  <2>3. CASE ~(~Open \/ TooEarly) /\ meeting.startTime # Unset
    BY <1>3, <1>5, <2>1, <2>3 DEF FindForToken
  <2>4. CASE ~(~Open \/ TooEarly) /\ meeting.startTime = Unset
    <3>1. Decide(r, "startTime", minute) /\ ~Ended
      BY <1>5, <2>4 DEF FindForToken, Open
    <3>2. meeting.isScheduled => minute + TimeToStart >= meeting.scheduleTime
      <4>1. meeting.scheduleTime \in Int
        BY DEF MeetingInv, MeetingTypeOK, Times, Minutes, Unset
      <4> QED BY <1>0, <2>4, <4>1 DEF TooEarly
    <3> QED BY <1>0, <1>4, <2>1, <3>1, <3>2
  <2> QED BY <2>2, <2>3, <2>4
<1>6. ASSUME NEW r \in Asks, NEW scheduled \in BOOLEAN, NEW t \in Minutes,
             FindForEdit(r, scheduled, t)
      PROVE  MeetingInv'
  <2>1. Asking(r) /\ UNCHANGED <<serial, minute, meeting, planned>>
    BY <1>6 DEF FindForEdit, Asking
  <2>2. CASE t < minute
    BY <1>3, <1>6, <2>1, <2>2 DEF FindForEdit
  <2>3. CASE ~(t < minute)
    <3>1. PICK v \in Minutes : Decide(r, "scheduleTime", v)
      BY <1>0, <1>6, <2>3 DEF FindForEdit
    <3> QED BY <1>4, <2>1, <3>1
  <2> QED BY <2>2, <2>3
<1>7. ASSUME NEW r \in Asks, FindForEnd(r) PROVE MeetingInv'
  <2>1. Asking(r) /\ UNCHANGED <<serial, minute, meeting, planned>>
    BY <1>7 DEF FindForEnd, Asking
  <2>2. CASE Ended
    BY <1>3, <1>7, <2>1, <2>2 DEF FindForEnd
  <2>3. CASE ~Ended
    BY <1>0, <1>4, <1>7, <2>1, <2>3 DEF FindForEnd
  <2> QED BY <2>2, <2>3
<1>8. CASE UNCHANGED meetingVars
  BY <1>8 DEF meetingVars, MeetingInv, MeetingTypeOK, DecidedOK, Asking, Ended
<1> QED BY <1>1, <1>2, <1>5, <1>6, <1>7, <1>8, LinkInv, UpdateInv DEF MeetingNext

LEMMA MeetingInvariance == MeetingSpec => []MeetingInv
BY MeetingInitInv, MeetingNextInv, PTL DEF MeetingSpec

\* What EndIsFinal and ScheduleKept ask of a step.
EndKept ==
  serial /\ Ended =>
    /\ meeting'.endTime = meeting.endTime
    /\ meeting'.startTime = meeting.startTime
    /\ \A r \in Asks : step'[r] = "token" => step[r] = "token"
StartKept ==
  serial /\ meeting.isScheduled /\ meeting'.startTime # meeting.startTime =>
    meeting'.startTime + TimeToStart >= planned

LEMMA MeetingSteps ==
  ASSUME MeetingInv, [MeetingNext]_meetingVars
  PROVE  EndKept /\ StartKept
<1> USE MeetingAssumption DEF MeetingInv
<1>1. ASSUME UNCHANGED meeting, NEW r \in Asks, NEW label, Ended => label # "token",
             step' = [step EXCEPT ![r] = label]
      PROVE  EndKept /\ StartKept
  BY <1>1 DEF EndKept, StartKept, MeetingTypeOK
<1>2. CASE NextMinute \/ UNCHANGED meetingVars
  BY <1>2 DEF NextMinute, meetingVars, EndKept, StartKept
<1>3. ASSUME NEW r \in Asks, NEW label \in {"findToken", "findEdit", "findEnd"},
             Request(r, label)
      PROVE  EndKept /\ StartKept
  BY <1>1, <1>3 DEF Request, Ask
<1>4. ASSUME NEW r \in Asks, NEW scheduled \in BOOLEAN, NEW t \in Minutes,
             GetMeetingLink(r, scheduled, t)
      PROVE  EndKept /\ StartKept
  <2>1. ~meeting.linked /\ planned' = t /\ meeting'.startTime = Unset
    BY <1>4 DEF GetMeetingLink, NoMeeting
  <2>2. ~Ended /\ ~meeting.isScheduled
    BY <2>1
  <2> QED BY <2>1, <2>2 DEF EndKept, StartKept
<1>5. ASSUME NEW r \in Asks, FindForToken(r) \/ FindForEnd(r)
      PROVE  EndKept /\ StartKept
  <2>1. UNCHANGED meeting
    BY <1>5 DEF FindForToken, FindForEnd
  <2>2. \/ step' = [step EXCEPT ![r] = "refused"]
        \/ step' = [step EXCEPT ![r] = "write"]
        \/ ~Ended /\ step' = [step EXCEPT ![r] = "token"]
    BY <1>5 DEF FindForToken, FindForEnd, Answer, Decide, Open
  <2> QED BY <1>1, <2>1, <2>2
<1>6. ASSUME NEW r \in Asks, NEW scheduled \in BOOLEAN, NEW t \in Minutes,
             FindForEdit(r, scheduled, t)
      PROVE  EndKept /\ StartKept
  <2>1. UNCHANGED meeting
    BY <1>6 DEF FindForEdit
  <2>2. \/ step' = [step EXCEPT ![r] = "refused"]
        \/ step' = [step EXCEPT ![r] = "write"]
    BY <1>6 DEF FindForEdit, Answer, Decide
  <2> QED BY <1>1, <2>1, <2>2
<1>7. ASSUME NEW r \in Asks, UpdateMeeting(r)
      PROVE  EndKept /\ StartKept
  <2> DEFINE c == write[r].column
             v == write[r].value
  <2>1. /\ step[r] = "write" /\ meeting' = [meeting EXCEPT ![c] = v]
        /\ step' = [step EXCEPT ![r] = IF c = "startTime" THEN "token" ELSE "done"]
    BY <1>7 DEF UpdateMeeting, Written, Answer
  <2>2. /\ c \in {"startTime", "scheduleTime", "endTime"} /\ v \in Times
        /\ meeting.linked
        /\ serial /\ c \in {"startTime", "endTime"} => ~Ended
        /\ serial /\ c = "startTime" /\ meeting.isScheduled => v + TimeToStart >= planned
    BY <2>1 DEF DecidedOK, MeetingTypeOK, Times, Asking
  <2> HIDE DEF c, v
  <2>3. /\ meeting'.startTime = IF c = "startTime" THEN v ELSE meeting.startTime
        /\ meeting'.endTime = IF c = "endTime" THEN v ELSE meeting.endTime
    <3>1. c \in {"startTime", "scheduleTime", "endTime"}
      BY <2>2
    <3>2. meeting' = [meeting EXCEPT ![c] = v]
      BY <2>1
    <3> QED BY <3>1, <3>2 DEF MeetingTypeOK
  <2>4. \A q \in Asks : step'[q] = "token" => c = "startTime" \/ step[q] = "token"
    BY <2>1 DEF MeetingTypeOK
  <2> QED BY <2>2, <2>3, <2>4 DEF EndKept, StartKept
<1> QED BY <1>2, <1>3, <1>4, <1>5, <1>6, <1>7 DEF MeetingNext

\* A meeting that has ended keeps its end and its start, and lets nobody in,
\* when its requests follow each other (endSession and getMeetingToken, both of
\* which decide in one step and write in another).
THEOREM MeetingEnds == MeetingSpec => EndIsFinal
<1>1. MeetingInv /\ [MeetingNext]_meetingVars =>
        [serial /\ Ended =>
           /\ meeting'.endTime = meeting.endTime
           /\ meeting'.startTime = meeting.startTime
           /\ \A r \in Asks : step'[r] = "token" => step[r] = "token"]_meetingVars
  BY MeetingSteps DEF EndKept
<1> QED BY <1>1, MeetingInvariance, PTL DEF MeetingSpec, EndIsFinal

\* A scheduled meeting does not start before its schedule allows.
THEOREM MeetingOnTime == MeetingSpec => ScheduleKept
<1>1. MeetingInv /\ [MeetingNext]_meetingVars =>
        [serial /\ meeting.isScheduled /\ meeting'.startTime # meeting.startTime =>
           meeting'.startTime + TimeToStart >= planned]_meetingVars
  BY MeetingSteps DEF StartKept
<1> QED BY <1>1, MeetingInvariance, PTL DEF MeetingSpec, ScheduleKept

\* The row of the meeting and what requests remember of it keep their types.
THEOREM MeetingTypes == MeetingSpec => []MeetingTypeOK
<1>1. MeetingInv => MeetingTypeOK
  BY DEF MeetingInv
<1> QED BY <1>1, MeetingInvariance, PTL

-----------------------------------------------------------------------------
(* Toggles: what the tables say now, a check has seen at some moment.       *)

Looking == check.pc \in {"find", "findAny"}

\* Those checks that ChecksEveryLevel speaks of.
Judged == check.caller # Undefined /\ undisturbed

\* What is left of the list: the levels in front of it are on.
Remaining(c, on) ==
  \/ /\ c.listed = <<"System", "Tenant", "User">>
     /\ \/ c.todo = <<"System", "Tenant", "User">>
        \/ c.todo = <<"Tenant", "User">> /\ "System" \in on
        \/ c.todo = <<"User">> /\ "System" \in on /\ "Tenant" \in on
  \/ /\ c.listed = <<"User", "System">>
     /\ \/ c.todo = <<"User", "System">>
        \/ c.todo = <<"System">> /\ "User" \in on

CheckOK ==
  /\ check \in [pc : {"idle", "find", "findAny", "passed", "refused", "failed"},
                caller : Caller \union {Undefined}, listed : Listings \union {<<>>},
                todo : Seq(Level \union {"*"}), entity : FeatureIds \union {Undefined}]
  /\ Looking => Remaining(check, IF Judged THEN wasOn ELSE Level)
  /\ Looking /\ Judged =>
       check.pc = "find" /\ Keyed # {} /\ check.entity \in Keyed \union {Undefined}

SeenOK == OnFor(check.caller) \subseteq wasOn /\ OffFor(check.caller) \subseteq wasOff

TogglesInv == CheckOK /\ SeenOK /\ ChecksEveryLevel

LEMMA TogglesInitInv == TogglesInit => TogglesInv
<1> SUFFICES ASSUME TogglesInit PROVE TogglesInv
  OBVIOUS
<1>1. check = NoCheck
  BY DEF TogglesInit
<1>2. CheckOK
  BY <1>1 DEF CheckOK, NoCheck, Looking
<1>3. SeenOK
  BY <1>1 DEF SeenOK, NoCheck, OnFor, OffFor, EntitiesFor
<1>4. ChecksEveryLevel
  BY <1>1 DEF ChecksEveryLevel, NoCheck
<1> QED BY <1>2, <1>3, <1>4 DEF TogglesInv

\* Whatever a write does to the rows, the check in progress sees what they say.
LEMMA EndpointInv == TogglesInv /\ Endpoint => TogglesInv'
<1> SUFFICES ASSUME TogglesInv, Endpoint PROVE TogglesInv'
  OBVIOUS
<1>1. /\ check' = check
      /\ wasOn' = wasOn \union OnFor(check.caller)'
      /\ wasOff' = wasOff \union OffFor(check.caller)'
      /\ undisturbed' = (undisturbed /\ Keyed \subseteq Keyed')
  BY DEF Endpoint
<1>2. /\ Looking' = Looking /\ (Judged' => Judged)
      /\ Judged' => Keyed \subseteq Keyed'
      /\ wasOn \subseteq wasOn' /\ wasOff \subseteq wasOff'
  BY <1>1 DEF Looking, Judged
<1>3. SeenOK'
  BY <1>1 DEF SeenOK
<1>4. CheckOK'
  <2>1. ASSUME Looking' PROVE Remaining(check', IF Judged' THEN wasOn' ELSE Level)
    <3>1. Remaining(check, IF Judged THEN wasOn ELSE Level)
      BY <2>1, <1>2 DEF TogglesInv, CheckOK
    <3>2. \A l \in Level : l \in (IF Judged THEN wasOn ELSE Level) =>
                             l \in (IF Judged' THEN wasOn' ELSE Level)
      BY <1>2
    <3> QED BY <1>1, <3>1, <3>2 DEF Remaining, Level
  <2>2. ASSUME Looking', Judged'
        PROVE  /\ check'.pc = "find" /\ Keyed' # {}
               /\ check'.entity \in Keyed' \union {Undefined}
    BY <2>2, <1>1, <1>2 DEF TogglesInv, CheckOK
  <2>3. check' \in [pc : {"idle", "find", "findAny", "passed", "refused", "failed"},
                caller : Caller \union {Undefined}, listed : Listings \union {<<>>},
                todo : Seq(Level \union {"*"}), entity : FeatureIds \union {Undefined}]
    BY <1>1 DEF TogglesInv, CheckOK
  <2> QED BY <2>1, <2>2, <2>3 DEF CheckOK
<1>5. ChecksEveryLevel'
  BY <1>1, <1>2 DEF TogglesInv, ChecksEveryLevel, Judged
<1> QED BY <1>3, <1>4, <1>5 DEF TogglesInv

\* What the tables say depends on nothing but the tables and the caller.
LEMMA SameTables ==
  ASSUME UNCHANGED <<features, toggles>>, NEW c, check'.caller = c
  PROVE  OnFor(check.caller)' = OnFor(c) /\ OffFor(check.caller)' = OffFor(c)
<1>1. Keyed' = Keyed
  BY DEF Keyed
<1>2. \A l \in Level : EntitiesFor(check.caller, l)' = EntitiesFor(c, l)
  BY <1>1 DEF EntitiesFor, Level
<1>3. \A l \in Level : \A e : TogglesOf(l, e)' = TogglesOf(l, e)
  BY DEF TogglesOf
<1> QED BY <1>2, <1>3 DEF OnFor, OffFor

LEMMA StartCheckInv ==
  ASSUME TogglesInv, NEW caller \in Caller \union {Undefined}, NEW names \in Listings,
         StartCheck(caller, names)
  PROVE  TogglesInv'
<1>1. /\ check' = [pc |-> IF names = <<"*">> THEN "passed" ELSE "find", caller |-> caller,
                   listed |-> names, todo |-> names, entity |-> Undefined]
      /\ wasOn' = OnFor(caller) /\ wasOff' = OffFor(caller) /\ undisturbed' = (Keyed # {})
      /\ UNCHANGED <<features, toggles>>
  BY DEF StartCheck
<1>2. Keyed' = Keyed /\ check'.caller = caller
  BY <1>1 DEF Keyed
<1>3. SeenOK'
  <2>1. OnFor(check.caller)' = OnFor(caller) /\ OffFor(check.caller)' = OffFor(caller)
    BY <1>1, SameTables
  <2> QED BY <1>1, <2>1 DEF SeenOK
<1>4. names \in Seq(Level \union {"*"})
  <2>1. <<"*">> \in Seq(Level \union {"*"})
    OBVIOUS
  <2>2. <<"System", "Tenant", "User">> \in Seq(Level \union {"*"})
    BY DEF Level
  <2>3. <<"User", "System">> \in Seq(Level \union {"*"})
    BY DEF Level
  <2> QED BY <2>1, <2>2, <2>3 DEF Listings
<1>5. CheckOK'
  BY <1>1, <1>2, <1>4 DEF CheckOK, Looking, Judged, Remaining, Listings
<1>6. ChecksEveryLevel'
  BY <1>1 DEF ChecksEveryLevel
<1> QED BY <1>3, <1>5, <1>6 DEF TogglesInv

\* What is found of a level that is judged was so.
LEMMA FoundWasSo ==
  ASSUME TogglesInv, Looking, Judged, NEW level \in Level,
         level = "System" => check.entity # Undefined
  PROVE  LET hits == ToggleFound(level, EntityAt(level)) IN
           /\ hits = {} \/ (\E t \in hits : t.on) => level \in wasOn
           /\ (\E t \in hits : ~t.on) => level \in wasOff
<1> DEFINE e == EntityAt(level)
           hits == ToggleFound(level, e)
<1>1. check.caller \in Caller /\ check.caller # Undefined
  BY DEF Judged, TogglesInv, CheckOK
<1>2. e # Undefined /\ e \in EntitiesFor(check.caller, level)
  <2>1. CASE level = "System"
    BY <1>1, <2>1, TogglesAssumption DEF EntityAt, EntitiesFor, TogglesInv, CheckOK
  <2>2. CASE level # "System"
    BY <1>1, <2>2, TogglesAssumption DEF EntityAt, EntitiesFor, Level
  <2> QED BY <2>1, <2>2
<1> HIDE DEF e
<1>3. hits = TogglesOf(level, e)
  BY <1>2 DEF ToggleFound, TogglesOf
<1>4. hits = {} \/ (\E t \in hits : t.on) => level \in OnFor(check.caller)
  BY <1>2, <1>3 DEF OnFor
<1>5. (\E t \in hits : ~t.on) => level \in OffFor(check.caller)
  BY <1>2, <1>3 DEF OffFor
<1> QED BY <1>4, <1>5 DEF TogglesInv, SeenOK, e

LEMMA FindFeatureInv == TogglesInv /\ FindFeature => TogglesInv'
<1> SUFFICES ASSUME TogglesInv, FindFeature PROVE TogglesInv'
  OBVIOUS
<1>1. PICK id \in IF Keyed = {} THEN {Undefined} ELSE Keyed :
        check' = [check EXCEPT !.entity = id,
                               !.pc = IF id = Undefined THEN "findAny" ELSE "find"]
  BY DEF FindFeature
<1>2. check.pc = "find" /\ UNCHANGED <<features, toggles, wasOn, wasOff, undisturbed>>
  BY DEF FindFeature, Checks
<1>3. id \in FeatureIds \union {Undefined} /\ (Keyed # {} => id \in Keyed /\ id # Undefined)
  BY TogglesAssumption DEF Keyed
<1>4. /\ check'.caller = check.caller /\ check'.listed = check.listed
      /\ check'.todo = check.todo /\ check'.entity = id
      /\ check'.pc = IF id = Undefined THEN "findAny" ELSE "find"
      /\ check' \in [pc : {"idle", "find", "findAny", "passed", "refused", "failed"},
                caller : Caller \union {Undefined}, listed : Listings \union {<<>>},
                todo : Seq(Level \union {"*"}), entity : FeatureIds \union {Undefined}]
  BY <1>1, <1>3 DEF TogglesInv, CheckOK
<1>5. Keyed' = Keyed /\ Judged' = Judged /\ Looking
  BY <1>2, <1>4 DEF Keyed, Judged, Looking
<1>6. CheckOK'
  <2>1. Remaining(check', IF Judged' THEN wasOn' ELSE Level)
    BY <1>2, <1>4, <1>5 DEF TogglesInv, CheckOK, Remaining
  <2>2. Judged' => check'.pc = "find" /\ Keyed' # {} /\ check'.entity \in Keyed' \union {Undefined}
    BY <1>3, <1>4, <1>5 DEF TogglesInv, CheckOK
  <2> QED BY <1>4, <2>1, <2>2 DEF CheckOK
<1>7. SeenOK'
  BY <1>2, <1>4, SameTables DEF TogglesInv, SeenOK
<1>8. ChecksEveryLevel'
  BY <1>4 DEF ChecksEveryLevel
<1> QED BY <1>6, <1>7, <1>8 DEF TogglesInv

\* The lists there are, and what is left of them.
LEMMA ListHeads ==
  /\ Head(<<"System", "Tenant", "User">>) = "System" /\ Head(<<"Tenant", "User">>) = "Tenant"
  /\ Head(<<"User">>) = "User" /\ Head(<<"User", "System">>) = "User"
  /\ Head(<<"System">>) = "System"
  /\ Len(<<"User">>) = 1 /\ Len(<<"System">>) = 1
OBVIOUS

LEMMA ListTails ==
  /\ Tail(<<"System", "Tenant", "User">>) = <<"Tenant", "User">>
  /\ Tail(<<"Tenant", "User">>) = <<"User">>
  /\ Tail(<<"User", "System">>) = <<"System">>
<1>1. Tail(<<"System", "Tenant", "User">>) = <<"Tenant", "User">>
  OBVIOUS
<1>2. Tail(<<"Tenant", "User">>) = <<"User">>
  OBVIOUS
<1>3. Tail(<<"User", "System">>) = <<"System">>
  OBVIOUS
<1> QED BY <1>1, <1>2, <1>3

LEMMA ListsDiffer ==
  /\ <<"System", "Tenant", "User">> # <<"User", "System">>
  /\ <<"Tenant", "User">> # <<"User", "System">>
  /\ <<"Tenant", "User">> # <<"System", "Tenant", "User">>
  /\ <<"System">> # <<"User", "System">> /\ <<"System">> # <<"Tenant", "User">>
  /\ <<"System">> # <<"System", "Tenant", "User">>
  /\ <<"User">> # <<"System", "Tenant", "User">> /\ <<"User">> # <<"Tenant", "User">>
OBVIOUS

\* The level at hand is decided by what has been found.
LEMMA FindToggleInv == TogglesInv /\ FindToggle => TogglesInv'
<1> SUFFICES ASSUME TogglesInv, FindToggle PROVE TogglesInv'
  OBVIOUS
<1> DEFINE level == Head(check.todo)
           hits == ToggleFound(level, EntityAt(level))
           left == Tail(check.todo)
<1>1. /\ Looking
      /\ level = "System" => check.pc = "findAny" \/ check.entity # Undefined
      /\ UNCHANGED <<features, toggles, wasOn, wasOff, undisturbed>>
  BY DEF FindToggle, Checks, Looking
<1>2. PICK on :
        /\ \/ hits = {} /\ on = TRUE
           \/ \E t \in hits : on = t.on
        /\ check' = Decided(check, on)
  BY DEF FindToggle
<1>3. Remaining(check, IF Judged THEN wasOn ELSE Level)
  BY <1>1 DEF TogglesInv, CheckOK
<1>4. level \in Level /\ left \in Seq(Level \union {"*"})
  <2>1. check.todo \in {<<"System", "Tenant", "User">>, <<"Tenant", "User">>, <<"User">>,
                        <<"User", "System">>, <<"System">>}
    BY <1>3 DEF Remaining
  <2>2. level \in {"System", "Tenant", "User"}
    <3>1. CASE check.todo = <<"System", "Tenant", "User">>
      BY <3>1, ListHeads
    <3>2. CASE check.todo = <<"Tenant", "User">>
      BY <3>2, ListHeads
    <3>3. CASE check.todo = <<"User">> \/ check.todo = <<"User", "System">>
      BY <3>3, ListHeads
    <3>4. CASE check.todo = <<"System">>
      BY <3>4, ListHeads
    <3> QED BY <2>1, <3>1, <3>2, <3>3, <3>4
  <2>3. check.todo \in Seq(Level \union {"*"})
    BY DEF TogglesInv, CheckOK
  <2>4. check.todo # <<>>
    BY <2>1
  <2> QED BY <2>2, <2>3, <2>4 DEF Level
<1>5. Judged => (on => level \in wasOn) /\ (~on => level \in wasOff)
  <2>1. Judged => (level = "System" => check.entity # Undefined)
    BY <1>1 DEF TogglesInv, CheckOK
  <2>2. Judged => /\ hits = {} \/ (\E t \in hits : t.on) => level \in wasOn
                  /\ (\E t \in hits : ~t.on) => level \in wasOff
    BY <1>1, <1>4, <2>1, FoundWasSo
  <2> QED BY <1>2, <2>2
<1>6. /\ check'.caller = check.caller /\ check'.listed = check.listed
      /\ check'.todo = left /\ check'.entity = Undefined
      /\ check'.pc = IF ~on THEN "refused" ELSE IF Len(check.todo) = 1 THEN "passed" ELSE "find"
      /\ check' \in [pc : {"idle", "find", "findAny", "passed", "refused", "failed"},
                caller : Caller \union {Undefined}, listed : Listings \union {<<>>},
                todo : Seq(Level \union {"*"}), entity : FeatureIds \union {Undefined}]
  BY <1>2, <1>4 DEF Decided, TogglesInv, CheckOK
<1>7. Judged' = Judged /\ Keyed' = Keyed
  BY <1>1, <1>6 DEF Judged, Keyed
<1>8. SeenOK'
  BY <1>1, <1>6, SameTables DEF TogglesInv, SeenOK
<1>9. CheckOK'
  <2>1. Looking' => on /\ Len(check.todo) # 1
    BY <1>6 DEF Looking
  <2>2. Looking' => Remaining(check', IF Judged' THEN wasOn' ELSE Level)
    <3> SUFFICES ASSUME Looking' PROVE Remaining(check', IF Judged THEN wasOn ELSE Level)
      BY <1>1, <1>7
    <3> DEFINE W == IF Judged THEN wasOn ELSE Level
    <3>1. Remaining(check, W) /\ level \in W /\ Len(check.todo) # 1
      BY <1>3, <1>4, <1>5, <2>1
    <3>2. check'.listed = check.listed /\ check'.todo = Tail(check.todo)
      BY <1>6
    <3>3. CASE check.todo = <<"System", "Tenant", "User">>
      <4>1. check.listed = <<"System", "Tenant", "User">>
        BY <3>1, <3>3, ListsDiffer DEF Remaining
      <4>2. check'.todo = <<"Tenant", "User">> /\ "System" \in W
        BY <3>1, <3>2, <3>3, ListHeads, ListTails
      <4> QED BY <3>2, <4>1, <4>2 DEF Remaining
    <3>4. CASE check.todo = <<"Tenant", "User">>
      <4>1. check.listed = <<"System", "Tenant", "User">> /\ "System" \in W
        BY <3>1, <3>4, ListsDiffer DEF Remaining
      <4>2. check'.todo = <<"User">> /\ "Tenant" \in W
        BY <3>1, <3>2, <3>4, ListHeads, ListTails
      <4> QED BY <3>2, <4>1, <4>2 DEF Remaining
    <3>5. CASE check.todo = <<"User", "System">>
      <4>1. check.listed = <<"User", "System">>
        BY <3>1, <3>5, ListsDiffer DEF Remaining
      <4>2. check'.todo = <<"System">> /\ "User" \in W
        BY <3>1, <3>2, <3>5, ListHeads, ListTails
      <4> QED BY <3>2, <4>1, <4>2 DEF Remaining
    <3> QED BY <3>1, <3>3, <3>4, <3>5, ListHeads DEF Remaining
  <2>3. Looking' /\ Judged' => check'.pc = "find" /\ Keyed' # {} /\ check'.entity = Undefined
    BY <1>1, <1>6, <1>7 DEF TogglesInv, CheckOK, Looking
  <2> QED BY <1>6, <2>2, <2>3 DEF CheckOK
<1>10. ChecksEveryLevel'
  <2> SUFFICES ASSUME Judged
               PROVE  /\ check'.pc = "passed" =>
                           \A i \in DOMAIN check.listed : check.listed[i] \in wasOn
                      /\ check'.pc = "refused" =>
                           \E i \in DOMAIN check.listed : check.listed[i] \in wasOff
    BY <1>1, <1>6, <1>7 DEF ChecksEveryLevel, Judged
  <2>1. ASSUME on, Len(check.todo) = 1
        PROVE  \A i \in DOMAIN check.listed : check.listed[i] \in wasOn
    BY <2>1, <1>3, <1>5 DEF Remaining
  <2>2. ASSUME ~on
        PROVE  \E i \in DOMAIN check.listed : check.listed[i] \in wasOff
    <3>1. level \in wasOff
      BY <2>2, <1>5
    <3>2. \E i \in DOMAIN check.listed : check.listed[i] = level
      BY <1>3 DEF Remaining
    <3> QED BY <3>1, <3>2
  <2> QED BY <1>6, <2>1, <2>2
<1> QED BY <1>8, <1>9, <1>10 DEF TogglesInv

LEMMA TogglesNextInv == TogglesInv /\ [TogglesNext]_togglesVars => TogglesInv'
<1> SUFFICES ASSUME TogglesInv, [TogglesNext]_togglesVars PROVE TogglesInv'
  OBVIOUS
<1>1. CASE Endpoint
  BY <1>1, EndpointInv
<1>2. CASE CheckFails
  <2>1. /\ check' = [check EXCEPT !.pc = "failed"]
        /\ UNCHANGED <<features, toggles, wasOn, wasOff, undisturbed>>
    BY <1>2 DEF CheckFails, Checks
  <2>2. CheckOK'
    BY <2>1 DEF TogglesInv, CheckOK, Looking
  <2>3. check'.caller = check.caller /\ check'.pc = "failed"
    BY <2>1 DEF TogglesInv, CheckOK
  <2>4. SeenOK'
    BY <2>1, <2>3, SameTables DEF TogglesInv, SeenOK
  <2> QED BY <2>2, <2>3, <2>4 DEF TogglesInv, ChecksEveryLevel
<1>3. CASE UNCHANGED togglesVars
  <2>1. UNCHANGED <<features, toggles, check, wasOn, wasOff, undisturbed>>
    BY <1>3 DEF togglesVars
  <2>2. SeenOK'
    BY <2>1, SameTables DEF TogglesInv, SeenOK
  <2>3. Keyed' = Keyed /\ Judged' = Judged
    BY <2>1 DEF Keyed, Judged
  <2> QED BY <2>1, <2>2, <2>3 DEF TogglesInv, CheckOK, ChecksEveryLevel, Looking
<1> QED BY <1>1, <1>2, <1>3, StartCheckInv, FindFeatureInv, FindToggleInv
        DEF TogglesNext, UpdateToggles, UpdateToggle, CreateToggle, ReplaceToggle, CreateFeature,
            UpdateFeatures, UpdateFeature, DeleteFeature, DeleteToggle

LEMMA TogglesInvariance == TogglesSpec => []TogglesInv
BY TogglesInitInv, TogglesNextInv, PTL DEF TogglesSpec

\* Whatever is written while a check reads, a request passes only if every level
\* it lists was on at some moment of the check, and is refused only if one was
\* off, for any features, toggles, users and writes.
THEOREM ChecksAreHonest == TogglesSpec => []ChecksEveryLevel
<1>1. TogglesInv => ChecksEveryLevel
  BY DEF TogglesInv
<1> QED BY <1>1, TogglesInvariance, PTL

\* A row of feature_toggles keeps its id, and an insertion finds one that is free.
ToggleRows ==
  UNION {[id : ToggleIds, level : {l}, entity : EntityOf(l), on : BOOLEAN] : l \in Level}
TogglesTypesInv ==
  /\ TogglesInv /\ TogglesTypeOK /\ IsFiniteSet(toggles)

LEMMA FreeToggle ==
  ASSUME IsFiniteSet(toggles), Cardinality(toggles) < MaxToggles
  PROVE  (CHOOSE i \in ToggleIds : \A t \in toggles : t.id # i) \in ToggleIds
<1> DEFINE Ids == {t.id : t \in toggles}
<1>1. IsFiniteSet(Ids) /\ Cardinality(Ids) <= Cardinality(toggles)
  <2> DEFINE f == [t \in toggles |-> t.id]
  <2>1. f \in Surjection(toggles, Ids)
    BY DEF Surjection
  <2> HIDE DEF f, Ids
  <2> QED BY <2>1, FS_Surjection
<1>2. IsFiniteSet(ToggleIds) /\ Cardinality(ToggleIds) = MaxToggles
  BY FS_Interval, TogglesAssumption DEF ToggleIds
<1>3. ~(ToggleIds \subseteq Ids)
  <2> HIDE DEF Ids
  <2> QED BY <1>1, <1>2, FS_Subset, FS_CardinalityType, TogglesAssumption
<1>4. \E i \in ToggleIds : \A t \in toggles : t.id # i
  BY <1>3
<1> QED BY <1>4

\* No endpoint and no step of a check leaves the types.
LEMMA TogglesTypesNext ==
  TogglesTypesInv /\ [TogglesNext]_togglesVars => TogglesTypesInv'
<1> SUFFICES ASSUME TogglesTypesInv, [TogglesNext]_togglesVars PROVE TogglesTypesInv'
  OBVIOUS
<1>1. TogglesInv'
  BY TogglesNextInv DEF TogglesTypesInv
<1>2. /\ features \in [FeatureIds -> {"unused", "keyed", "other", "deleted"}]
      /\ toggles \subseteq ToggleRows /\ IsFiniteSet(toggles)
      /\ writes \in 0 .. MaxWrites
      /\ wasOn \subseteq Level /\ wasOff \subseteq Level /\ undisturbed \in BOOLEAN
  BY DEF TogglesTypesInv, TogglesTypeOK, ToggleRows
<1>3. /\ writes' \in 0 .. MaxWrites
      /\ wasOn' \subseteq Level /\ wasOff' \subseteq Level /\ undisturbed' \in BOOLEAN
  <2>1. CASE Endpoint
    BY <1>2, <2>1, TogglesAssumption DEF Endpoint, OnFor, OffFor
  <2>2. CASE UNCHANGED writes /\ UNCHANGED <<wasOn, wasOff, undisturbed>>
    BY <1>2, <2>2
  <2>3. ASSUME NEW caller, NEW names, StartCheck(caller, names)
        PROVE  /\ UNCHANGED writes /\ undisturbed' = (Keyed # {})
               /\ wasOn' = OnFor(caller) /\ wasOff' = OffFor(caller)
    BY <2>3 DEF StartCheck
  <2>4. CASE \E caller, names : StartCheck(caller, names)
    BY <1>2, <2>3, <2>4 DEF OnFor, OffFor
  <2> QED BY <2>1, <2>2, <2>4
          DEF TogglesNext, togglesVars, UpdateToggles, UpdateToggle, CreateToggle, ReplaceToggle,
              CreateFeature, UpdateFeatures, UpdateFeature, DeleteFeature, DeleteToggle,
              FindFeature, FindToggle, CheckFails, Checks
<1>4. features' \in [FeatureIds -> {"unused", "keyed", "other", "deleted"}]
  BY <1>2 DEF TogglesNext, togglesVars, UpdateToggles, UpdateToggle, CreateToggle, ReplaceToggle,
              CreateFeature, UpdateFeatures, UpdateFeature, DeleteFeature, DeleteToggle,
              FindFeature, FindToggle, CheckFails, Checks, StartCheck, FeatureRows
<1>5. toggles' \subseteq ToggleRows /\ IsFiniteSet(toggles')
  <2>1. \A t \in toggles, b \in BOOLEAN : [t EXCEPT !.on = b] \in ToggleRows
    BY <1>2 DEF ToggleRows
  <2>2. \A id \in ToggleIds, l \in Level, b \in BOOLEAN : \A e \in EntityOf(l) :
          [id |-> id, level |-> l, entity |-> e, on |-> b] \in ToggleRows
    BY DEF ToggleRows
  <2>3. ASSUME NEW b \in BOOLEAN, NEW rows \in SUBSET toggles, UpdateToggles(rows, b)
        PROVE  toggles' \subseteq ToggleRows /\ IsFiniteSet(toggles')
    <3>1. toggles' = (toggles \ rows) \union {[t EXCEPT !.on = b] : t \in rows}
      BY <2>3 DEF UpdateToggles
    <3>2. IsFiniteSet(rows) /\ IsFiniteSet(toggles \ rows)
      BY <1>2, FS_Subset, FS_Difference
    <3>3. IsFiniteSet({[t EXCEPT !.on = b] : t \in rows})
      <4> DEFINE S == {[t EXCEPT !.on = b] : t \in rows}
                 f == [t \in rows |-> [t EXCEPT !.on = b]]
      <4>1. f \in Surjection(rows, S)
        BY DEF Surjection
      <4> HIDE DEF f, S
      <4> QED BY <3>2, <4>1, FS_Surjection DEF S
    <3> QED BY <1>2, <2>1, <3>1, <3>2, <3>3, FS_Union
  <2>4. ASSUME NEW b \in BOOLEAN, NEW t \in toggles, UpdateToggle(t, b)
        PROVE  toggles' \subseteq ToggleRows /\ IsFiniteSet(toggles')
    <3>1. toggles' = (toggles \ {t}) \union {[t EXCEPT !.on = b]}
      BY <2>4 DEF UpdateToggle
    <3> QED BY <1>2, <2>1, <3>1, FS_Difference, FS_AddElement
  <2>5. ASSUME NEW b \in BOOLEAN, NEW l \in Level, NEW e \in EntityOf(l), CreateToggle(l, e, b)
        PROVE  toggles' \subseteq ToggleRows /\ IsFiniteSet(toggles')
    <3> DEFINE id == CHOOSE i \in ToggleIds : \A t \in toggles : t.id # i
    <3>1. /\ toggles' = toggles \union {[id |-> id, level |-> l, entity |-> e, on |-> b]}
          /\ Cardinality(toggles) < MaxToggles
      BY <2>5 DEF CreateToggle
    <3>2. id \in ToggleIds
      BY <1>2, <3>1, FreeToggle
    <3> HIDE DEF id
    <3> QED BY <1>2, <2>2, <3>1, <3>2, FS_AddElement
  <2>6. ASSUME NEW b \in BOOLEAN, NEW l \in Level, NEW e \in EntityOf(l), NEW t \in toggles,
               ReplaceToggle(t, l, e, b)
        PROVE  toggles' \subseteq ToggleRows /\ IsFiniteSet(toggles')
    <3> DEFINE new == [id |-> t.id, level |-> l, entity |-> e, on |-> b]
    <3>1. toggles' = (toggles \ {t}) \union {new}
      BY <2>6 DEF ReplaceToggle
    <3>2. t.id \in ToggleIds
      BY <1>2 DEF ToggleRows
    <3>3. new \in ToggleRows
      BY <2>2, <3>2
    <3> HIDE DEF new
    <3> QED BY <1>2, <3>1, <3>3, FS_Difference, FS_AddElement
  <2>7. ASSUME NEW t \in toggles, DeleteToggle(t)
        PROVE  toggles' \subseteq ToggleRows /\ IsFiniteSet(toggles')
    BY <1>2, <2>7, FS_Difference DEF DeleteToggle
  <2>8. CASE UNCHANGED toggles
    BY <1>2, <2>8
  <2> QED BY <2>3, <2>4, <2>5, <2>6, <2>7, <2>8
          DEF TogglesNext, togglesVars, CreateFeature, UpdateFeatures, UpdateFeature, DeleteFeature,
              FindFeature, FindToggle, CheckFails, Checks, StartCheck
<1>6. CheckOK'
  BY <1>1 DEF TogglesInv
<1> QED BY <1>1, <1>3, <1>4, <1>5, <1>6 DEF TogglesTypesInv, TogglesTypeOK, ToggleRows, CheckOK

\* The features, their toggles and the check that is being decided keep their
\* types: an id for the next toggle is always free while there is room for one.
THEOREM TogglesTypes == TogglesSpec => []TogglesTypeOK
<1>1. TogglesInit => TogglesTypesInv
  <2> SUFFICES ASSUME TogglesInit PROVE TogglesTypesInv
    OBVIOUS
  <2>1. TogglesInv
    BY TogglesInitInv
  <2> QED BY <2>1, FS_EmptySet, TogglesAssumption
          DEF TogglesInit, TogglesTypesInv, TogglesTypeOK, NoCheck
<1>2. TogglesTypesInv => TogglesTypeOK
  BY DEF TogglesTypesInv
<1> QED BY <1>1, <1>2, TogglesTypesNext, PTL DEF TogglesSpec

-----------------------------------------------------------------------------
(* Attendance: the list is the meeting, under orderly hooks.               *)

Events == {"connected", "disconnected", "streamCreated", "streamStopped", "streamGone",
           "recording"}

\* What has been sent is an event of an attendee; a recording finds nobody; a
\* row is that of the attendee whose hook made it.
HooksOK ==
  /\ \A h \in Sent : hook[h] \in [event : Events, attendee : Attendee]
  /\ \A h \in Hooks : stage[h] = "found" => hook[h].event # "recording"
  /\ \A h \in Hooks : known[h] = NotFound \/ known[h].id \in Hooks
  /\ \A i \in Hooks : attendance[i].attendee # "none" =>
       stage[i] = "handled" /\
       hook[i] = [event |-> "connected", attendee |-> attendance[i].attendee]

\* A hook that is being handled is of the last event, and what its handler has
\* found is still so.
OneHookOK ==
  /\ \A g, h \in Handling : g = h
  /\ \A h \in Handling :
       LET a == hook[h].attendee IN
         /\ hook[h].event \in {"disconnected", "streamGone"} <=> joined[a] = 0
         /\ hook[h].event = "connected" => a \notin Active
         /\ hook[h].event = "connected" /\ provider = "twilio" => RowsOf(a) = {}
         /\ hook[h].event \in {"streamCreated", "streamStopped", "recording"} => a \in Active
  /\ \A h \in Hooks : stage[h] = "found" =>
       \/ known[h] = NotFound /\ RowsOf(hook[h].attendee) = {}
       \/ /\ known[h].id \in RowsOf(hook[h].attendee)
          /\ known[h].isDeleted = attendance[known[h].id].isDeleted

\* Everybody but whom that hook is about is on the list just when connected,
\* and has one row.
ListOK ==
  /\ \A a \in Attendee : (\A h \in Handling : hook[h].attendee # a) =>
       (a \in Active <=> joined[a] > 0)
  /\ \A i, j \in Hooks :
       attendance[i].attendee = attendance[j].attendee /\ attendance[i].attendee # "none" => i = j
  /\ \A a \in Attendee : joined[a] + closing[a] <= 1

AttendanceInv ==
  /\ AttendanceTypeOK /\ HooksOK
  /\ orderly => OneHookOK /\ ListOK

LEMMA AttendanceInitInv == AttendanceInit => AttendanceInv
<1> SUFFICES ASSUME AttendanceInit PROVE AttendanceInv
  OBVIOUS
<1> USE AttendanceAssumption DEF AttendanceInit
<1>1. AttendanceTypeOK
  BY DEF AttendanceTypeOK, Hooks, NoHook, NoAttendee, NotFound
<1>2. Sent = {} /\ Handling = {} /\ \A a \in Attendee : RowsOf(a) = {}
  BY DEF Sent, Handling, RowsOf, NoAttendee
<1>3. HooksOK
  BY <1>2 DEF HooksOK, NoAttendee, NotFound
<1>4. OneHookOK /\ ListOK
  BY <1>2 DEF OneHookOK, ListOK, Active, NoAttendee
<1> QED BY <1>1, <1>3, <1>4 DEF AttendanceInv

\* What an event's arrival does to all but the provider's connections.
LEMMA HookArrives ==
  ASSUME AttendanceInv, NEW h \in Hooks, NEW a \in Attendee, NEW what \in Events,
         Hook(h, what, a)
  PROVE  /\ HooksOK'
         /\ stage' \in [Hooks -> {"idle", "sent", "found", "handled", "failed"}]
         /\ DOMAIN hook' = Hooks
         /\ \A g \in Hooks : hook'[g] = IF g = h THEN [event |-> what, attendee |-> a]
                                        ELSE hook[g]
         /\ \A g \in Hooks : stage'[g] = IF g = h THEN "sent" ELSE stage[g]
         /\ UNCHANGED <<provider, orderly, attendance, known, Active>>
         /\ \A b : RowsOf(b)' = RowsOf(b)
         /\ orderly => Handling = {} /\ Handling' = {h}
<1> USE DEF Hook, AttendanceInv
<1>1. \A g \in Hooks : hook'[g] = IF g = h THEN [event |-> what, attendee |-> a] ELSE hook[g]
  BY DEF AttendanceTypeOK
<1>2. \A g \in Hooks : stage'[g] = IF g = h THEN "sent" ELSE stage[g]
  BY DEF AttendanceTypeOK
<1>3. HooksOK'
  BY <1>1, <1>2 DEF HooksOK, Sent, Events
<1>4. \A b : RowsOf(b)' = RowsOf(b)
  BY DEF RowsOf
<1>5. Active' = Active
  BY <1>4 DEF Active
<1>6. orderly => Handling = {} /\ Handling' = {h}
  BY <1>2 DEF Handling
<1> QED BY <1>1, <1>2, <1>3, <1>4, <1>5, <1>6 DEF AttendanceTypeOK

\* The hooks that are not handled when an event arrives are no obstacle: the
\* list is the meeting, but for the attendee of the event.
LEMMA HookKeeps ==
  ASSUME AttendanceInv, AttendanceTypeOK',
         NEW h \in Hooks, NEW a \in Attendee, NEW what \in Events, Hook(h, what, a),
         orderly => /\ \A b \in Attendee \ {a} : joined'[b] = joined[b]
                    /\ \A b \in Attendee : joined'[b] + closing'[b] <= 1
                    /\ what \in {"disconnected", "streamGone"} <=> joined'[a] = 0
                    /\ what = "connected" =>
                         joined[a] = 0 /\ (provider = "twilio" => ~OnceJoined(a))
                    /\ what \in {"streamCreated", "streamStopped", "recording"} =>
                         joined[a] > 0
  PROVE  AttendanceInv'
<1> DEFINE H == {h}
<1>1. /\ HooksOK'
      /\ \A g \in Hooks : hook'[g] = IF g = h THEN [event |-> what, attendee |-> a]
                                     ELSE hook[g]
      /\ \A g \in Hooks : stage'[g] = IF g = h THEN "sent" ELSE stage[g]
      /\ UNCHANGED <<provider, orderly, attendance, known, Active>>
      /\ \A b : RowsOf(b)' = RowsOf(b)
      /\ orderly => Handling = {} /\ Handling' = H
  BY HookArrives
<1>2. ASSUME orderly PROVE OneHookOK' /\ ListOK'
  <2> USE <1>1, <1>2
  <2>1. OneHookOK /\ ListOK
    BY DEF AttendanceInv
  <2>2. \A b \in Attendee : b \in Active <=> joined[b] > 0
    BY <2>1 DEF ListOK
  <2>3. hook'[h].event = what /\ hook'[h].attendee = a
    OBVIOUS
  <2>4. what = "connected" => a \notin Active
    BY <2>2
  <2>5. what = "connected" /\ provider = "twilio" => RowsOf(a) = {}
    BY AttendanceAssumption DEF RowsOf, AttendanceInv, HooksOK, OnceJoined, Sent
  <2>6. what \in {"streamCreated", "streamStopped", "recording"} => a \in Active
    BY <2>2
  <2>7. \A g \in Hooks : stage'[g] # "found"
    BY DEF Handling
  <2>8. OneHookOK'
    BY <2>3, <2>4, <2>5, <2>6, <2>7 DEF OneHookOK
  <2>9. \A b \in Attendee : (\A g \in Handling' : hook'[g].attendee # b) =>
          (b \in Active' <=> joined'[b] > 0)
    BY <2>2, <2>3
  <2> QED BY <2>1, <2>8, <2>9 DEF ListOK
<1> QED BY <1>1, <1>2 DEF AttendanceInv

LEMMA ProviderStepInv ==
  ASSUME AttendanceInv, NEW h \in Hooks, NEW a \in Attendee,
         \/ Connect(h, a) \/ Disconnect(h, a) \/ StreamGone(h, a)
         \/ CloseConnection(h, a) \/ RecordRoom(h, a)
         \/ \E what \in {"streamCreated", "streamStopped"} : StreamEvent(h, a, what)
  PROVE  AttendanceInv'
<1> USE DEF AttendanceInv
<1> DEFINE
      Handler(what) ==
        /\ Hook(h, what, a)
        /\ stage' \in [Hooks -> {"idle", "sent", "found", "handled", "failed"}]
        /\ DOMAIN hook' = Hooks
        /\ UNCHANGED <<provider, orderly, attendance, known>>
<1>0. \A what \in Events : Hook(h, what, a) => Handler(what)
  BY HookArrives
<1>a. joined \in [Attendee -> Nat] /\ closing \in [Attendee -> Nat]
  BY DEF AttendanceTypeOK
<1>b. orderly => joined[a] + closing[a] <= 1
  BY DEF ListOK
<1>1. CASE Connect(h, a)
  <2>1. Handler("connected") /\ joined' = [joined EXCEPT ![a] = @ + 1] /\ closing' = closing
    BY <1>0, <1>1 DEF Connect, Events
  <2>2. AttendanceTypeOK'
    BY <2>1, <1>a DEF AttendanceTypeOK
  <2>3. orderly => joined[a] = 0 /\ closing[a] = 0 /\ (provider = "twilio" => ~OnceJoined(a))
    BY <1>1, <1>a DEF Connect
  <2>4. orderly => \A b \in Attendee : joined'[b] + closing'[b] <= 1
    BY <2>1, <2>3, <1>a DEF ListOK
  <2> QED BY <2>1, <2>2, <2>3, <2>4, <1>a, HookKeeps DEF Events
<1>2. CASE Disconnect(h, a)
  <2>1. /\ Handler("disconnected") /\ joined' = [joined EXCEPT ![a] = @ - 1]
        /\ closing' = closing /\ joined[a] > 0
    BY <1>0, <1>2 DEF Disconnect, Events
  <2>2. AttendanceTypeOK'
    BY <2>1, <1>a DEF AttendanceTypeOK
  <2>3. orderly => joined'[a] = 0
    BY <2>1, <1>a, <1>b
  <2>4. orderly => \A b \in Attendee : joined'[b] + closing'[b] <= 1
    BY <2>1, <1>a DEF ListOK
  <2> QED BY <2>1, <2>2, <2>3, <2>4, <1>a, HookKeeps DEF Events
<1>3. CASE StreamGone(h, a)
  <2>1. /\ Handler("streamGone") /\ joined' = [joined EXCEPT ![a] = @ - 1]
        /\ closing' = [closing EXCEPT ![a] = @ + 1] /\ joined[a] > 0
    BY <1>0, <1>3 DEF StreamGone, Events
  <2>2. AttendanceTypeOK'
    BY <2>1, <1>a DEF AttendanceTypeOK
  <2>3. orderly => joined'[a] = 0
    BY <2>1, <1>a, <1>b
  <2>4. orderly => \A b \in Attendee : joined'[b] + closing'[b] <= 1
    BY <2>1, <1>a DEF ListOK
  <2> QED BY <2>1, <2>2, <2>3, <2>4, <1>a, HookKeeps DEF Events
<1>4. CASE CloseConnection(h, a)
  <2>1. /\ Handler("disconnected") /\ joined' = joined
        /\ closing' = [closing EXCEPT ![a] = @ - 1] /\ closing[a] > 0
    BY <1>0, <1>4 DEF CloseConnection, Events
  <2>2. AttendanceTypeOK'
    BY <2>1, <1>a DEF AttendanceTypeOK
  <2>3. orderly => joined'[a] = 0
    BY <2>1, <1>a, <1>b
  <2>4. orderly => \A b \in Attendee : joined'[b] + closing'[b] <= 1
    BY <2>1, <1>a DEF ListOK
  <2> QED BY <2>1, <2>2, <2>3, <2>4, <1>a, HookKeeps DEF Events
<1>5. CASE RecordRoom(h, a)
  <2>1. Handler("recording") /\ joined' = joined /\ closing' = closing /\ joined[a] > 0
    BY <1>0, <1>5 DEF RecordRoom, Events
  <2>2. AttendanceTypeOK'
    BY <2>1, <1>a DEF AttendanceTypeOK
  <2>3. orderly => \A b \in Attendee : joined'[b] + closing'[b] <= 1
    BY <2>1, <1>a DEF ListOK
  <2> QED BY <2>1, <2>2, <2>3, <1>a, HookKeeps DEF Events
<1>6. ASSUME NEW what \in {"streamCreated", "streamStopped"}, StreamEvent(h, a, what)
      PROVE  AttendanceInv'
  <2>1. Handler(what) /\ joined' = joined /\ closing' = closing /\ joined[a] > 0
    BY <1>0, <1>6 DEF StreamEvent, Events
  <2>2. AttendanceTypeOK'
    BY <2>1, <1>a DEF AttendanceTypeOK
  <2>3. orderly => \A b \in Attendee : joined'[b] + closing'[b] <= 1
    BY <2>1, <1>a DEF ListOK
  <2> QED BY <2>1, <2>2, <2>3, <1>a, HookKeeps DEF Events
<1> QED BY <1>1, <1>2, <1>3, <1>4, <1>5, <1>6

\* A handler's last step: only h's stage and the table change.
LEMMA HandledInv ==
  ASSUME AttendanceInv, NEW h \in Hooks, stage[h] = "found", Handled(h),
         attendance' \in [Hooks -> [attendee : Attendee \union {"none"}, isDeleted : BOOLEAN]],
         \A i \in Hooks \ {h} : attendance'[i].attendee = attendance[i].attendee,
         attendance'[h].attendee = attendance[h].attendee
           \/ /\ hook[h] = [event |-> "connected", attendee |-> attendance'[h].attendee]
              /\ attendance'[h].attendee \in Attendee,
         orderly => /\ \A b \in Attendee \ {hook[h].attendee} : b \in Active' <=> b \in Active
                    /\ hook[h].attendee \in Active' <=> joined[hook[h].attendee] > 0
                    /\ attendance'[h].attendee # attendance[h].attendee =>
                         RowsOf(hook[h].attendee) = {}
  PROVE  AttendanceInv'
<1> USE AttendanceAssumption DEF Handled, AttendanceInv
<1>1. \A g \in Hooks : stage'[g] = IF g = h THEN "handled" ELSE stage[g]
  BY DEF AttendanceTypeOK
<1>2. AttendanceTypeOK'
  BY DEF AttendanceTypeOK
<1>3. HooksOK'
  BY <1>1 DEF HooksOK, Sent
<1>4. ASSUME orderly PROVE OneHookOK' /\ ListOK'
  <2> USE <1>4
  <2>1. OneHookOK /\ ListOK /\ hook[h].attendee \in Attendee
    BY DEF HooksOK, Sent
  <2>2. Handling = {h}
    BY <2>1 DEF OneHookOK, Handling
  <2>3. Handling' = {}
    BY <1>1, <2>2 DEF Handling
  <2>4. OneHookOK'
    BY <2>3 DEF OneHookOK, Handling
  <2>5. \A b \in Attendee : b \in Active' <=> joined'[b] > 0
    BY <2>1, <2>2 DEF ListOK
  <2>6. \A i, j \in Hooks :
          attendance'[i].attendee = attendance'[j].attendee /\ attendance'[i].attendee # "none"
            => i = j
    BY <2>1 DEF ListOK, RowsOf
  <2> QED BY <2>1, <2>4, <2>5, <2>6 DEF ListOK
<1> QED BY <1>2, <1>3, <1>4

\* What an update leaves: the row found, with isDeleted as the event says; when
\* hooks are orderly the attendee is then active just when connected.
LEMMA UpdateWrites ==
  ASSUME AttendanceInv, NEW h \in Hooks, UpdateAttendee(h)
  PROVE  /\ known[h].id \in Hooks /\ DeletedAfter(h) \in BOOLEAN
         /\ attendance' = [attendance EXCEPT ![known[h].id].isDeleted = DeletedAfter(h)]
         /\ \A i \in Hooks :
              /\ attendance'[i].attendee = attendance[i].attendee
              /\ attendance'[i].isDeleted = IF i = known[h].id THEN DeletedAfter(h)
                                            ELSE attendance[i].isDeleted
         /\ orderly => /\ \A b \in Attendee \ {hook[h].attendee} : b \in Active' <=> b \in Active
                       /\ hook[h].attendee \in Active' <=> joined[hook[h].attendee] > 0
<1> USE DEF UpdateAttendee
<1>1. known[h].id \in Hooks
  BY DEF AttendanceInv, HooksOK
<1>2. /\ hook[h] \in [event : Events, attendee : Attendee]
      /\ hook[h].event # "recording"
  BY DEF AttendanceInv, HooksOK, Sent
<1>3. DeletedAfter(h) \in BOOLEAN
  BY <1>1, <1>2 DEF DeletedAfter, Events, AttendanceInv, AttendanceTypeOK
<1> DEFINE D == DeletedAfter(h)
<1>4. attendance' = [attendance EXCEPT ![known[h].id].isDeleted = D]
  BY DEF Updated
<1>5. \A i \in Hooks :
        /\ attendance'[i].attendee = attendance[i].attendee
        /\ attendance'[i].isDeleted = IF i = known[h].id THEN D ELSE attendance[i].isDeleted
  <2> HIDE DEF D
  <2> QED BY <1>1, <1>4 DEF AttendanceInv, AttendanceTypeOK
<1>6. ASSUME orderly
      PROVE  /\ \A b \in Attendee \ {hook[h].attendee} : b \in Active' <=> b \in Active
             /\ hook[h].attendee \in Active' <=> joined[hook[h].attendee] > 0
  <2> DEFINE a == hook[h].attendee
             k == known[h].id
  <2> USE <1>6
  <2>1. OneHookOK /\ ListOK /\ h \in Handling /\ a \in Attendee
    BY <1>2 DEF AttendanceInv, Handling
  <2>2. k \in RowsOf(a) /\ known[h].isDeleted = attendance[k].isDeleted
    BY <2>1 DEF OneHookOK
  <2>3. attendance[k].attendee = a /\ \A i \in RowsOf(a) : i = k
    BY <1>1, <2>1, <2>2, AttendanceAssumption DEF ListOK, RowsOf
  <2>4. \A b : RowsOf(b)' = RowsOf(b)
    BY <1>5 DEF RowsOf
  <2>5. a \in Active' <=> ~D
    <3>1. attendance'[k].isDeleted = D
      BY <1>1, <1>5
    <3>2. a \in Active' <=> \E i \in RowsOf(a) : ~attendance'[i].isDeleted
      BY <2>1, <2>4 DEF Active
    <3>3. (\E i \in RowsOf(a) : ~attendance'[i].isDeleted) <=> ~attendance'[k].isDeleted
      BY <2>2, <2>3
    <3> HIDE DEF D
    <3> QED BY <3>1, <3>2, <3>3
  <2>6. a \in Active <=> ~known[h].isDeleted
    BY <2>1, <2>2, <2>3 DEF Active
  <2>7. D = FALSE \/ D = TRUE
    BY <1>3
  <2>8. ~D <=> joined[a] > 0
    <3>1. /\ hook[h].event \in {"disconnected", "streamGone"} <=> joined[a] = 0
          /\ ~(hook[h].event = "connected" /\ provider = "twilio")
          /\ hook[h].event \in {"streamCreated", "streamStopped", "recording"} => a \in Active
          /\ joined[a] \in Nat /\ provider \in {"vonage", "twilio"}
      BY <2>1, <2>2 DEF OneHookOK, AttendanceInv, AttendanceTypeOK
    <3> HIDE DEF a, k
    <3>2. CASE hook[h].event \in {"disconnected", "streamGone"}
      <4>1. D = TRUE
        BY <3>2 DEF DeletedAfter
      <4> HIDE DEF D
      <4> QED BY <3>1, <3>2, <4>1
    <3>3. CASE hook[h].event \in {"streamCreated", "streamStopped"}
      <4>1. D = known[h].isDeleted
        BY <3>3 DEF DeletedAfter
      <4> HIDE DEF D
      <4> QED BY <3>1, <3>3, <4>1, <2>6
    <3>4. CASE hook[h].event = "connected"
      <4>1. provider = "vonage" /\ D = FALSE
        BY <3>1, <3>4 DEF DeletedAfter
      <4> HIDE DEF D
      <4> QED BY <3>1, <3>4, <4>1
    <3> QED BY <1>2, <3>2, <3>3, <3>4 DEF Events
  <2>9. ASSUME NEW b \in Attendee \ {a}
        PROVE  b \in Active' <=> b \in Active
    <3>1. k \notin RowsOf(b)
      BY <2>3 DEF RowsOf
    <3>2. \A i \in RowsOf(b) : attendance'[i].isDeleted = attendance[i].isDeleted
      BY <1>5, <3>1 DEF RowsOf
    <3> QED BY <2>4, <3>2 DEF Active
  <2> QED BY <2>5, <2>8, <2>9
<1> QED BY <1>1, <1>3, <1>4, <1>5, <1>6

LEMMA CreateWrites ==
  ASSUME AttendanceInv, NEW h \in Hooks, CreateAttendee(h)
  PROVE  /\ hook[h].attendee \in Attendee
         /\ attendance' = [attendance EXCEPT
              ![h] = [attendee |-> hook[h].attendee, isDeleted |-> FALSE]]
         /\ orderly => /\ RowsOf(hook[h].attendee) = {}
                       /\ \A b \in Attendee \ {hook[h].attendee} : b \in Active' <=> b \in Active
                       /\ hook[h].attendee \in Active' /\ joined[hook[h].attendee] > 0
<1> USE DEF CreateAttendee, AttendanceInv
<1>1. /\ hook[h] \in [event : Events, attendee : Attendee]
      /\ attendance[h].attendee = "none"
  BY DEF HooksOK, Sent
<1> DEFINE a == hook[h].attendee
<1>2. \A i \in Hooks : attendance'[i] = IF i = h THEN [attendee |-> a, isDeleted |-> FALSE]
                                       ELSE attendance[i]
  BY DEF AttendanceTypeOK
<1>3. ASSUME orderly PROVE RowsOf(a) = {} /\ joined[a] > 0
  <2>1. OneHookOK /\ h \in Handling /\ joined[a] \in Nat
    BY <1>1, <1>3 DEF Handling, AttendanceTypeOK
  <2>2. joined[a] # 0
    BY <2>1 DEF OneHookOK
  <2>3. known[h].id \notin Hooks
    BY DEF NotFound, Hooks
  <2> QED BY <2>1, <2>2, <2>3 DEF OneHookOK, RowsOf
<1>4. a \in Active'
  BY <1>1, <1>2 DEF Active, RowsOf
<1>5. ASSUME NEW b \in Attendee \ {a}
      PROVE  b \in Active' <=> b \in Active
  <2>1. \A i \in Hooks : i \in RowsOf(b)' <=> i \in RowsOf(b)
    BY <1>1, <1>2, AttendanceAssumption DEF RowsOf
  <2>2. \A i \in RowsOf(b) : attendance'[i] = attendance[i]
    BY <1>1, <1>2, AttendanceAssumption DEF RowsOf
  <2> QED BY <2>1, <2>2 DEF Active, RowsOf
<1> QED BY <1>1, <1>3, <1>4, <1>5

LEMMA HandlerStepInv ==
  ASSUME AttendanceInv, NEW h \in Hooks,
         \/ StoreArchive(h) \/ FindAttendee(h) \/ CreateAttendee(h)
         \/ IgnoreAttendee(h) \/ UpdateAttendee(h)
  PROVE  AttendanceInv'
<1> USE DEF AttendanceInv
<1>1. CASE StoreArchive(h)
  <2> USE <1>1 DEF StoreArchive
  <2>1. \A g \in Hooks : stage'[g] = IF g = h THEN "failed" ELSE stage[g]
    BY DEF AttendanceTypeOK
  <2>2. AttendanceTypeOK'
    BY DEF AttendanceTypeOK
  <2>3. \A b : RowsOf(b)' = RowsOf(b)
    BY DEF RowsOf
  <2>4. Active' = Active
    BY <2>3 DEF Active
  <2>5. HooksOK'
    BY <2>1 DEF HooksOK, Sent
  <2>6. ASSUME orderly PROVE OneHookOK' /\ ListOK'
    <3> USE <2>6
    <3>1. OneHookOK /\ ListOK /\ hook[h].attendee \in Attendee
      BY DEF HooksOK, Sent
    <3>2. Handling = {h}
      BY <3>1 DEF OneHookOK, Handling
    <3>3. Handling' = {}
      BY <2>1, <3>2 DEF Handling
    <3>4. OneHookOK'
      BY <3>3 DEF OneHookOK, Handling
    <3>5. hook[h].attendee \in Active <=> joined[hook[h].attendee] > 0
      BY <3>1, <3>2 DEF OneHookOK, AttendanceTypeOK
    <3> QED BY <3>1, <3>2, <3>4, <3>5, <2>4 DEF ListOK
  <2> QED BY <2>2, <2>5, <2>6
<1>2. CASE FindAttendee(h)
  <2> USE <1>2 DEF FindAttendee
  <2>1. \A g \in Hooks : stage'[g] = IF g = h THEN "found" ELSE stage[g]
    BY DEF AttendanceTypeOK
  <2> DEFINE rows == RowsOf(hook[h].attendee)
             RowAt(i) == [id |-> i, isDeleted |-> attendance[i].isDeleted]
  <2>2. PICK k :
          /\ known' = [known EXCEPT ![h] = k]
          /\ \/ rows = {} /\ k = NotFound
             \/ \E i \in rows : k = RowAt(i)
    OBVIOUS
  <2>3. \A g \in Hooks : known'[g] = IF g = h THEN k ELSE known[g]
    BY <2>2 DEF AttendanceTypeOK
  <2>4. k \in [id : Hooks \union {0}, isDeleted : BOOLEAN] /\ (k = NotFound \/ k.id \in Hooks)
    <3>1. CASE k = NotFound
      BY <3>1 DEF NotFound
    <3>2. CASE \E i \in rows : k = RowAt(i)
      <4>1. PICK i \in Hooks : k = [id |-> i, isDeleted |-> attendance[i].isDeleted]
        BY <3>2 DEF RowsOf
      <4>2. attendance[i].isDeleted \in BOOLEAN
        BY DEF AttendanceTypeOK
      <4> QED BY <4>1, <4>2
    <3> QED BY <2>2, <3>1, <3>2
  <2>5. AttendanceTypeOK'
    BY <2>2, <2>4 DEF AttendanceTypeOK
  <2>6. \A b : RowsOf(b)' = RowsOf(b)
    BY DEF RowsOf
  <2>7. Active' = Active
    BY <2>6 DEF Active
  <2>8. HooksOK'
    BY <2>1, <2>3, <2>4 DEF HooksOK, Sent
  <2>9. ASSUME orderly PROVE OneHookOK' /\ ListOK'
    <3> USE <2>9
    <3>1. OneHookOK /\ ListOK
      OBVIOUS
    <3>2. Handling' = Handling /\ h \in Handling
      BY <2>1 DEF Handling
    <3>3. \A g \in Hooks : stage'[g] = "found" => g = h
      BY <2>1, <3>1, <3>2 DEF OneHookOK, Handling
    <3>4. \/ k = NotFound /\ rows = {}
          \/ k.id \in rows /\ k.isDeleted = attendance[k.id].isDeleted
      BY <2>2
    <3>5. OneHookOK'
      BY <3>1, <3>2, <3>3, <3>4, <2>3, <2>6, <2>7 DEF OneHookOK
    <3> QED BY <3>1, <3>2, <3>5, <2>7 DEF ListOK
  <2> QED BY <2>5, <2>8, <2>9
<1>3. CASE CreateAttendee(h)
  <2>1. Handled(h) /\ stage[h] = "found" /\ hook[h].event = "connected"
    BY <1>3 DEF CreateAttendee
  <2> DEFINE new == [attendee |-> hook[h].attendee, isDeleted |-> FALSE]
  <2>2. /\ attendance' = [attendance EXCEPT ![h] = new]
        /\ hook[h].attendee \in Attendee
        /\ orderly => /\ RowsOf(hook[h].attendee) = {}
                      /\ \A b \in Attendee \ {hook[h].attendee} : b \in Active' <=> b \in Active
                      /\ hook[h].attendee \in Active' /\ joined[hook[h].attendee] > 0
    BY <1>3, CreateWrites
  <2>3. attendance' \in [Hooks -> [attendee : Attendee \union {"none"}, isDeleted : BOOLEAN]]
    BY <2>2 DEF AttendanceTypeOK
  <2>4. \A i \in Hooks : attendance'[i] = IF i = h THEN new ELSE attendance[i]
    BY <2>2 DEF AttendanceTypeOK
  <2>5. hook[h] = [event |-> "connected", attendee |-> hook[h].attendee]
    BY <2>1 DEF HooksOK, Sent
  <2> QED BY <2>1, <2>2, <2>3, <2>4, <2>5, HandledInv
<1>4. CASE IgnoreAttendee(h)
  <2>1. Handled(h) /\ stage[h] = "found" /\ attendance' = attendance
    BY <1>4 DEF IgnoreAttendee
  <2>2. Active' = Active
    BY <2>1 DEF Active, RowsOf
  <2>3. orderly => (hook[h].attendee \in Active <=> joined[hook[h].attendee] > 0)
    <3> SUFFICES ASSUME orderly
                 PROVE  hook[h].attendee \in Active <=> joined[hook[h].attendee] > 0
      OBVIOUS
    <3>1. OneHookOK /\ h \in Handling /\ hook[h] \in [event : Events, attendee : Attendee]
      BY <2>1 DEF HooksOK, Sent, Handling
    <3>2. RowsOf(hook[h].attendee) = {} /\ hook[h].event \notin {"connected", "recording"}
      BY <1>4, <3>1 DEF IgnoreAttendee, OneHookOK, HooksOK, NotFound, Hooks, RowsOf
    <3>3. hook[h].attendee \notin Active
      BY <3>2 DEF Active
    <3>4. joined[hook[h].attendee] = 0
      BY <3>1, <3>2, <3>3 DEF OneHookOK, Events
    <3> QED BY <3>3, <3>4
  <2> QED BY <2>1, <2>2, <2>3, HandledInv DEF AttendanceTypeOK
<1>5. CASE UpdateAttendee(h)
  <2>1. Handled(h) /\ stage[h] = "found"
    BY <1>5 DEF UpdateAttendee
  <2> DEFINE D == DeletedAfter(h)
  <2>2. /\ known[h].id \in Hooks /\ D \in BOOLEAN
        /\ attendance' = [attendance EXCEPT ![known[h].id].isDeleted = D]
        /\ \A i \in Hooks : attendance'[i].attendee = attendance[i].attendee
        /\ orderly => /\ \A b \in Attendee \ {hook[h].attendee} : b \in Active' <=> b \in Active
                      /\ hook[h].attendee \in Active' <=> joined[hook[h].attendee] > 0
    BY <1>5, UpdateWrites
  <2>3. attendance' \in [Hooks -> [attendee : Attendee \union {"none"}, isDeleted : BOOLEAN]]
    <3> HIDE DEF D
    <3> QED BY <2>2 DEF AttendanceTypeOK
  <2> QED BY <2>1, <2>2, <2>3, HandledInv
<1> QED BY <1>1, <1>2, <1>3, <1>4, <1>5

LEMMA AttendanceNextInv == AttendanceInv /\ [AttendanceNext]_attendanceVars => AttendanceInv'
<1> SUFFICES ASSUME AttendanceInv, [AttendanceNext]_attendanceVars
             PROVE  AttendanceInv'
  OBVIOUS
<1>1. CASE UNCHANGED attendanceVars
  BY <1>1 DEF attendanceVars, AttendanceInv, AttendanceTypeOK, HooksOK, OneHookOK, ListOK,
              Sent, Handling, Active, RowsOf
<1>2. CASE AttendanceNext
  BY <1>2, ProviderStepInv, HandlerStepInv DEF AttendanceNext
<1> QED BY <1>1, <1>2

LEMMA AttendanceListed == AttendanceInv => ListIsConnected
<1> SUFFICES ASSUME AttendanceInv, orderly, Handling = {}
             PROVE  /\ Active = {a \in Attendee : joined[a] > 0}
                    /\ \A a \in Attendee : Cardinality(RowsOf(a)) <= 1
  BY DEF ListIsConnected
<1>1. ListOK
  BY DEF AttendanceInv
<1>2. Active = {a \in Attendee : joined[a] > 0}
  BY <1>1 DEF ListOK, Active
<1>3. ASSUME NEW a \in Attendee PROVE Cardinality(RowsOf(a)) <= 1
  <2>1. CASE RowsOf(a) = {}
    BY <2>1, FS_EmptySet
  <2>2. CASE RowsOf(a) # {}
    <3>1. PICK i \in RowsOf(a) : TRUE
      BY <2>2
    <3>2. RowsOf(a) = {i}
      BY <1>1, <3>1, AttendanceAssumption DEF ListOK, RowsOf
    <3> QED BY <3>2, FS_Singleton
  <2> QED BY <2>1, <2>2
<1> QED BY <1>2, <1>3

\* Under orderly hooks a step adds one attendee to the list, takes one off it,
\* or leaves it as it is.
LEMMA AttendanceStepMaps ==
  AttendanceInv /\ [AttendanceNext]_attendanceVars /\ orderly
    => Promise!RosterNext \/ UNCHANGED Active
<1> SUFFICES ASSUME AttendanceInv, [AttendanceNext]_attendanceVars, orderly
             PROVE  Promise!RosterNext \/ UNCHANGED Active
  OBVIOUS
<1>1. CASE UNCHANGED attendance
  BY <1>1 DEF Active, RowsOf
<1>2. ASSUME NEW h \in Hooks, CreateAttendee(h) \/ UpdateAttendee(h)
      PROVE  Promise!RosterNext \/ UNCHANGED Active
  <2> DEFINE a == hook[h].attendee
  <2>1. a \in Attendee
    BY <1>2 DEF CreateAttendee, UpdateAttendee, AttendanceInv, HooksOK, Sent
  <2>2. \A b \in Attendee \ {a} : b \in Active' <=> b \in Active
    BY <1>2, CreateWrites, UpdateWrites
  <2>3. Active \subseteq Attendee /\ Active' \subseteq Attendee
    BY DEF Active
  <2>4. CASE a \in Active' <=> a \in Active
    BY <2>2, <2>3, <2>4
  <2>5. CASE a \in Active' /\ a \notin Active
    <3>1. Active' = Active \union {a}
      BY <2>2, <2>3, <2>5
    <3> QED BY <2>1, <2>5, <3>1 DEF Promise!RosterNext, Promise!Arrive
  <2>6. CASE a \notin Active' /\ a \in Active
    <3>1. Active' = Active \ {a}
      BY <2>2, <2>3, <2>6
    <3> QED BY <2>1, <2>6, <3>1 DEF Promise!RosterNext, Promise!Depart
  <2> QED BY <2>4, <2>5, <2>6
<1> QED BY <1>1, <1>2
    DEF AttendanceNext, attendanceVars, Connect, Disconnect, StreamGone, CloseConnection,
        RecordRoom, StreamEvent, Hook, StoreArchive, FindAttendee, IgnoreAttendee

\* Whatever the order of the hooks, the rows, the hooks and what their handlers
\* have found are of their types.
THEOREM AttendanceTypes == AttendanceSpec => []AttendanceTypeOK
<1>1. AttendanceInv => AttendanceTypeOK
  BY DEF AttendanceInv
<1> QED BY <1>1, AttendanceInitInv, AttendanceNextInv, PTL DEF AttendanceSpec

\* For any number of attendees, events and connections: when hooks arrive in
\* the order of the events and one after the other, the active rows of
\* session_attendees name exactly who is connected, once each, whenever no hook
\* is being handled (checkWebhookPayload).
THEOREM AttendanceIsConnected == AttendanceSpec => []ListIsConnected
<1>1. AttendanceSpec => []AttendanceInv
  BY AttendanceInitInv, AttendanceNextInv, PTL DEF AttendanceSpec
<1> QED BY <1>1, AttendanceListed, PTL

\* Under the same orderly hooks no write of a handler moves two attendees, or
\* moves one onto a list it is already on.
THEOREM AttendanceKeepsRoster == AttendanceSpec => ListKeepsRoster
<1>1. AttendanceSpec => []AttendanceInv
  BY AttendanceInitInv, AttendanceNextInv, PTL DEF AttendanceSpec
<1>2. AttendanceInv /\ [AttendanceNext]_attendanceVars
        => [orderly => UNCHANGED Active \/ Promise!RosterNext]_attendanceVars
  BY AttendanceStepMaps
<1> QED BY <1>1, <1>2, PTL DEF AttendanceSpec, ListKeepsRoster

\* The table, seen through getAttendeesList, implements the roster.
THEOREM AttendanceImplementsRoster == AttendanceSpec /\ orderly => Promise!RosterSpec
<1>1. AttendanceSpec => []AttendanceInv
  BY AttendanceInitInv, AttendanceNextInv, PTL DEF AttendanceSpec
<1>2. AttendanceInit => Promise!RosterInit
  BY AttendanceAssumption DEF AttendanceInit, Promise!RosterInit, Active, RowsOf, NoAttendee
<1>3. orderly /\ [AttendanceNext]_attendanceVars => orderly'
  BY DEF AttendanceNext, attendanceVars, Connect, Disconnect, StreamGone, CloseConnection,
         RecordRoom, StreamEvent, Hook, StoreArchive, FindAttendee, IgnoreAttendee,
         CreateAttendee, UpdateAttendee, Handled
<1>4. AttendanceInv /\ orderly /\ [AttendanceNext]_attendanceVars
        => [Promise!RosterNext]_Active
  BY AttendanceStepMaps
<1> QED BY <1>1, <1>2, <1>3, <1>4, PTL DEF AttendanceSpec, Promise!RosterSpec

-----------------------------------------------------------------------------
(* Search.  A user who waits has at most one search under way, the last one; *)
(* so of the saves at most one is in progress, and what the table has is     *)
(* told by how far it is.                                                    *)

Recording == {"owner", "newOwner", "previous", "same", "old", "save"}

\* Requests are numbered as they are sent; what they are about, by the lane.
Lane == Recording \union {"idle", "query", "listOwner", "list", "done", "failed"}
LookupOK(r) ==
  /\ lane[r] = "idle" => lookup[r] = NoLookup
  /\ lane[r] \in Recording => lookup[r].op = "search" /\ lookup[r].save
  /\ lane[r] = "query" => lookup[r].op = "search"
  /\ lane[r] \in {"listOwner", "list"} => lookup[r].op = "list"
  /\ lookup[r].op = "search" => lookup[r].text \in Text /\ lookup[r].category \in Category

SentOK ==
  /\ lane \in [Lookups -> Lane] /\ lookup \in [Lookups -> Asked \union {NoLookup}]
  /\ DOMAIN mine = Lookups /\ DOMAIN previous = Lookups
  /\ \E n \in 0 .. MaxLookups : \A r \in Lookups : lane[r] # "idle" <=> r <= n
  /\ \A r \in Lookups : LookupOK(r)
  /\ searching => \E r \in UnderWay : lookup[r].op = "search"
  /\ box \in Text \union {NoText} /\ category \in Category
  /\ typed # NoTyping => typed.text \in Text

Last(s) == \A r \in Searches : r <= s
FoundBy(s) == [text |-> lookup[s].text, category |-> lookup[s].category]

BoxOK ==
  /\ typed # NoTyping =>
       /\ UnderWay = {} /\ typed.text = box /\ box # NoText /\ suggestions = NoSuggestions
  /\ \A s \in Searches :
       /\ s \in UnderWay => Last(s)
       /\ Last(s) =>
            /\ s \notin UnderWay /\ suggestions # NoSuggestions => suggestions = FoundBy(s)
            /\ ~onlyOnEnter /\ box # NoText /\ typed = NoTyping =>
                 /\ FoundBy(s) = [text |-> box, category |-> category]
                 /\ lane[s] = "done" => suggestions = FoundBy(s)
                 /\ lane[s] = "failed" => suggestions = NoSuggestions

\* The rows of a list that has, of the requests L that are the latest saves of
\* their texts, all or at least the k latest.
SearchRow == [by : Lookups, owner : Lookups, text : Text, on : Nat]
ListsLatest(Q, L, k, looked) ==
  /\ Q \subseteq SearchRow /\ IsFiniteSet(Q)
  /\ \A q \in Q : q.by \in L /\ q.text = looked[q.by].text
  /\ \A p, q \in Q : /\ p.by = q.by => p = q
                     /\ p.by > q.by <=> p.on > q.on
  /\ \A q \in Q, s \in L : s > q.by => \E p \in Q : p.by = s
  /\ (\A s \in L : \E q \in Q : q.by = s) \/ Cardinality(Q) >= k

Recorded == {r \in Searches : lookup[r].save /\ lane[r] \notin Recording}
LatestOf(S, looked) == {r \in S : \A s \in S : s > r => looked[s].text # looked[r].text}
OtherThan(S, t, looked) == {s \in S : looked[s].text # t}
OfText(Q, t) == {q \in Q : q.text = t}

TableOK ==
  /\ \A o, p \in owners : o = p
  /\ owners \subseteq Lookups
  /\ \A q \in queries : q.owner \in owners
  /\ \A r \in Lookups : lane[r] \in {"previous", "same", "old", "save"} => owners = {mine[r]}
  /\ \A r \in Lookups : lane[r] = "newOwner" => owners = {}
  /\ \A r \in Lookups : lane[r] = "same" => previous[r] = queries
  /\ \A r \in Lookups : lane[r] = "old" =>
       /\ ListsLatest(previous[r], LatestOf(Recorded, lookup), RecentCount, lookup)
       /\ Cardinality(previous[r]) >= RecentCount
       /\ queries = previous[r] \ OfText(previous[r], lookup[r].text)
  /\ \A r \in Lookups : lane[r] = "save" =>
       ListsLatest(queries, OtherThan(LatestOf(Recorded, lookup), lookup[r].text, lookup),
             RecentCount - 1, lookup)
  /\ (\A r \in Lookups : lane[r] \notin {"old", "save"}) =>
       ListsLatest(queries, LatestOf(Recorded, lookup), RecentCount, lookup)

SearchInv == SentOK /\ (patient => BoxOK /\ TableOK)

-----------------------------------------------------------------------------
(* Of finite sets: what Max and Newest give.                                 *)

\* A function into the naturals has a greatest value on a finite set.
LEMMA HasGreatest ==
  ASSUME NEW S, IsFiniteSet(S), S # {}, NEW f \in [S -> Nat]
  PROVE  \E x \in S : \A y \in S : f[y] <= f[x]
<1> DEFINE Above(x) == {y \in S : f[y] > f[x]}
           T == {Cardinality(Above(x)) : x \in S}
<1>1. \A x \in S : IsFiniteSet(Above(x)) /\ Cardinality(Above(x)) \in Nat
  <2> TAKE x \in S
  <2>1. Above(x) \in SUBSET S
    OBVIOUS
  <2> QED BY <2>1, FS_Subset, FS_CardinalityType
<1>2. T \subseteq Nat /\ T # {}
  BY <1>1
<1>3. PICK n \in T : \A m \in T : ~(<<m, n>> \in OpToRel(<, Nat))
  BY <1>2, WFMin, NatLessThanWellFounded
<1>4. PICK x \in S : n = Cardinality(Above(x))
  OBVIOUS
<1>5. ASSUME NEW y \in S, f[y] > f[x] PROVE FALSE
  <2>1. Above(y) \in SUBSET Above(x) /\ y \in Above(x) /\ y \notin Above(y)
    BY <1>5
  <2>2. Cardinality(Above(y)) < Cardinality(Above(x))
    <3>1. Cardinality(Above(y)) <= Cardinality(Above(x)) /\ Above(x) # Above(y)
      BY <1>1, <2>1, FS_Subset
    <3>2. Cardinality(Above(x)) # Cardinality(Above(y))
      BY <1>1, <2>1, <3>1, FS_Subset
    <3>3. Cardinality(Above(x)) \in Nat /\ Cardinality(Above(y)) \in Nat
      BY <1>1
    <3> HIDE DEF Above, T
    <3> QED BY <3>1, <3>2, <3>3
  <2>3. Cardinality(Above(y)) \in T /\ Cardinality(Above(y)) \in Nat /\ n \in Nat
    BY <1>1, <1>2
  <2> HIDE DEF T, Above
  <2> QED BY <1>3, <1>4, <2>2, <2>3 DEF OpToRel
<1> QED BY <1>5

\* The number CreateQuery gives a row is greater than those of the others, and the
\* next after the greatest.
LEMMA NextOn ==
  ASSUME NEW Q, IsFiniteSet(Q), \A q \in Q : q.on \in Nat
  PROVE  LET next == 1 + Max({q.on : q \in Q} \union {0}) IN
           /\ next \in Nat /\ \A q \in Q : q.on < next
           /\ next = 1 \/ \E q \in Q : next = 1 + q.on
<1> DEFINE S == {q.on : q \in Q} \union {0}
<1>1. S \subseteq Nat
  OBVIOUS
<1>2. \E x \in S : \A y \in S : x >= y
  <2>1. CASE Q = {}
    BY <2>1
  <2>2. CASE Q # {}
    <3> DEFINE f == [q \in Q |-> q.on]
    <3>1. f \in [Q -> Nat]
      OBVIOUS
    <3>2. PICK x \in Q : \A y \in Q : f[y] <= f[x]
      <4> HIDE DEF f
      <4> QED BY <2>2, <3>1, HasGreatest
    <3>3. x.on \in S /\ \A y \in S : x.on >= y
      BY <3>2
    <3> QED BY <3>3
  <2> QED BY <2>1, <2>2
<1>3. Max(S) \in S /\ \A y \in S : Max(S) >= y
  <2> HIDE DEF S
  <2> QED BY <1>2 DEF Max
<1>4. \A q \in Q : q.on \in S
  OBVIOUS
<1>5. \A x \in S : x = 0 \/ \E q \in Q : x = q.on
  OBVIOUS
<1> HIDE DEF S
<1>6. /\ 1 + Max(S) \in Nat /\ \A q \in Q : q.on < 1 + Max(S)
      /\ 1 + Max(S) = 1 \/ \E q \in Q : 1 + Max(S) = 1 + q.on
  <2>1. Max(S) \in Nat
    BY <1>1, <1>3
  <2> DEFINE m == Max(S)
  <2>2. /\ m \in Nat /\ \A q \in Q : q.on \in Nat /\ m >= q.on
        /\ m = 0 \/ \E q \in Q : m = q.on
    BY <1>3, <1>4, <1>5, <2>1
  <2> HIDE DEF m
  <2>3. /\ 1 + m \in Nat /\ \A q \in Q : q.on < 1 + m
        /\ 1 + m = 1 \/ \E q \in Q : 1 + m = 1 + q.on
    BY <2>2
  <2> QED BY <2>3 DEF m
<1> QED BY <1>6 DEF S

\* What Newest leaves out is older than what it has, and it has RecentCount rows.
LEMMA NewestRows ==
  ASSUME NEW Q, IsFiniteSet(Q), \A q \in Q : q.on \in Nat
  PROVE  /\ Newest(Q) \subseteq Q
         /\ \A q \in Newest(Q), p \in Q : p.on > q.on => p \in Newest(Q)
         /\ Newest(Q) = Q \/ Cardinality(Newest(Q)) >= RecentCount
<1> DEFINE Above(q) == {p \in Q : p.on > q.on}
<1>0. RecentCount \in Nat
  BY SearchAssumption
<1>1. \A q \in Q : IsFiniteSet(Above(q)) /\ Cardinality(Above(q)) \in Nat
  <2> TAKE q \in Q
  <2>1. Above(q) \in SUBSET Q
    OBVIOUS
  <2> QED BY <2>1, FS_Subset, FS_CardinalityType
<1>2. \A q \in Q : q \in Newest(Q) <=> Cardinality(Above(q)) < RecentCount
  BY DEF Newest
<1>3. Newest(Q) \subseteq Q
  BY DEF Newest
<1>4. ASSUME NEW q \in Newest(Q), NEW p \in Q, p.on > q.on PROVE p \in Newest(Q)
  <2>1. q \in Q
    BY <1>3
  <2>2. Above(p) \in SUBSET Above(q)
    BY <1>4, <2>1
  <2>3. Cardinality(Above(p)) <= Cardinality(Above(q))
    BY <1>1, <2>1, <2>2, FS_Subset
  <2> HIDE DEF Above
  <2> QED BY <1>0, <1>1, <1>2, <2>1, <2>3
<1>5. ASSUME Newest(Q) # Q PROVE Cardinality(Newest(Q)) >= RecentCount
  <2> DEFINE D == Q \ Newest(Q)
             f == [q \in D |-> q.on]
  <2>1. IsFiniteSet(D) /\ D # {}
    BY <1>3, <1>5, FS_Difference
  <2>2. f \in [D -> Nat]
    OBVIOUS
  <2>3. PICK q \in D : \A p \in D : f[p] <= f[q]
    <3> HIDE DEF D, f
    <3> QED BY <2>1, <2>2, HasGreatest
  <2>4. \A p \in D : p.on <= q.on
    BY <2>3
  <2>5. Above(q) \in SUBSET Newest(Q)
    BY <2>4
  <2>6. IsFiniteSet(Newest(Q)) /\ Cardinality(Newest(Q)) \in Nat
    BY <1>3, FS_Subset, FS_CardinalityType
  <2>7. Cardinality(Above(q)) <= Cardinality(Newest(Q))
    BY <2>5, <2>6, FS_Subset
  <2>8. ~(Cardinality(Above(q)) < RecentCount)
    BY <1>2, <2>3
  <2> HIDE DEF Above, f
  <2> QED BY <1>0, <1>1, <2>6, <2>7, <2>8
<1> QED BY <1>3, <1>4, <1>5

-----------------------------------------------------------------------------
(* Of lists: what the statements of RecentSearchRepository.create make of    *)
(* them.                                                                     *)

\* The rows shown are those of the latest requests.
LEMMA ShowsLatest ==
  ASSUME NEW L \in SUBSET Lookups, NEW looked, NEW Q, ListsLatest(Q, L, RecentCount, looked)
  PROVE  {q.by : q \in Newest(Q)} = {r \in L : Cardinality({s \in L : s > r}) < RecentCount}
<1>0. IsFiniteSet(Q) /\ RecentCount \in Nat /\ Lookups \subseteq Nat
  BY SearchAssumption DEF ListsLatest, Lookups
<1>1. \A r \in L : IsFiniteSet({s \in L : s > r}) /\ Cardinality({s \in L : s > r}) \in Nat
  <2> TAKE r \in L
  <2>1. IsFiniteSet(Lookups)
    BY SearchAssumption, FS_Interval DEF Lookups
  <2>2. {s \in L : s > r} \in SUBSET Lookups
    OBVIOUS
  <2> QED BY <2>1, <2>2, FS_Subset, FS_CardinalityType
<1>2. ASSUME NEW q \in Q
      PROVE  Cardinality({p \in Q : p.on > q.on}) = Cardinality({s \in L : s > q.by})
  <2> DEFINE A == {p \in Q : p.on > q.on}
             B == {s \in L : s > q.by}
             f == [p \in A |-> p.by]
  <2>1. f \in Bijection(A, B)
    <3>1. f \in [A -> B]
      BY DEF ListsLatest
    <3>2. \A x, y \in A : f[x] = f[y] => x = y
      BY DEF ListsLatest
    <3>3. \A s \in B : \E x \in A : f[x] = s
      <4> TAKE s \in B
      <4>1. PICK p \in Q : p.by = s
        BY DEF ListsLatest
      <4>2. p.on > q.on
        BY <4>1 DEF ListsLatest
      <4> QED BY <4>1, <4>2
    <3> HIDE DEF A, B, f
    <3> QED BY <3>1, <3>2, <3>3 DEF Bijection, Injection, Surjection, IsInjective
  <2>2. IsFiniteSet(A)
    BY <1>0, FS_Subset
  <2> HIDE DEF A, B, f
  <2>3. Cardinality(B) = Cardinality(A)
    BY <2>1, <2>2, FS_Bijection DEF ExistsBijection
  <2> QED BY <2>3 DEF A, B
<1>3. ASSUME NEW r \in L, \A q \in Q : q.by # r
      PROVE  ~(Cardinality({s \in L : s > r}) < RecentCount)
  <2> DEFINE B == {s \in L : s > r}
             f == [q \in Q |-> q.by]
  <2>1. Cardinality(Q) >= RecentCount
    BY <1>3 DEF ListsLatest
  <2>2. f \in Injection(Q, B)
    <3>1. f \in [Q -> B]
      <4>1. ASSUME NEW q \in Q PROVE q.by \in L /\ q.by > r
        <5>1. q.by \in L /\ ~(r > q.by) /\ r # q.by
          BY <1>3 DEF ListsLatest
        <5>2. q.by \in Nat /\ r \in Nat
          BY <1>0, <5>1
        <5> QED BY <5>1, <5>2
      <4> QED BY <4>1
    <3>2. \A x, y \in Q : f[x] = f[y] => x = y
      BY DEF ListsLatest
    <3> HIDE DEF B, f
    <3> QED BY <3>1, <3>2 DEF Injection, IsInjective
  <2>3. Cardinality(Q) <= Cardinality(B)
    <3>1. IsFiniteSet(B)
      BY <1>1
    <3> HIDE DEF B, f
    <3> QED BY <2>2, <3>1, FS_Injection
  <2>4. Cardinality(B) \in Nat /\ Cardinality(Q) \in Nat
    BY <1>0, <1>1, FS_CardinalityType
  <2> QED BY <1>0, <2>1, <2>3, <2>4
<1>4. \A q \in Q : q.by \in L
  BY DEF ListsLatest
<1>5. \A q \in Q : q \in Newest(Q) <=> Cardinality({s \in L : s > q.by}) < RecentCount
  BY <1>2 DEF Newest
<1>6. Newest(Q) \subseteq Q
  BY DEF Newest
<1>7. ASSUME NEW r
      PROVE  (\E q \in Newest(Q) : r = q.by)
               <=> r \in L /\ Cardinality({s \in L : s > r}) < RecentCount
  <2>1. CASE \E q \in Q : q.by = r
    <3>1. PICK q \in Q : q.by = r
      BY <2>1
    <3>2. \A p \in Q : p.by = r => p = q
      BY <3>1 DEF ListsLatest
    <3> QED BY <1>4, <1>5, <1>6, <3>1, <3>2
  <2>2. CASE ~\E q \in Q : q.by = r
    BY <1>3, <1>6, <2>2
  <2> QED BY <2>1, <2>2
<1> QED BY <1>7

\* Deleting the rows of a text leaves the others, at most one fewer.
LEMMA WithoutText ==
  ASSUME NEW L \in SUBSET Lookups, NEW looked, NEW Q, NEW k \in Nat, NEW t,
         ListsLatest(Q, L, k, looked), k > 0,
         \A r, s \in L : looked[r].text = looked[s].text => r = s
  PROVE  ListsLatest(Q \ OfText(Q, t), OtherThan(L, t, looked), k - 1, looked)
<1> DEFINE P == Q \ OfText(Q, t)
<1>1. P = {q \in Q : q.text # t}
  BY DEF OfText
<1>2. P \in SUBSET Q /\ IsFiniteSet(P) /\ IsFiniteSet(Q)
  BY <1>1, FS_Subset DEF ListsLatest
<1>3. \A q \in P : q.by \in OtherThan(L, t, looked) /\ q.text = looked[q.by].text
  BY <1>1 DEF ListsLatest, OtherThan
<1>4. \A q \in P, s \in OtherThan(L, t, looked) : s > q.by => \E p \in P : p.by = s
  BY <1>1 DEF ListsLatest, OtherThan
<1>5. (\A s \in OtherThan(L, t, looked) : \E q \in P : q.by = s) \/ Cardinality(P) >= k - 1
  <2>1. CASE \A s \in L : \E q \in Q : q.by = s
    BY <1>1, <2>1 DEF ListsLatest, OtherThan
  <2>2. CASE Cardinality(Q) >= k
    <3>1. CASE OfText(Q, t) = {}
      <4>1. P = Q /\ Cardinality(Q) \in Nat
        BY <1>2, <3>1, FS_CardinalityType
      <4> HIDE DEF P
      <4> QED BY <2>2, <4>1
    <3>2. CASE OfText(Q, t) # {}
      <4>1. PICK x \in Q : x.text = t
        BY <3>2 DEF OfText
      <4>2. \A q \in Q : q.text = t => q = x
        BY <4>1 DEF ListsLatest
      <4>3. P = Q \ {x}
        BY <1>1, <4>1, <4>2
      <4>4. Cardinality(P) = Cardinality(Q) - 1
        BY <1>2, <4>1, <4>3, FS_RemoveElement
      <4>5. Cardinality(Q) \in Nat
        BY <1>2, FS_CardinalityType
      <4> HIDE DEF P
      <4> QED BY <2>2, <4>4, <4>5
    <3> QED BY <3>1, <3>2
  <2> QED BY <2>1, <2>2 DEF ListsLatest
<1> HIDE DEF P
<1>6. ListsLatest(P, OtherThan(L, t, looked), k - 1, looked)
  BY <1>2, <1>3, <1>4, <1>5 DEF ListsLatest
<1> QED BY <1>6 DEF P

\* The rows left by the deletion of the old ones still are the latest.
LEMMA NewestListed ==
  ASSUME NEW L \in SUBSET Lookups, NEW looked, NEW Q, ListsLatest(Q, L, RecentCount, looked)
  PROVE  ListsLatest(Newest(Q), L, RecentCount, looked)
<1>1. IsFiniteSet(Q) /\ \A q \in Q : q.on \in Nat
  BY DEF ListsLatest, SearchRow
<1>2. /\ Newest(Q) \subseteq Q
      /\ \A q \in Newest(Q), p \in Q : p.on > q.on => p \in Newest(Q)
      /\ Newest(Q) = Q \/ Cardinality(Newest(Q)) >= RecentCount
  BY <1>1, NewestRows
<1>3. IsFiniteSet(Newest(Q))
  BY <1>1, <1>2, FS_Subset
<1>4. ASSUME NEW q \in Newest(Q), NEW s \in L, s > q.by PROVE \E p \in Newest(Q) : p.by = s
  <2>1. PICK p \in Q : p.by = s
    BY <1>2, <1>4 DEF ListsLatest
  <2>2. p.on > q.on
    BY <1>2, <1>4, <2>1 DEF ListsLatest
  <2> QED BY <1>2, <2>1, <2>2
<1>5. CASE Newest(Q) = Q
  BY <1>5
<1>6. CASE Cardinality(Newest(Q)) >= RecentCount
  BY <1>2, <1>3, <1>4, <1>6 DEF ListsLatest
<1> QED BY <1>2, <1>5, <1>6

\* The row of the latest request of all makes the list one longer.
LEMMA WithNewRow ==
  ASSUME NEW M \in SUBSET Lookups, NEW looked, NEW Q, NEW k \in Nat, NEW x \in SearchRow,
         ListsLatest(Q, M, k, looked), \A s \in M : s < x.by, x.text = looked[x.by].text,
         \A q \in Q : q.on < x.on
  PROVE  ListsLatest(Q \union {x}, M \union {x.by}, k + 1, looked)
<1> DEFINE P == Q \union {x}
           N == M \union {x.by}
<1>0. Lookups \subseteq Nat /\ x.by \in Lookups /\ x.on \in Nat /\ \A q \in Q : q \in SearchRow
  BY SearchAssumption DEF Lookups, SearchRow, ListsLatest
<1>1. P \subseteq SearchRow /\ IsFiniteSet(P) /\ IsFiniteSet(Q)
  BY <1>0, FS_AddElement DEF ListsLatest
<1>2. \A q \in P : q.by \in N /\ q.text = looked[q.by].text
  BY DEF ListsLatest
<1>3. \A q \in Q : /\ q.by \in M /\ q.by < x.by /\ q.on < x.on
                   /\ q.by \in Nat /\ q.on \in Nat /\ q # x
  <2> TAKE q \in Q
  <2>1. q.by \in M /\ q \in SearchRow
    BY <1>0 DEF ListsLatest
  <2>2. q.by \in Nat /\ q.on \in Nat /\ x.by \in Nat
    BY <1>0, <2>1 DEF SearchRow
  <2>3. q.by < x.by /\ q.on < x.on
    BY <2>1
  <2>4. q.by # x.by
    BY <2>2, <2>3
  <2> QED BY <2>1, <2>2, <2>3, <2>4
<1>4. ASSUME NEW p \in P, NEW q \in P
      PROVE  (p.by = q.by => p = q) /\ (p.by > q.by <=> p.on > q.on)
  <2>0. x.by \in Nat /\ x.on \in Nat
    BY <1>0
  <2>1. CASE p \in Q /\ q \in Q
    BY <2>1 DEF ListsLatest
  <2>2. CASE p = x /\ q = x
    BY <2>0, <2>2
  <2>3. CASE p = x /\ q \in Q
    BY <1>3, <2>0, <2>3
  <2>4. CASE p \in Q /\ q = x
    BY <1>3, <2>0, <2>4
  <2> QED BY <2>1, <2>2, <2>3, <2>4
<1>5. \A q \in P, s \in N : s > q.by => \E p \in P : p.by = s
  <2> TAKE q \in P, s \in N
  <2> HAVE s > q.by
  <2>1. CASE s = x.by
    BY <2>1
  <2>2. CASE s \in M
    <3>1. s < x.by /\ s \in Nat /\ x.by \in Nat
      BY <1>0, <2>2
    <3>2. q # x
      BY <3>1
    <3> QED BY <2>2, <3>2 DEF ListsLatest
  <2> QED BY <2>1, <2>2
<1>6. (\A s \in N : \E q \in P : q.by = s) \/ Cardinality(P) >= k + 1
  <2>1. CASE \A s \in M : \E q \in Q : q.by = s
    BY <2>1
  <2>2. CASE Cardinality(Q) >= k
    <3>1. Cardinality(P) = Cardinality(Q) + 1
      BY <1>1, <1>3, FS_AddElement
    <3>2. Cardinality(Q) \in Nat
      BY <1>1, FS_CardinalityType
    <3> HIDE DEF P
    <3> QED BY <2>2, <3>1, <3>2
  <2> QED BY <2>1, <2>2 DEF ListsLatest
<1> HIDE DEF P, N
<1>7. ListsLatest(P, N, k + 1, looked)
  BY <1>1, <1>2, <1>4, <1>5, <1>6 DEF ListsLatest
<1> QED BY <1>7 DEF P, N

\* Of the last saves, those of a text the new request does not search for stay
\* the last, and it joins them.
LEMMA LatestWith ==
  ASSUME NEW S \in SUBSET Lookups, NEW r \in Lookups, NEW looked, \A s \in S : s < r
  PROVE  /\ LatestOf(S \union {r}, looked)
              = OtherThan(LatestOf(S, looked), looked[r].text, looked) \union {r}
         /\ \A p, q \in LatestOf(S, looked) : looked[p].text = looked[q].text => p = q
         /\ LatestOf(S, looked) \in SUBSET Lookups
<1>1. Lookups \subseteq Nat
  BY SearchAssumption DEF Lookups
<1>2. \A x : x \in LatestOf(S \union {r}, looked)
           <=> x \in OtherThan(LatestOf(S, looked), looked[r].text, looked) \union {r}
  <2> TAKE x
  <2>1. \A s \in S : s \in Nat /\ r \in Nat /\ s < r
    BY <1>1
  <2>2. CASE x = r
    <3>1. \A s \in S \union {r} : ~(s > r)
      BY <1>1, <2>1
    <3> QED BY <2>2, <3>1 DEF LatestOf
  <2>3. CASE x # r /\ x \in S
    <3>1. r > x
      BY <2>1, <2>3
    <3>2. x \in LatestOf(S \union {r}, looked)
            <=> looked[r].text # looked[x].text /\ x \in LatestOf(S, looked)
      BY <2>3, <3>1 DEF LatestOf
    <3> QED BY <2>3, <3>2 DEF OtherThan
  <2>4. CASE x # r /\ x \notin S
    BY <2>4 DEF LatestOf, OtherThan
  <2> QED BY <2>2, <2>3, <2>4
<1>3. \A p, q \in LatestOf(S, looked) : looked[p].text = looked[q].text => p = q
  BY <1>1 DEF LatestOf
<1> QED BY <1>2, <1>3 DEF LatestOf

-----------------------------------------------------------------------------
(* What the box sends: a search c, or a list, or a search and then a list.   *)

Sends(n, m, c) ==
  /\ n \in Nat /\ m \in Nat /\ n < m /\ m <= MaxLookups
  /\ \A r \in Lookups : lane[r] # "idle" <=> r <= n
  /\ lane' \in [Lookups -> Lane] /\ lookup' \in [Lookups -> Asked \union {NoLookup}]
  /\ \A r \in Lookups : r <= n \/ r > m => lane'[r] = lane[r] /\ lookup'[r] = lookup[r]
  /\ \A r \in Lookups : n < r /\ r <= m =>
       /\ lane'[r] \in {"owner", "query", "listOwner"} /\ LookupOK(r)'
       /\ lookup'[r].op = "search" /\ lookup'[r].save => lane'[r] = "owner"
       /\ lookup'[r].op = "search" => r = n + 1
  /\ n + 1 \in Lookups /\ lookup'[n + 1] = c
  /\ searching' => searching \/ c.op = "search"
  /\ UNCHANGED <<settings, tables, mine, previous, recents>>

Seeks(c) == c \in Asked /\ (c.op = "search" => c.text \in Text /\ c.category \in Category)

\* The requests sent are the first ones, so the new ones come next.
LEMMA NextNumber ==
  ASSUME SentOK
  PROVE  \E n \in 0 .. MaxLookups :
           /\ \A r \in Lookups : lane[r] # "idle" <=> r <= n
           /\ Cardinality({r \in Lookups : lane[r] # "idle"}) = n
<1>0. MaxLookups \in Nat
  BY SearchAssumption
<1>1. PICK n \in 0 .. MaxLookups : \A r \in Lookups : lane[r] # "idle" <=> r <= n
  BY DEF SentOK
<1>2. {r \in Lookups : lane[r] # "idle"} = 1 .. n
  BY <1>0, <1>1 DEF Lookups
<1>3. Cardinality(1 .. n) = n
  BY <1>0, FS_Interval
<1> QED BY <1>1, <1>2, <1>3

LEMMA SendOne ==
  ASSUME SentOK, NEW c, Seeks(c), Send(<<c>>)
  PROVE  \E n, m : Sends(n, m, c)
<1>0. MaxLookups \in Nat /\ MaxRash \in 0 .. MaxLookups
  BY SearchAssumption
<1>1. PICK n \in 0 .. MaxLookups :
        /\ \A r \in Lookups : lane[r] # "idle" <=> r <= n
        /\ Cardinality({r \in Lookups : lane[r] # "idle"}) = n
  BY NextNumber
<1>3. /\ n + 1 \in 1 .. (IF patient THEN MaxLookups ELSE MaxRash)
      /\ lookup' = [r \in Lookups |-> IF r = n + 1 THEN c ELSE lookup[r]]
      /\ lane' = [r \in Lookups |-> IF r # n + 1 THEN lane[r]
                                    ELSE IF c.op = "list" THEN "listOwner"
                                    ELSE IF c.save THEN "owner" ELSE "query"]
      /\ searching' = (searching \/ c.op = "search")
      /\ UNCHANGED <<settings, tables, mine, previous, recents>>
  <2> DEFINE sent == {r \in Lookups : lane[r] # "idle"}
             fresh == {Cardinality(sent) + i : i \in DOMAIN <<c>>}
             looked(r) == <<c>>[r - Cardinality(sent)]
  <2>1. fresh = {n + 1} /\ looked(n + 1) = c
    <3>1. Cardinality(sent) = n /\ n + 1 - n = 1
      BY <1>1
    <3>2. DOMAIN <<c>> = {1} /\ <<c>>[1] = c
      OBVIOUS
    <3> HIDE DEF sent
    <3> QED BY <3>1, <3>2
  <2>2. /\ fresh \subseteq 1 .. (IF patient THEN MaxLookups ELSE MaxRash)
        /\ lookup' = [r \in Lookups |-> IF r \in fresh THEN looked(r) ELSE lookup[r]]
        /\ lane' = [r \in Lookups |-> IF r \notin fresh THEN lane[r]
                                      ELSE IF looked(r).op = "list" THEN "listOwner"
                                      ELSE IF looked(r).save THEN "owner" ELSE "query"]
        /\ searching' = (searching \/ \E r \in fresh : looked(r).op = "search")
        /\ UNCHANGED <<settings, tables, mine, previous, recents>>
    BY DEF Send
  <2> HIDE DEF fresh, looked
  <2> QED BY <2>1, <2>2
<1>4. n + 1 <= MaxLookups /\ n + 1 \in Lookups
  BY <1>0, <1>3 DEF Lookups
<1>5. /\ lane' \in [Lookups -> Lane] /\ lookup' \in [Lookups -> Asked \union {NoLookup}]
  BY <1>3 DEF SentOK, Lane, Recording, Seeks
<1>6. ASSUME NEW r \in Lookups, n < r, r <= n + 1
      PROVE  /\ lane'[r] \in {"owner", "query", "listOwner"} /\ LookupOK(r)' /\ r = n + 1
             /\ lookup'[r].op = "search" /\ lookup'[r].save => lane'[r] = "owner"
  <2>1. r = n + 1
    BY <1>0, <1>6 DEF Lookups
  <2> QED BY <1>3, <1>4, <2>1 DEF LookupOK, Recording, Seeks, Asked
<1>8. \A r \in Lookups : r <= n \/ r > n + 1 => lane'[r] = lane[r] /\ lookup'[r] = lookup[r]
  BY <1>0, <1>3 DEF Lookups
<1> DEFINE m == n + 1
<1>9. /\ n \in Nat /\ m \in Nat /\ n < m /\ m <= MaxLookups
      /\ lookup'[n + 1] = c /\ (searching' => searching \/ c.op = "search")
  <2>1. searching' => searching \/ c.op = "search"
    BY ONLY <1>3, Zenon
  <2>2. lookup'[n + 1] = c
    BY <1>3, <1>4
  <2> QED BY <1>0, <1>4, <2>1, <2>2
<1>10. \A r \in Lookups : r <= n \/ r > m => lane'[r] = lane[r] /\ lookup'[r] = lookup[r]
  BY <1>8
<1>11. \A r \in Lookups : n < r /\ r <= m =>
         /\ lane'[r] \in {"owner", "query", "listOwner"} /\ LookupOK(r)'
         /\ lookup'[r].op = "search" /\ lookup'[r].save => lane'[r] = "owner"
         /\ lookup'[r].op = "search" => r = n + 1
  BY <1>6
<1> HIDE DEF m
<1>12. Sends(n, m, c)
  BY <1>1, <1>3, <1>4, <1>5, <1>9, <1>10, <1>11 DEF Sends
<1> QED BY <1>12

LEMMA SendTwo ==
  ASSUME SentOK, NEW c, Seeks(c), c.op = "search", Send(<<c, ListRecents>>)
  PROVE  \E n, m : Sends(n, m, c)
<1>0. MaxLookups \in Nat /\ MaxRash \in 0 .. MaxLookups
  BY SearchAssumption
<1>1. PICK n \in 0 .. MaxLookups :
        /\ \A r \in Lookups : lane[r] # "idle" <=> r <= n
        /\ Cardinality({r \in Lookups : lane[r] # "idle"}) = n
  BY NextNumber
<1> DEFINE d == ListRecents
<1>a. d.op = "list" /\ d \in Asked
  BY DEF ListRecents, Asked
<1> HIDE DEF d
<1>3. /\ {n + 1, n + 2} \subseteq 1 .. (IF patient THEN MaxLookups ELSE MaxRash)
      /\ lookup' = [r \in Lookups |-> IF r = n + 1 THEN c ELSE IF r = n + 2 THEN d ELSE lookup[r]]
      /\ lane' = [r \in Lookups |-> IF r = n + 1 THEN IF c.save THEN "owner" ELSE "query"
                                    ELSE IF r = n + 2 THEN "listOwner" ELSE lane[r]]
      /\ searching' = TRUE
      /\ UNCHANGED <<settings, tables, mine, previous, recents>>
  <2> DEFINE sent == {r \in Lookups : lane[r] # "idle"}
             fresh == {Cardinality(sent) + i : i \in DOMAIN <<c, d>>}
             looked(r) == <<c, d>>[r - Cardinality(sent)]
  <2>1. fresh = {n + 1, n + 2} /\ looked(n + 1) = c /\ looked(n + 2) = d /\ n + 1 # n + 2
    <3>1. Cardinality(sent) = n /\ n + 1 - n = 1 /\ n + 2 - n = 2 /\ n + 1 # n + 2
      BY <1>1
    <3>2. DOMAIN <<c, d>> = {1, 2} /\ <<c, d>>[1] = c /\ <<c, d>>[2] = d
      OBVIOUS
    <3> HIDE DEF sent
    <3> QED BY <3>1, <3>2
  <2>2. /\ fresh \subseteq 1 .. (IF patient THEN MaxLookups ELSE MaxRash)
        /\ lookup' = [r \in Lookups |-> IF r \in fresh THEN looked(r) ELSE lookup[r]]
        /\ lane' = [r \in Lookups |-> IF r \notin fresh THEN lane[r]
                                      ELSE IF looked(r).op = "list" THEN "listOwner"
                                      ELSE IF looked(r).save THEN "owner" ELSE "query"]
        /\ searching' = (searching \/ \E r \in fresh : looked(r).op = "search")
        /\ UNCHANGED <<settings, tables, mine, previous, recents>>
    BY DEF Send, d
  <2>3. c.op # "list" /\ d.op = "list"
    BY <1>a
  <2> HIDE DEF fresh, looked, d
  <2>4. searching' = TRUE
    BY <2>1, <2>2
  <2>5. lookup' = [r \in Lookups |-> IF r = n + 1 THEN c ELSE IF r = n + 2 THEN d ELSE lookup[r]]
    BY <2>1, <2>2
  <2>6. lane' = [r \in Lookups |-> IF r = n + 1 THEN IF c.save THEN "owner" ELSE "query"
                                   ELSE IF r = n + 2 THEN "listOwner" ELSE lane[r]]
    BY <2>1, <2>2, <2>3
  <2> QED BY <2>1, <2>2, <2>4, <2>5, <2>6
<1>4. n + 2 <= MaxLookups /\ n + 1 \in Lookups /\ n + 2 \in Lookups
  BY <1>0, <1>3 DEF Lookups
<1>5. /\ lane' \in [Lookups -> Lane] /\ lookup' \in [Lookups -> Asked \union {NoLookup}]
  BY <1>3, <1>a DEF SentOK, Lane, Recording, Seeks
<1>6. ASSUME NEW r \in Lookups, n < r, r <= n + 2
      PROVE  /\ lane'[r] \in {"owner", "query", "listOwner"} /\ LookupOK(r)'
             /\ lookup'[r].op = "search" /\ lookup'[r].save => lane'[r] = "owner"
             /\ lookup'[r].op = "search" => r = n + 1
  <2>1. CASE r = n + 1
    BY <1>3, <1>4, <2>1 DEF LookupOK, Recording, Seeks, Asked
  <2>2. CASE r = n + 2
    BY <1>3, <1>4, <1>a, <2>2 DEF LookupOK, Recording
  <2> QED BY <1>0, <1>6, <2>1, <2>2 DEF Lookups
<1>9. \A r \in Lookups : r <= n \/ r > n + 2 => lane'[r] = lane[r] /\ lookup'[r] = lookup[r]
  BY <1>0, <1>3 DEF Lookups
<1>10. Sends(n, n + 2, c)
  BY <1>0, <1>1, <1>3, <1>4, <1>5, <1>6, <1>9 DEF Sends
<1> QED BY <1>10

\* Requests keep their numbers and what they are about, if some are sent.
LEMMA SentSends ==
  ASSUME SentOK, NEW n, NEW m, NEW c, Sends(n, m, c),
         box' \in Text \union {NoText} /\ category' \in Category,
         typed' # NoTyping => typed'.text \in Text
  PROVE  SentOK'
<1>0. Lookups \subseteq Nat
  BY SearchAssumption DEF Lookups
<1>1. DOMAIN mine' = Lookups /\ DOMAIN previous' = Lookups
  BY DEF SentOK, Sends
<1>2. \A r \in Lookups : lane'[r] # "idle" <=> r <= m
  <2> TAKE r \in Lookups
  <2>1. CASE r <= n
    BY <1>0, <2>1 DEF Sends
  <2>2. CASE n < r /\ r <= m
    BY <2>2 DEF Sends
  <2>3. CASE r > m
    BY <1>0, <2>3 DEF Sends
  <2> QED BY <1>0, <2>1, <2>2, <2>3 DEF Sends
<1>3. \A r \in Lookups : LookupOK(r)'
  <2> TAKE r \in Lookups
  <2>1. CASE n < r /\ r <= m
    BY <2>1 DEF Sends
  <2>2. CASE r <= n \/ r > m
    <3>1. lane'[r] = lane[r] /\ lookup'[r] = lookup[r] /\ LookupOK(r)
      BY <2>2 DEF Sends, SentOK
    <3> QED BY <3>1 DEF LookupOK
  <2> QED BY <1>0, <2>1, <2>2 DEF Sends
<1>4. ASSUME searching' PROVE \E r \in UnderWay' : lookup'[r].op = "search"
  <2>1. CASE c.op = "search"
    <3>1. n + 1 \in Lookups /\ lookup'[n + 1].op = "search"
          /\ lane'[n + 1] \in {"owner", "query", "listOwner"}
      BY <2>1 DEF Sends
    <3> QED BY <3>1 DEF UnderWay
  <2>2. CASE searching
    <3>1. PICK r \in UnderWay : lookup[r].op = "search"
      BY <2>2 DEF SentOK
    <3>2. r \in Lookups /\ r <= n
      BY <3>1 DEF Sends, UnderWay
    <3> QED BY <3>1, <3>2 DEF Sends, UnderWay
  <2> QED BY <1>4, <2>1, <2>2 DEF Sends
<1>5. m \in 0 .. MaxLookups
  BY DEF Sends
<1> QED BY <1>1, <1>2, <1>3, <1>4, <1>5 DEF SentOK, Sends

\* What each act of the user sends.
LEMMA ActSends ==
  ASSUME SentOK, UserActs \/ Debounced
  PROVE  /\ box' \in Text \union {NoText} /\ category' \in Category
         /\ typed' # NoTyping => typed'.text \in Text
         /\ SendNothing \/ \E n, m, c : Sends(n, m, c)
<1> USE DEF SentOK
<1>0. Seeks(ListRecents)
  BY DEF Seeks, Asked, ListRecents
<1>a. ASSUME NEW t \in Text, NEW d \in Category, NEW key
      PROVE  Seeks(SearchFor(t, d, key)) /\ SearchFor(t, d, key).op = "search"
  BY DEF Seeks, Asked, SearchFor
<1>1. CASE Erase
  BY <1>0, <1>1, SendOne DEF Erase
<1>2. CASE Enter
  <2>1. box \in Text
    BY <1>2 DEF Enter
  <2> QED BY <1>2, <1>a, <2>1, SendOne DEF Enter
<1>3. CASE Focus
  BY <1>0, <1>3, SendOne DEF Focus
<1>4. CASE \E t \in Text, key \in {"char", "enter"} : Key(t, key)
  BY <1>4 DEF Key
<1>5. ASSUME NEW t \in Text, KeyUnheard(t) \/ Populate(t) \/ PopulateRecent(t)
      PROVE  /\ box' \in Text \union {NoText} /\ category' \in Category
             /\ typed' # NoTyping => typed'.text \in Text
             /\ SendNothing \/ \E n, m, c : Sends(n, m, c)
  <2>1. CASE KeyUnheard(t)
    BY <2>1 DEF KeyUnheard
  <2>2. CASE Populate(t)
    BY <1>a, <2>2, SendOne DEF Populate
  <2>3. CASE PopulateRecent(t)
    BY <1>a, <2>3, SendTwo DEF PopulateRecent
  <2> QED BY <1>5, <2>1, <2>2, <2>3
<1>6. CASE \E d \in Category : SetCategory(d)
  <2>1. PICK d \in Category : SetCategory(d)
    BY <1>6
  <2>2. CASE box = NoText
    BY <2>1, <2>2 DEF SetCategory
  <2>3. CASE box # NoText
    BY <1>a, <2>1, <2>3, SendTwo DEF SetCategory
  <2> QED BY <2>2, <2>3
<1>7. CASE Debounced
  <2>1. typed.text \in Text /\ category \in Category
    BY <1>7 DEF Debounced
  <2> QED BY <1>7, <1>a, <2>1, SendOne DEF Debounced
<1> QED BY <1>1, <1>2, <1>3, <1>4, <1>5, <1>6, <1>7 DEF UserActs

LEMMA ActSent ==
  ASSUME SentOK, UserActs \/ Debounced
  PROVE  SentOK'
<1>1. /\ box' \in Text \union {NoText} /\ category' \in Category
      /\ typed' # NoTyping => typed'.text \in Text
      /\ SendNothing \/ \E n, m, c : Sends(n, m, c)
  BY ActSends
<1>2. CASE \E n, m, c : Sends(n, m, c)
  BY <1>1, <1>2, SentSends
<1>3. CASE SendNothing
  BY <1>1, <1>3 DEF SendNothing, SentOK, LookupOK, UnderWay, tables
<1> QED BY <1>1, <1>2, <1>3

-----------------------------------------------------------------------------
(* A user who waits acts when nothing is under way.                          *)

\* A search sent then is the last and the only one under way.
LEMMA NewSearch ==
  ASSUME SentOK, UnderWay = {}, NEW n, NEW m, NEW c, Sends(n, m, c), c.op = "search",
         NEW s \in Lookups, lookup'[s].op = "search"
  PROVE  /\ s <= n + 1 /\ n + 1 \in Lookups /\ lookup'[n + 1] = c
         /\ lane'[n + 1] \in {"owner", "query"}
         /\ lane'[s] \notin {"idle", "done", "failed"} => s = n + 1
<1>0. Lookups \subseteq Nat
  BY SearchAssumption DEF Lookups
<1>1. n + 1 \in Lookups /\ lookup'[n + 1] = c /\ n \in Nat /\ m \in Nat /\ n < m
  BY DEF Sends
<1>2. lane'[n + 1] \in {"owner", "query"}
  <2>1. lane'[n + 1] \in {"owner", "query", "listOwner"} /\ LookupOK(n + 1)'
    BY <1>1 DEF Sends
  <2> QED BY <1>1, <2>1 DEF LookupOK
<1>3. CASE n < s /\ s <= m
  <2>1. s = n + 1
    BY <1>3 DEF Sends
  <2> QED BY <1>1, <1>2, <2>1
<1>4. CASE s <= n
  BY <1>0, <1>1, <1>2, <1>4 DEF Sends, UnderWay
<1>5. CASE s > m
  <2>1. lookup'[s] = lookup[s] /\ lane[s] = "idle"
    BY <1>0, <1>1, <1>5 DEF Sends
  <2>2. lookup[s].op = "none"
    BY <2>1 DEF SentOK, LookupOK, NoLookup
  <2> QED BY <2>1, <2>2
<1> QED BY <1>0, <1>1, <1>3, <1>4, <1>5

\* Listing the recent searches sends no search.
LEMMA NoNewSearch ==
  ASSUME SentOK, UnderWay = {}, NEW n, NEW m, NEW c, Sends(n, m, c), c.op # "search",
         NEW s \in Lookups, lookup'[s].op = "search" \/ lookup[s].op = "search"
  PROVE  lookup'[s] = lookup[s] /\ lane'[s] = lane[s]
<1>0. Lookups \subseteq Nat
  BY SearchAssumption DEF Lookups
<1>1. n + 1 \in Lookups /\ lookup'[n + 1] = c /\ n \in Nat /\ m \in Nat /\ n < m
  BY DEF Sends
<1>2. CASE n < s /\ s <= m
  <2>1. ~(s <= n)
    BY <1>0, <1>1, <1>2
  <2>2. lane[s] = "idle"
    BY <2>1 DEF Sends
  <2>3. lookup[s].op = "none"
    BY <2>2 DEF SentOK, LookupOK, NoLookup
  <2>4. s = n + 1
    BY <1>2, <2>3 DEF Sends
  <2> QED BY <1>1, <2>3, <2>4
<1>3. CASE s <= n \/ s > m
  BY <1>3 DEF Sends
<1> QED BY <1>0, <1>1, <1>2, <1>3

LEMMA BoxSearched ==
  ASSUME SentOK, UnderWay = {}, NEW n, NEW m, NEW c, Sends(n, m, c), c.op = "search",
         typed' = NoTyping,
         ~onlyOnEnter /\ box' # NoText => c.text = box' /\ c.category = category'
  PROVE  BoxOK'
<1>0. Lookups \subseteq Nat /\ onlyOnEnter' = onlyOnEnter
  BY SearchAssumption DEF Lookups, Sends, settings
<1>1. ASSUME NEW s \in Searches' PROVE s \in UnderWay' => Last(s)'
  <2>1. s \in Lookups /\ lookup'[s].op = "search"
    BY DEF Searches
  <2>2. s \in UnderWay' => s = n + 1
    BY <2>1, NewSearch DEF UnderWay
  <2>3. \A r \in Searches' : r <= n + 1
    BY NewSearch DEF Searches
  <2> QED BY <2>2, <2>3 DEF Last
<1>2. ASSUME NEW s \in Searches', Last(s)'
      PROVE  s = n + 1 /\ lookup'[s] = c /\ lane'[s] \in {"owner", "query"}
  <2>1. s \in Lookups /\ lookup'[s].op = "search"
    BY DEF Searches
  <2>2. /\ s <= n + 1 /\ n + 1 \in Lookups /\ lookup'[n + 1] = c
        /\ lane'[n + 1] \in {"owner", "query"}
    BY <2>1, NewSearch
  <2>3. n + 1 \in Searches'
    BY <2>2 DEF Searches
  <2>4. n + 1 <= s
    BY <1>2, <2>3 DEF Last
  <2>5. s = n + 1
    BY <1>0, <2>1, <2>2, <2>4 DEF Sends
  <2> QED BY <2>2, <2>5
<1>3. ASSUME NEW s \in Searches', Last(s)'
      PROVE  /\ s \in UnderWay' /\ lane'[s] # "done" /\ lane'[s] # "failed"
             /\ FoundBy(s)' = [text |-> c.text, category |-> c.category]
  BY <1>2, <1>3 DEF UnderWay, FoundBy, Searches
<1> QED BY <1>0, <1>1, <1>3 DEF BoxOK

LEMMA BoxListed ==
  ASSUME SentOK, BoxOK, UnderWay = {}, NEW n, NEW m, NEW c, Sends(n, m, c), c.op # "search",
         typed' = NoTyping, typed = NoTyping, category' = category,
         \/ suggestions' = NoSuggestions /\ box' = NoText
         \/ UNCHANGED <<suggestions, box>>
  PROVE  BoxOK'
<1>0. onlyOnEnter' = onlyOnEnter
  BY DEF Sends, settings
<1>1. \A s \in Lookups : lookup'[s].op = "search" \/ lookup[s].op = "search"
        => lookup'[s] = lookup[s] /\ lane'[s] = lane[s]
  BY NoNewSearch
<1>2. Searches' = Searches
  BY <1>1 DEF Searches
<1>3. \A s \in Searches : /\ Last(s)' <=> Last(s)
                          /\ FoundBy(s)' = FoundBy(s)
                          /\ s \notin UnderWay'
                          /\ lane'[s] = lane[s]
  BY <1>1, <1>2 DEF Searches, Last, FoundBy, UnderWay
<1> QED BY <1>0, <1>2, <1>3 DEF BoxOK

\* What the user does keeps the suggestions to the box.
LEMMA ActBox ==
  ASSUME SentOK, BoxOK, patient, UserActs \/ Debounced
  PROVE  BoxOK' /\ UnderWay = {}
<1> USE DEF SentOK
<1>0. ListRecents.op # "search" /\ Seeks(ListRecents)
  BY DEF ListRecents, Seeks, Asked
<1>a. ASSUME NEW t \in Text, NEW d \in Category, NEW key
      PROVE  /\ Seeks(SearchFor(t, d, key)) /\ SearchFor(t, d, key).op = "search"
             /\ SearchFor(t, d, key).text = t /\ SearchFor(t, d, key).category = d
  BY DEF Seeks, Asked, SearchFor
<1>b. NoText \notin Text
  BY SearchAssumption
<1>c. Free => typed = NoTyping /\ UnderWay = {}
  BY DEF Free, Quiet
<1>1. CASE Erase
  <2>1. PICK n, m : Sends(n, m, ListRecents)
    BY <1>0, <1>1, SendOne DEF Erase
  <2> QED BY <1>0, <1>1, <1>c, <2>1, BoxListed DEF Erase
<1>2. CASE Enter
  <2>1. box \in Text /\ onlyOnEnter
    BY <1>2 DEF Enter
  <2>2. PICK n, m : Sends(n, m, SearchFor(box, category, "enter"))
    BY <1>2, <1>a, <2>1, SendOne DEF Enter
  <2> QED BY <1>2, <1>a, <1>c, <2>1, <2>2, BoxSearched DEF Enter
<1>3. CASE Focus
  <2>1. PICK n, m : Sends(n, m, ListRecents)
    BY <1>0, <1>3, SendOne DEF Focus
  <2> QED BY <1>0, <1>3, <1>c, <2>1, BoxListed DEF Focus
<1>4. CASE \E t \in Text, key \in {"char", "enter"} : Key(t, key)
  <2>1. PICK t \in Text, key \in {"char", "enter"} : Key(t, key)
    BY <1>4
  <2>2. /\ typed' = [text |-> t, key |-> key] /\ box' = t /\ suggestions' = NoSuggestions
        /\ UNCHANGED <<lookup, lane>>
    BY <2>1 DEF Key, SendNothing
  <2>3. typed' # NoTyping /\ typed'.text = t
    BY <2>2 DEF NoTyping
  <2>4. UnderWay' = {}
    BY <1>c, <2>1, <2>2 DEF Key, UnderWay
  <2>5. BoxOK'
    BY <1>b, <2>2, <2>3, <2>4 DEF BoxOK
  <2> QED BY <1>c, <2>1, <2>5 DEF Key
<1>5. CASE \E t \in Text : KeyUnheard(t)
  <2>1. PICK t \in Text : KeyUnheard(t)
    BY <1>5
  <2> QED BY <1>c, <2>1 DEF KeyUnheard, SendNothing, BoxOK, UnderWay, Searches, Last, FoundBy,
             settings
<1>6. CASE \E t \in Text : Populate(t)
  <2>1. PICK t \in Text : Populate(t)
    BY <1>6
  <2>2. PICK n, m : Sends(n, m, SearchFor(t, category, "mouse"))
    BY <1>a, <2>1, SendOne DEF Populate
  <2> QED BY <1>a, <1>c, <2>1, <2>2, BoxSearched DEF Populate
<1>7. CASE \E t \in Text : PopulateRecent(t)
  <2>1. PICK t \in Text : PopulateRecent(t)
    BY <1>7
  <2>2. PICK n, m : Sends(n, m, SearchFor(t, category, "mouse"))
    BY <1>a, <2>1, SendTwo DEF PopulateRecent
  <2> QED BY <1>a, <1>c, <2>1, <2>2, BoxSearched DEF PopulateRecent
<1>8. CASE \E d \in Category : SetCategory(d)
  <2>1. PICK d \in Category : SetCategory(d)
    BY <1>8
  <2>2. CASE box = NoText
    BY <1>c, <2>1, <2>2 DEF SetCategory, SendNothing, BoxOK, UnderWay, Searches, Last, FoundBy,
       settings
  <2>3. CASE box # NoText
    <3>1. PICK n, m : Sends(n, m, SearchFor(box, d, "category"))
      BY <1>a, <2>1, <2>3, SendTwo DEF SetCategory
    <3> QED BY <1>a, <1>c, <2>1, <2>3, <3>1, BoxSearched DEF SetCategory
  <2> QED BY <2>2, <2>3
<1>9. CASE Debounced
  <2>1. typed # NoTyping /\ UnderWay = {} /\ typed.text = box /\ typed.text \in Text
        /\ box' = box /\ category' = category /\ typed' = NoTyping
    BY <1>9 DEF Debounced, BoxOK
  <2>2. PICK n, m : Sends(n, m, SearchFor(typed.text, category, typed.key))
    BY <1>9, <1>a, <2>1, SendOne DEF Debounced
  <2> QED BY <1>a, <2>1, <2>2, BoxSearched
<1> QED BY <1>1, <1>2, <1>3, <1>4, <1>5, <1>6, <1>7, <1>8, <1>9 DEF UserActs

\* ListsLatest stay lists of what was saved, as long as that is the same.
LEMMA ListsKept ==
  ASSUME NEW Q, NEW L, NEW k, NEW looked, NEW next, ListsLatest(Q, L, k, looked),
         \A s \in L : next[s] = looked[s]
  PROVE  ListsLatest(Q, L, k, next)
BY DEF ListsLatest

\* What the user does leaves the tables alone, and the list is that of all saves.
LEMMA ActTable ==
  ASSUME SentOK, TableOK, UnderWay = {}, UserActs \/ Debounced
  PROVE  TableOK'
<1>0. Lookups \subseteq Nat
  BY SearchAssumption DEF Lookups
<1>1. UNCHANGED <<tables, mine, previous>>
  BY ActSends DEF SendNothing, Sends
<1>2. \A r \in Lookups :
        lane'[r] \in {"owner", "query", "listOwner"} \/ lane'[r] = lane[r]
  <2>1. CASE SendNothing
    BY <2>1 DEF SendNothing
  <2>2. CASE \E n, m, c : Sends(n, m, c)
    <3>1. PICK n, m, c : Sends(n, m, c)
      BY <2>2
    <3> QED BY <1>0, <3>1 DEF Sends
  <2> QED BY <2>1, <2>2, ActSends
<1>3. \A r \in Lookups : lane'[r] \notin Recording \ {"owner"}
  BY <1>2 DEF UnderWay, Recording
<1>4. Recorded' = Recorded /\ \A r \in Recorded : lookup'[r] = lookup[r]
  <2>1. CASE SendNothing
    BY <2>1 DEF SendNothing, Recorded, Searches
  <2>2. CASE \E n, m, c : Sends(n, m, c)
    <3>1. PICK n, m, c : Sends(n, m, c)
      BY <2>2
    <3>2. ASSUME NEW r \in Lookups, n < r, r <= m PROVE r \notin Recorded' /\ r \notin Recorded
      <4>1. lane[r] = "idle"
        BY <1>0, <3>1, <3>2 DEF Sends
      <4>2. lookup[r].op = "none"
        BY <4>1 DEF SentOK, LookupOK, NoLookup
      <4>3. lookup'[r].op = "search" /\ lookup'[r].save => lane'[r] = "owner"
        BY <3>1, <3>2 DEF Sends
      <4> QED BY <4>2, <4>3 DEF Recorded, Searches, Recording
    <3>3. ASSUME NEW r \in Lookups, r <= n \/ r > m
          PROVE lookup'[r] = lookup[r] /\ (r \in Recorded' <=> r \in Recorded)
      BY <3>1, <3>3 DEF Sends, Recorded, Searches
    <3>4. Recorded \subseteq Lookups /\ Recorded' \subseteq Lookups
      BY DEF Recorded, Searches
    <3>5. n \in Nat /\ m \in Nat
      BY <3>1 DEF Sends
    <3>6. \A r \in Lookups : (n < r /\ r <= m) \/ r <= n \/ r > m
      BY <1>0, <3>5
    <3>7. \A r \in Lookups : r \in Recorded' <=> r \in Recorded
      BY <3>2, <3>3, <3>6
    <3>8. \A r \in Recorded : lookup'[r] = lookup[r]
      BY <3>2, <3>3, <3>4, <3>6
    <3> QED BY <3>4, <3>7, <3>8
  <2> QED BY <2>1, <2>2, ActSends
<1>5. LatestOf(Recorded, lookup)' = LatestOf(Recorded, lookup)
  BY <1>4 DEF LatestOf
<1>6. ListsLatest(queries, LatestOf(Recorded, lookup), RecentCount, lookup)
  BY DEF TableOK, UnderWay
<1>7. ListsLatest(queries, LatestOf(Recorded, lookup), RecentCount, lookup)'
  <2>1. \A s \in LatestOf(Recorded, lookup) : lookup'[s] = lookup[s]
    BY <1>4 DEF LatestOf
  <2>2. ListsLatest(queries, LatestOf(Recorded, lookup), RecentCount, lookup')
    BY <1>6, <2>1, ListsKept
  <2> QED BY <1>1, <1>5, <2>2 DEF tables
<1>8. UNCHANGED <<owners, queries>>
  BY <1>1 DEF tables
<1> QED BY <1>3, <1>7, <1>8 DEF TableOK, Recording

-----------------------------------------------------------------------------
(* The service answers, or fails.                                            *)

NextLane ==
  {<<"owner", "newOwner">>, <<"owner", "previous">>, <<"newOwner", "save">>,
   <<"previous", "same">>, <<"same", "old">>, <<"same", "save">>, <<"old", "save">>,
   <<"save", "query">>, <<"query", "done">>, <<"listOwner", "list">>,
   <<"listOwner", "done">>, <<"list", "done">>}

\* What a step of request r leaves alone, and what the page shows of it.
LEMMA ServeFrame ==
  ASSUME SentOK, NEW r \in Lookups, Serve(r) \/ LookupFails(r)
  PROVE  /\ UNCHANGED <<settings, box, category, typed, lookup>>
         /\ DOMAIN mine' = Lookups /\ DOMAIN previous' = Lookups
         /\ lane[r] \notin {"idle", "done", "failed"}
         /\ lane' = [lane EXCEPT ![r] = lane'[r]]
         /\ \/ <<lane[r], lane'[r]>> \in NextLane
            \/ lane'[r] = "failed" /\ (patient => lane[r] = "query")
         /\ searching' => searching
         /\ lane'[r] \in {"done", "failed"} /\ lookup[r].op = "search" => ~searching'
         /\ lookup[r].op = "search" => suggestions' =
              IF lane'[r] = "done" THEN FoundBy(r)
              ELSE IF lane'[r] = "failed" THEN NoSuggestions ELSE suggestions
         /\ lookup[r].op # "search" => suggestions' = suggestions
<1> USE DEF SentOK, NextLane
<1>0. LookupOK(r) /\ r \in DOMAIN lane
  OBVIOUS
<1>1. CASE FindOwner(r)
  BY <1>0, <1>1 DEF FindOwner, Advance, screen, settings, LookupOK, Recording
<1>2. CASE CreateOwner(r)
  BY <1>0, <1>2 DEF CreateOwner, Advance, screen, settings, LookupOK, Recording
<1>3. CASE FindPrevious(r)
  BY <1>0, <1>3 DEF FindPrevious, Advance, screen, settings, LookupOK, Recording
<1>4. CASE DeleteSame(r)
  BY <1>0, <1>4 DEF DeleteSame, Advance, screen, settings, LookupOK, Recording
<1>5. CASE DeleteOld(r)
  BY <1>0, <1>5 DEF DeleteOld, Advance, screen, settings, LookupOK, Recording
<1>6. CASE CreateQuery(r)
  BY <1>0, <1>6 DEF CreateQuery, Advance, screen, settings, LookupOK, Recording
<1>7. CASE Answered(r)
  BY <1>0, <1>7 DEF Answered, settings, LookupOK, FoundBy
<1>8. CASE FindListOwner(r)
  BY <1>0, <1>8 DEF FindListOwner, settings, LookupOK
<1>9. CASE ShowRecents(r)
  BY <1>0, <1>9 DEF ShowRecents, settings, LookupOK
<1>10. CASE LookupFails(r)
  BY <1>0, <1>10 DEF LookupFails, settings, UnderWay
<1> QED BY <1>1, <1>2, <1>3, <1>4, <1>5, <1>6, <1>7, <1>8, <1>9, <1>10 DEF Serve

LEMMA ServeSent ==
  ASSUME SentOK, NEW r \in Lookups, Serve(r) \/ LookupFails(r)
  PROVE  SentOK'
<1>0. lane \in [Lookups -> Lane] /\ LookupOK(r)
  BY DEF SentOK
<1>1. lane'[r] \in Lane /\ lane'[r] # "idle" /\ LookupOK(r)'
  <2>1. <<lane[r], lane'[r]>> \in NextLane \/ lane'[r] = "failed"
    BY ServeFrame
  <2>2. lane[r] # "idle" /\ lookup' = lookup
    BY ServeFrame
  <2> QED BY <1>0, <2>1, <2>2 DEF NextLane, Lane, LookupOK, Recording
<1>2. lane' = [lane EXCEPT ![r] = lane'[r]]
  BY ServeFrame
<1>3. lane' \in [Lookups -> Lane]
  BY <1>0, <1>1, <1>2
<1>4. \A q \in Lookups : q # r => lane'[q] = lane[q]
  BY <1>0, <1>2
<1>5. \A q \in Lookups : LookupOK(q)'
  <2> TAKE q \in Lookups
  <2>1. LookupOK(q) /\ lookup' = lookup
    BY ServeFrame DEF SentOK
  <2>2. CASE q # r
    BY <1>4, <2>1, <2>2 DEF LookupOK
  <2> QED BY <1>1, <2>2
<1>6. \E n \in 0 .. MaxLookups : \A q \in Lookups : lane'[q] # "idle" <=> q <= n
  <2>1. \A q \in Lookups : lane'[q] # "idle" <=> lane[q] # "idle"
    BY <1>1, <1>4, ServeFrame
  <2> QED BY <2>1 DEF SentOK
<1>7. ASSUME searching' PROVE \E q \in UnderWay' : lookup'[q].op = "search"
  <2>1. searching
    BY <1>7, ServeFrame
  <2>2. PICK q \in UnderWay : lookup[q].op = "search"
    BY <2>1 DEF SentOK
  <2>3. lookup' = lookup /\ q \in Lookups
    BY ServeFrame DEF UnderWay
  <2>4. CASE q # r
    BY <1>4, <2>2, <2>3, <2>4 DEF UnderWay
  <2>5. CASE q = r
    <3>1. lane'[r] \notin {"done", "failed"}
      BY <1>7, <2>2, <2>5, ServeFrame
    <3> QED BY <1>1, <2>2, <2>3, <2>5, <3>1 DEF UnderWay
  <2> QED BY <2>4, <2>5
<1> QED BY <1>3, <1>5, <1>6, <1>7, ServeFrame DEF SentOK

LEMMA ServeBox ==
  ASSUME SentOK, BoxOK, NEW r \in Lookups, Serve(r) \/ LookupFails(r)
  PROVE  BoxOK'
<1>0. r \in UnderWay /\ typed = NoTyping /\ UNCHANGED <<onlyOnEnter, box, category, typed, lookup>>
  BY ServeFrame DEF UnderWay, BoxOK, settings
<1>1. \A q \in Lookups : q # r => lane'[q] = lane[q]
  <2>1. lane' = [lane EXCEPT ![r] = lane'[r]] /\ lane \in [Lookups -> Lane]
    BY ServeFrame DEF SentOK
  <2> QED BY <2>1
<1>2. Searches' = Searches /\ \A s : (Last(s)' <=> Last(s)) /\ FoundBy(s)' = FoundBy(s)
  BY <1>0 DEF Searches, Last, FoundBy
<1>3. \A s \in Searches : s \in UnderWay' => s \in UnderWay
  BY <1>0, <1>1 DEF UnderWay, Searches
<1>4. ASSUME NEW s \in Searches, Last(s)
      PROVE  /\ s \notin UnderWay' /\ suggestions' # NoSuggestions => suggestions' = FoundBy(s)
             /\ ~onlyOnEnter /\ box # NoText =>
                  /\ FoundBy(s) = [text |-> box, category |-> category]
                  /\ lane'[s] = "done" => suggestions' = FoundBy(s)
                  /\ lane'[s] = "failed" => suggestions' = NoSuggestions
  <2>0. s \in Lookups /\ lookup[s].op = "search"
    BY DEF Searches
  <2>1. CASE s = r
    <3>1. lane'[r] # "idle"
      BY ServeFrame DEF NextLane
    <3>2. s \in UnderWay' \/ lane'[s] \in {"done", "failed"}
      BY <2>0, <2>1, <3>1 DEF UnderWay
    <3>3. suggestions' = IF lane'[r] = "done" THEN FoundBy(r)
                         ELSE IF lane'[r] = "failed" THEN NoSuggestions ELSE suggestions
      BY <2>0, <2>1, ServeFrame
    <3>4. ~onlyOnEnter /\ box # NoText => FoundBy(s) = [text |-> box, category |-> category]
      BY <1>0, <1>4 DEF BoxOK
    <3>5. s \notin UnderWay' => lane'[s] \in {"done", "failed"}
      BY <3>2
    <3> QED BY <2>1, <3>3, <3>4, <3>5
  <2>2. CASE s # r
    <3>1. lookup[r].op # "search"
      <4>1. ASSUME lookup[r].op = "search" PROVE FALSE
        <5>1. r \in Searches /\ Last(r)
          BY <1>0, <4>1 DEF Searches, BoxOK
        <5>2. r <= s /\ s <= r
          BY <1>4, <5>1 DEF Last
        <5> QED BY <2>0, <2>2, <5>2, SearchAssumption DEF Lookups
      <4> QED BY <4>1
    <3>2. suggestions' = suggestions /\ lane'[s] = lane[s]
      BY <1>1, <2>0, <2>2, <3>1, ServeFrame
    <3>3. s \in UnderWay' <=> s \in UnderWay
      BY <2>0, <3>2 DEF UnderWay
    <3> QED BY <1>0, <1>4, <3>2, <3>3 DEF BoxOK
  <2> QED BY <2>1, <2>2
<1>5. \A s \in Searches : s \in UnderWay => Last(s)
  BY DEF BoxOK
<1> QED BY <1>0, <1>2, <1>3, <1>4, <1>5 DEF BoxOK

-----------------------------------------------------------------------------
(* What saving a search does to the list, when no other is being saved.      *)

LEMMA OneRecording ==
  ASSUME SentOK, BoxOK, NEW r \in Lookups, Serve(r) \/ LookupFails(r),
         lane[r] \in Recording \union {"query"}, NEW q \in Lookups, q # r
  PROVE  lane[q] \notin Recording /\ lane'[q] = lane[q]
<1>1. lane' = [lane EXCEPT ![r] = lane'[r]] /\ lane \in [Lookups -> Lane]
  BY ServeFrame DEF SentOK
<1>2. ASSUME lane[q] \in Recording PROVE FALSE
  <2>1. LookupOK(q) /\ LookupOK(r)
    BY DEF SentOK
  <2>2. q \in Searches /\ r \in Searches /\ q \in UnderWay /\ r \in UnderWay
    BY <1>2, <2>1 DEF LookupOK, Searches, UnderWay, Recording
  <2>3. q <= r /\ r <= q
    BY <2>2 DEF BoxOK, Last
  <2> QED BY <2>3, SearchAssumption DEF Lookups
<1> QED BY <1>1, <1>2

\* TableOK in the terms of the one request that may be saving.
LEMMA TableOfOne ==
  ASSUME NEW r \in Lookups, \A q \in Lookups : q # r => lane'[q] \notin Recording,
         \A o, p \in owners' : o = p, owners' \subseteq Lookups,
         \A q \in queries' : q.owner \in owners',
         lane'[r] \in {"previous", "same", "old", "save"} => owners' = {mine'[r]},
         lane'[r] = "newOwner" => owners' = {},
         lane'[r] = "same" => previous'[r] = queries',
         lane'[r] = "old" =>
           /\ ListsLatest(previous[r], LatestOf(Recorded, lookup), RecentCount, lookup)'
           /\ Cardinality(previous'[r]) >= RecentCount
           /\ queries' = previous'[r] \ OfText(previous'[r], lookup'[r].text),
         lane'[r] = "save" =>
           ListsLatest(queries, OtherThan(LatestOf(Recorded, lookup), lookup[r].text, lookup),
                 RecentCount - 1, lookup)',
         lane'[r] \notin {"old", "save"} =>
           ListsLatest(queries, LatestOf(Recorded, lookup), RecentCount, lookup)'
  PROVE  TableOK'
BY DEF TableOK, Recording

\* A request of which nothing is left to save leaves the list alone.
LEMMA ServeOther ==
  ASSUME SentOK, TableOK, NEW r \in Lookups, Serve(r) \/ LookupFails(r), patient,
         lane[r] \notin Recording
  PROVE  TableOK'
<1>1. /\ UNCHANGED <<queries, owners, previous, lookup>>
      /\ lane' = [lane EXCEPT ![r] = lane'[r]] /\ lane \in [Lookups -> Lane]
      /\ \A q \in Lookups : q # r => mine'[q] = mine[q]
  <2>1. Answered(r) \/ FindListOwner(r) \/ ShowRecents(r) \/ LookupFails(r)
    BY DEF Serve, FindOwner, CreateOwner, FindPrevious, DeleteSame, DeleteOld, CreateQuery,
       Recording
  <2>2. lane' = [lane EXCEPT ![r] = lane'[r]] /\ lane \in [Lookups -> Lane] /\ UNCHANGED lookup
    BY ServeFrame DEF SentOK
  <2>3. UNCHANGED <<queries, owners, previous>> /\ \A q \in Lookups : q # r => mine'[q] = mine[q]
    BY <2>1 DEF Answered, FindListOwner, ShowRecents, LookupFails, tables, SentOK
  <2> QED BY <2>2, <2>3
<1>2. lane'[r] \notin Recording
  <2>1. <<lane[r], lane'[r]>> \in NextLane \/ lane'[r] = "failed"
    BY ServeFrame
  <2> QED BY <2>1 DEF NextLane, Recording
<1>3. \A q \in Lookups : q # r => lane'[q] = lane[q]
  BY <1>1
<1>4. Recorded' = Recorded
  <2>1. Searches' = Searches /\ Searches \subseteq Lookups
    BY <1>1 DEF Searches
  <2> QED BY <1>1, <1>2, <1>3, <2>1 DEF Recorded
<1>5. LatestOf(Recorded, lookup)' = LatestOf(Recorded, lookup)
  BY <1>1, <1>4 DEF LatestOf
<1>6. ListsLatest(queries, LatestOf(Recorded, lookup), RecentCount, lookup)'
        <=> ListsLatest(queries, LatestOf(Recorded, lookup), RecentCount, lookup)
  BY <1>1, <1>5
<1>7. \A q \in Lookups : lane'[q] \in Recording => q # r /\ lane'[q] = lane[q]
  BY <1>2, <1>3
<1>8. ASSUME NEW q \in Lookups, lane'[q] = "old"
      PROVE /\ ListsLatest(previous[q], LatestOf(Recorded, lookup), RecentCount, lookup)'
            /\ Cardinality(previous'[q]) >= RecentCount
            /\ queries' = previous'[q] \ OfText(previous'[q], lookup'[q].text)
  <2>1. lane[q] = "old"
    BY <1>7, <1>8 DEF Recording
  <2>2. ListsLatest(previous[q], LatestOf(Recorded, lookup), RecentCount, lookup)
    BY <2>1 DEF TableOK
  <2> QED BY <1>1, <1>5, <2>1, <2>2 DEF TableOK
<1>9. ASSUME NEW q \in Lookups, lane'[q] = "save"
      PROVE ListsLatest(queries, OtherThan(LatestOf(Recorded, lookup), lookup[q].text, lookup),
                  RecentCount - 1, lookup)'
  <2>1. lane[q] = "save"
    BY <1>7, <1>9 DEF Recording
  <2>2. ListsLatest(queries, OtherThan(LatestOf(Recorded, lookup), lookup[q].text, lookup),
              RecentCount - 1, lookup)
    BY <2>1 DEF TableOK
  <2> QED BY <1>1, <1>5, <2>2
<1>10. ASSUME \A q \in Lookups : lane'[q] \notin {"old", "save"}
       PROVE  ListsLatest(queries, LatestOf(Recorded, lookup), RecentCount, lookup)'
  <2>1. \A q \in Lookups : lane[q] \notin {"old", "save"}
    BY <1>3, <1>10 DEF Recording
  <2> QED BY <1>6, <2>1 DEF TableOK
<1> QED BY <1>1, <1>7, <1>8, <1>9, <1>10 DEF TableOK, Recording

LEMMA ServeSaving ==
  ASSUME SentOK, BoxOK, TableOK, NEW r \in Lookups, Serve(r), lane[r] \in Recording
  PROVE  TableOK'
<1> DEFINE L == LatestOf(Recorded, lookup)
           t == lookup[r].text
<1>0. /\ lookup' = lookup /\ r \in DOMAIN mine /\ r \in DOMAIN previous
      /\ lookup[r].op = "search" /\ lookup[r].save /\ t \in Text
      /\ r \in Searches /\ r \in UnderWay /\ RecentCount \in Nat /\ RecentCount > 0
  <2>1. LookupOK(r) /\ lookup' = lookup
    BY ServeFrame DEF SentOK
  <2> QED BY <2>1, SearchAssumption DEF SentOK, LookupOK, Searches, UnderWay, Recording
<1>1. \A q \in Lookups : q # r => lane[q] \notin Recording /\ lane'[q] = lane[q]
  BY OneRecording
<1>2. \A s \in Recorded : s < r /\ s \in Lookups
  <2>1. Last(r)
    BY <1>0 DEF BoxOK
  <2>2. \A s \in Recorded : s \in Searches /\ s # r /\ s \in Lookups
    BY DEF Recorded, Searches
  <2>3. \A s \in Recorded : s <= r
    BY <2>1, <2>2 DEF Last
  <2> QED BY <2>2, <2>3, SearchAssumption DEF Lookups
<1>3. /\ L \in SUBSET Lookups
      /\ \A p, q \in L : lookup[p].text = lookup[q].text => p = q
      /\ LatestOf(Recorded \union {r}, lookup) = OtherThan(L, t, lookup) \union {r}
      /\ OtherThan(L, t, lookup) \in SUBSET Lookups
      /\ \A s \in OtherThan(L, t, lookup) : s < r
  <2>1. Recorded \in SUBSET Lookups
    BY <1>2
  <2>2. /\ L \in SUBSET Lookups
        /\ \A p, q \in L : lookup[p].text = lookup[q].text => p = q
        /\ LatestOf(Recorded \union {r}, lookup) = OtherThan(L, t, lookup) \union {r}
    BY <1>2, <2>1, LatestWith
  <2> QED BY <1>2, <2>2 DEF OtherThan, LatestOf
<1>4. lane'[r] \in Recording => L' = L
  <2>1. ASSUME lane'[r] \in Recording PROVE Recorded' = Recorded
    BY <1>0, <1>1, <2>1 DEF Recorded, Searches
  <2> QED BY <1>0, <2>1 DEF LatestOf
<1>5. lane[r] \notin {"old", "save"} => ListsLatest(queries, L, RecentCount, lookup)
  BY <1>1 DEF TableOK, Recording
<1>6. ASSUME NEW o, owners = {o} PROVE QueriesOf(o) = queries
  BY <1>6 DEF QueriesOf, TableOK
<1>w. ASSUME NEW Q, ListsLatest(Q, L, RecentCount, lookup)
      PROVE  ListsLatest(Q \ OfText(Q, t), OtherThan(L, t, lookup), RecentCount - 1, lookup)
  <2> HIDE DEF L, t
  <2> QED BY <1>0, <1>3, <1>w, WithoutText
<1>7. /\ \A o, p \in owners : o = p
      /\ owners \subseteq Lookups /\ \A q \in queries : q.owner \in owners
      /\ lane[r] \in {"previous", "same", "old", "save"} => owners = {mine[r]}
      /\ lane[r] = "newOwner" => owners = {}
      /\ lane[r] = "same" => previous[r] = queries
      /\ lane[r] = "old" =>
           /\ ListsLatest(previous[r], L, RecentCount, lookup)
           /\ Cardinality(previous[r]) >= RecentCount
           /\ queries = previous[r] \ OfText(previous[r], t)
      /\ lane[r] = "save" => ListsLatest(queries, OtherThan(L, t, lookup), RecentCount - 1, lookup)
  BY DEF TableOK
<1>8. r \in DOMAIN lane
  BY DEF SentOK
<1> HIDE DEF L, t
<1>9. /\ LatestOf(Recorded, lookup)' = L'
      /\ OtherThan(LatestOf(Recorded, lookup), lookup[r].text, lookup)' = OtherThan(L, t, lookup)'
      /\ lookup'[r].text = t
  BY <1>0 DEF L, t
<1>10. /\ ListsLatest(queries, LatestOf(Recorded, lookup), RecentCount, lookup)'
            <=> ListsLatest(queries', L', RecentCount, lookup)
       /\ lane'[r] \in Recording =>
            (ListsLatest(queries, OtherThan(LatestOf(Recorded, lookup), lookup[r].text, lookup),
                   RecentCount - 1, lookup)'
              <=> ListsLatest(queries', OtherThan(L, t, lookup), RecentCount - 1, lookup))
       /\ ListsLatest(previous[r], LatestOf(Recorded, lookup), RecentCount, lookup)'
            <=> ListsLatest(previous'[r], L', RecentCount, lookup)
  BY <1>0, <1>4, <1>9 DEF t, L
<1>11. CASE FindOwner(r)
  <2>1. UNCHANGED <<owners, queries>> /\ lane[r] = "owner"
    BY <1>11 DEF FindOwner, tables
  <2>2. CASE owners = {} /\ lane'[r] = "newOwner"
    BY <1>1, <1>4, <1>5, <1>7, <1>10, <2>1, <2>2, TableOfOne DEF Recording
  <2>3. CASE lane'[r] = "previous" /\ mine'[r] \in owners
    <3>1. owners = {mine'[r]}
      BY <1>7, <2>3
    <3> QED BY <1>1, <1>4, <1>5, <1>7, <1>10, <2>1, <2>3, <3>1, TableOfOne DEF Recording
  <2> QED BY <1>0, <1>8, <1>11, <2>2, <2>3 DEF FindOwner, Advance
<1>12. CASE CreateOwner(r)
  <2>1. /\ lane[r] = "newOwner" /\ lane'[r] = "save" /\ mine'[r] = r /\ queries' = queries
        /\ owners' = owners \union {r} /\ owners = {} /\ queries = {}
    BY <1>0, <1>7, <1>8, <1>12 DEF CreateOwner, Advance
  <2>2. ListsLatest(queries, OtherThan(L, t, lookup), RecentCount - 1, lookup)
    BY <1>5, <1>w, <2>1
  <2> QED BY <1>1, <1>7, <1>10, <2>1, <2>2, TableOfOne DEF Recording
<1>13. CASE FindPrevious(r)
  <2>1. /\ lane[r] = "previous" /\ lane'[r] = "same" /\ UNCHANGED <<owners, queries, mine>>
        /\ previous'[r] = QueriesOf(mine[r])
    BY <1>0, <1>8, <1>13 DEF FindPrevious, Advance, tables
  <2>2. previous'[r] = queries'
    BY <1>6, <1>7, <2>1
  <2> QED BY <1>1, <1>4, <1>5, <1>7, <1>10, <2>1, <2>2, TableOfOne DEF Recording
<1>14. CASE DeleteSame(r)
  <2>1. /\ lane[r] = "same" /\ UNCHANGED <<owners, mine, previous>>
        /\ queries' = previous[r] \ OfText(previous[r], t)
        /\ lane'[r] = IF Cardinality(previous[r]) >= RecentCount THEN "old" ELSE "save"
        /\ ListsLatest(previous[r], L, RecentCount, lookup)
    BY <1>5, <1>7, <1>8, <1>14 DEF DeleteSame, Advance, OfText, t
  <2>2. \A q \in queries' : q.owner \in owners'
    BY <1>7, <2>1
  <2>3. CASE lane'[r] = "old"
    <3>1. Cardinality(previous[r]) >= RecentCount
      BY <2>1, <2>3
    <3> QED BY <1>1, <1>4, <1>7, <1>9, <1>10, <2>1, <2>2, <2>3, <3>1, TableOfOne DEF Recording
  <2>4. CASE lane'[r] = "save"
    <3>1. ListsLatest(queries', OtherThan(L, t, lookup), RecentCount - 1, lookup)
      BY <1>w, <2>1
    <3> QED BY <1>1, <1>7, <1>10, <2>1, <2>2, <2>4, <3>1, TableOfOne DEF Recording
  <2> QED BY <2>1, <2>3, <2>4
<1>15. CASE DeleteOld(r)
  <2>1. /\ lane[r] = "old" /\ lane'[r] = "save" /\ UNCHANGED <<owners, mine, previous>>
        /\ queries' = queries \ (QueriesOf(mine[r]) \ Newest(previous[r]))
        /\ QueriesOf(mine[r]) = queries
    BY <1>6, <1>7, <1>8, <1>15 DEF DeleteOld, Advance
  <2>2. ListsLatest(Newest(previous[r]), L, RecentCount, lookup)
    BY <1>3, <1>7, <2>1, NewestListed
  <2>3. queries' = Newest(previous[r]) \ OfText(Newest(previous[r]), t)
    BY <1>7, <2>1 DEF OfText, Newest
  <2>4. ListsLatest(queries', OtherThan(L, t, lookup), RecentCount - 1, lookup)
    BY <1>w, <2>2, <2>3
  <2>5. queries' \subseteq queries
    BY <2>1
  <2> QED BY <1>1, <1>7, <1>10, <2>1, <2>4, <2>5, TableOfOne DEF Recording
<1>16. CASE CreateQuery(r)
  <2> DEFINE x == [by |-> r, owner |-> mine[r], text |-> t,
                   on |-> 1 + Max({q.on : q \in queries} \union {0})]
             M == OtherThan(L, t, lookup)
  <2>1. /\ lane[r] = "save" /\ lane'[r] = "query" /\ UNCHANGED <<owners, mine, previous>>
        /\ queries' = queries \union {x}
    BY <1>8, <1>16 DEF CreateQuery, Advance, t
  <2>2. ListsLatest(queries, M, RecentCount - 1, lookup) /\
       owners = {mine[r]} /\ mine[r] \in Lookups
    BY <1>7, <2>1
  <2>3. x.on \in Nat /\ \A q \in queries : q.on < x.on
    <3>1. IsFiniteSet(queries) /\ \A q \in queries : q.on \in Nat
      BY <2>2 DEF ListsLatest, SearchRow
    <3> QED BY <3>1, NextOn
  <2>4. x \in SearchRow /\ x.by = r /\ x.text = lookup[r].text
    BY <1>0, <2>2, <2>3 DEF SearchRow, t
  <2>5. x.owner = mine[r]
    OBVIOUS
  <2>6. Recorded' = Recorded \union {r}
    BY <1>0, <1>1, <2>1 DEF Recorded, Searches, Recording
  <2> HIDE DEF x
  <2>7. ListsLatest(queries', M \union {r}, RecentCount, lookup)
    <3>1. RecentCount - 1 \in Nat /\ RecentCount - 1 + 1 = RecentCount
      BY <1>0
    <3> HIDE DEF M
    <3>2. M \in SUBSET Lookups /\ \A s \in M : s < x.by
      BY <1>3, <2>4 DEF M
    <3>3. ListsLatest(queries \union {x}, M \union {x.by}, RecentCount - 1 + 1, lookup)
      BY <2>2, <2>3, <2>4, <3>1, <3>2, WithNewRow
    <3> QED BY <2>1, <2>4, <3>1, <3>3
  <2>8. L' = M \union {r}
    BY <1>0, <1>3, <2>6 DEF L
  <2>9. ListsLatest(queries', L', RecentCount, lookup)
    BY <2>7, <2>8
  <2> QED BY <1>1, <1>7, <1>10, <2>1, <2>2, <2>5, <2>9, TableOfOne DEF Recording
<1> QED BY <1>11, <1>12, <1>13, <1>14, <1>15, <1>16
        DEF Serve, Answered, FindListOwner, ShowRecents, Recording

-----------------------------------------------------------------------------
LEMMA SearchInitInv == SearchInit => SearchInv
<1> SUFFICES ASSUME SearchInit PROVE SearchInv
  OBVIOUS
<1>1. SentOK
  <2>1. 0 \in 0 .. MaxLookups /\ \A r \in Lookups : ~(r <= 0)
    BY SearchAssumption DEF Lookups
  <2>2. \A r \in Lookups : LookupOK(r)
    BY DEF SearchInit, LookupOK, NoLookup, Recording
  <2>3. /\ lane \in [Lookups -> Lane] /\ lookup \in [Lookups -> Asked \union {NoLookup}]
        /\ DOMAIN mine = Lookups /\ DOMAIN previous = Lookups
    BY DEF SearchInit, Lane
  <2>4. \E n \in 0 .. MaxLookups : \A r \in Lookups : lane[r] # "idle" <=> r <= n
    BY <2>1 DEF SearchInit
  <2> QED BY <2>2, <2>3, <2>4, SearchAssumption DEF SearchInit, SentOK
<1>2. Searches = {} /\ UnderWay = {}
  BY DEF SearchInit, Searches, UnderWay, NoLookup
<1>3. BoxOK
  BY <1>2 DEF SearchInit, BoxOK
<1>4. TableOK
  <2>1. LatestOf(Recorded, lookup) = {}
    BY <1>2 DEF Recorded, LatestOf
  <2>2. ListsLatest({}, {}, RecentCount, lookup)
    BY FS_EmptySet DEF ListsLatest
  <2>3. \A r \in Lookups : lane[r] = "idle"
    BY DEF SearchInit
  <2>4. queries = {} /\ owners = {}
    BY DEF SearchInit
  <2> QED BY <2>1, <2>2, <2>3, <2>4 DEF TableOK
<1> QED BY <1>1, <1>3, <1>4 DEF SearchInv

LEMMA SearchNextInv == SearchInv /\ [SearchNext]_searchVars => SearchInv'
<1> SUFFICES ASSUME SearchInv, [SearchNext]_searchVars PROVE SearchInv'
  OBVIOUS
<1>0. SentOK /\ (patient => BoxOK /\ TableOK)
  BY DEF SearchInv
<1>1. CASE UserActs \/ Debounced
  <2>1. SentOK'
    BY <1>0, <1>1, ActSent
  <2>2. patient' => patient
    BY <1>0, <1>1, ActSends DEF SendNothing, Sends, settings
  <2>3. patient => BoxOK' /\ TableOK'
    BY <1>0, <1>1, ActBox, ActTable
  <2> QED BY <2>1, <2>2, <2>3 DEF SearchInv
<1>2. ASSUME NEW r \in Lookups, Serve(r) \/ LookupFails(r) PROVE SearchInv'
  <2>1. SentOK' /\ (patient' <=> patient)
    BY <1>0, <1>2, ServeSent, ServeFrame DEF settings
  <2>2. patient => BoxOK'
    BY <1>0, <1>2, ServeBox
  <2>3. ASSUME patient PROVE TableOK'
    <3>1. CASE lane[r] \notin Recording
      BY <1>0, <1>2, <2>3, <3>1, ServeOther
    <3>2. CASE lane[r] \in Recording /\ Serve(r)
      BY <1>0, <1>2, <2>3, <3>2, ServeSaving
    <3>3. CASE lane[r] \in Recording /\ LookupFails(r)
      BY <2>3, <3>3 DEF LookupFails, Recording
    <3> QED BY <1>2, <3>1, <3>2, <3>3
  <2> QED BY <2>1, <2>2, <2>3 DEF SearchInv
<1>3. CASE UNCHANGED searchVars
  <2>1. UNCHANGED <<patient, onlyOnEnter, box, category, typed, suggestions, searching, lookup,
                    lane, owners, queries, mine, previous>>
    BY <1>3 DEF searchVars, settings, screen, tables
  <2>2. SentOK'
    BY <1>0, <2>1 DEF SentOK, LookupOK, UnderWay
  <2>3. BoxOK => BoxOK'
    BY <2>1 DEF BoxOK, UnderWay, Searches, Last, FoundBy
  <2>4. TableOK => TableOK'
    <3>1. Recorded' = Recorded
      BY <2>1 DEF Recorded, Searches
    <3>2. LatestOf(Recorded, lookup)' = LatestOf(Recorded, lookup)
      BY <2>1, <3>1
    <3> QED BY <2>1, <3>2 DEF TableOK
  <2> QED BY <1>0, <2>1, <2>2, <2>3, <2>4 DEF SearchInv
<1> QED BY <1>1, <1>2, <1>3 DEF SearchNext

\* With nothing under way, what the invariant says is what the user sees.
LEMMA SearchServes == SearchInv => ServesPatient
<1> SUFFICES ASSUME SearchInv, Quiet PROVE
      /\ ~searching
      /\ patient =>
           /\ \A s \in Searches : (\A r \in Searches : r <= s) =>
                LET latest == [text |-> lookup[s].text, category |-> lookup[s].category] IN
                  /\ suggestions # NoSuggestions => suggestions = latest
                  /\ ~onlyOnEnter /\ box # NoText =>
                       /\ latest = [text |-> box, category |-> category]
                       /\ suggestions = IF lane[s] = "done" THEN latest ELSE NoSuggestions
           /\ {q.by : q \in UNION {Newest(QueriesOf(o)) : o \in owners}} =
                {r \in LatestSaves :
                   Cardinality({s \in LatestSaves : s > r}) < RecentCount}
           /\ Cardinality(owners) <= 1
  BY DEF ServesPatient
<1>0. SentOK /\ UnderWay = {} /\ typed = NoTyping /\ (patient => BoxOK /\ TableOK)
  BY DEF SearchInv, Quiet
<1>1. ~searching
  BY <1>0 DEF SentOK
<1>2. ASSUME patient, NEW s \in Searches, \A r \in Searches : r <= s
      PROVE  /\ suggestions # NoSuggestions => suggestions = FoundBy(s)
             /\ ~onlyOnEnter /\ box # NoText =>
                  /\ FoundBy(s) = [text |-> box, category |-> category]
                  /\ suggestions = IF lane[s] = "done" THEN FoundBy(s) ELSE NoSuggestions
  <2>1. s \in Lookups /\ LookupOK(s) /\ lookup[s].op = "search" /\ lane[s] \in Lane
    BY <1>0 DEF Searches, SentOK
  <2>2. lane[s] \in {"done", "failed"}
    BY <1>0, <2>1 DEF UnderWay, LookupOK, NoLookup
  <2>3. Last(s)
    BY <1>2 DEF Last
  <2> QED BY <1>0, <1>2, <2>2, <2>3 DEF BoxOK
<1>3. ASSUME patient
      PROVE  /\ {q.by : q \in UNION {Newest(QueriesOf(o)) : o \in owners}} =
                  {r \in LatestSaves : Cardinality({s \in LatestSaves : s > r}) < RecentCount}
             /\ Cardinality(owners) <= 1
  <2>1. \A r \in Lookups : lane[r] \notin Recording
    BY <1>0 DEF UnderWay, Recording
  <2>2. LatestSaves = LatestOf(Recorded, lookup) /\ LatestSaves \in SUBSET Lookups
    BY <2>1 DEF LatestSaves, LatestOf, Recorded, Searches
  <2>3. ListsLatest(queries, LatestSaves, RecentCount, lookup)
    BY <1>0, <1>3, <2>1, <2>2 DEF TableOK, Recording
  <2>4. {q.by : q \in Newest(queries)}
          = {r \in LatestSaves : Cardinality({s \in LatestSaves : s > r}) < RecentCount}
    <3> DEFINE L == LatestSaves
    <3> HIDE DEF L
    <3>1. ListsLatest(queries, L, RecentCount, lookup) /\ L \in SUBSET Lookups
      BY <2>2, <2>3 DEF L
    <3>2. {q.by : q \in Newest(queries)} = {r \in L : Cardinality({s \in L : s > r}) < RecentCount}
      BY <3>1, ShowsLatest
    <3> QED BY <3>2 DEF L
  <2>5. /\ \A q \in queries : q.owner \in owners
        /\ \A o, p \in owners : o = p
    BY <1>0, <1>3 DEF TableOK
  <2>6. CASE owners = {}
    <3>1. queries = {} /\ Newest(queries) = {}
      BY <2>5, <2>6 DEF Newest
    <3> QED BY <2>4, <2>6, <3>1, FS_EmptySet
  <2>7. CASE owners # {}
    <3>1. PICK o : owners = {o}
      BY <2>5, <2>7
    <3>2. QueriesOf(o) = queries
      BY <2>5, <3>1 DEF QueriesOf
    <3>3. UNION {Newest(QueriesOf(p)) : p \in owners} = Newest(queries)
      BY <3>1, <3>2
    <3>4. Cardinality(owners) = 1
      BY <3>1, FS_Singleton
    <3>5. {q.by : q \in UNION {Newest(QueriesOf(p)) : p \in owners}}
            = {q.by : q \in Newest(queries)}
      BY <3>3
    <3>6. Cardinality(owners) <= 1
      BY <3>4
    <3> QED BY <2>4, <3>5, <3>6
  <2> QED BY <2>6, <2>7
<1> QED BY <1>1, <1>2, <1>3 DEF FoundBy

\* For any texts and categories, any length of the list and any number of
\* requests: a user who waits sees what was searched for last, the list keeps the
\* latest of the texts saved, each once, and nothing shows as being searched for
\* when nothing is (hitSearchApi, RecentSearchRepository.create).
THEOREM SearchServesPatient == SearchSpec => []ServesPatient
<1>1. SearchSpec => []SearchInv
  BY SearchInitInv, SearchNextInv, PTL DEF SearchSpec
<1> QED BY <1>1, SearchServes, PTL

-----------------------------------------------------------------------------
(* The types of Search.  A row is younger than those before it by one, and a *)
(* request inserts one row at most, so its place is a number of a request.   *)

\* Requests that have got past the insertion of their row, or have failed.
StoredSearches == {r \in Lookups : lane[r] \in {"query", "done", "failed"}}
RowAt(r) == lane[r] \in {"previous", "same", "old", "save"} => mine[r] \in Lookups

SearchTypesInv ==
  /\ SentOK /\ SearchTypeOK
  /\ \A r \in Lookups : RowAt(r)
  /\ IsFiniteSet(queries) /\ \A q \in queries : q.on <= Cardinality(StoredSearches)

\* As many requests are stored as there are, at most.
LEMMA StoredCount ==
  ASSUME NEW S \in SUBSET Lookups
  PROVE  IsFiniteSet(S) /\ Cardinality(S) \in Nat /\ Cardinality(S) <= MaxLookups
<1>1. MaxLookups \in Nat /\ IsFiniteSet(Lookups) /\ Cardinality(Lookups) = MaxLookups
  BY SearchAssumption, FS_Interval DEF Lookups
<1>2. IsFiniteSet(S) /\ Cardinality(S) <= Cardinality(Lookups)
  BY <1>1, FS_Subset
<1> QED BY <1>1, <1>2, FS_CardinalityType

\* More requests are stored after each step, none fewer.
LEMMA StoredGrows ==
  ASSUME NEW S \in SUBSET Lookups, NEW T \in SUBSET Lookups, S \subseteq T, NEW n \in Nat,
         n <= Cardinality(S)
  PROVE  n <= Cardinality(T)
<1>1. Cardinality(S) <= Cardinality(T)
  BY StoredCount, FS_Subset
<1> QED BY <1>1, StoredCount

LEMMA SearchTypesInit == SearchInit => SearchTypesInv
<1> SUFFICES ASSUME SearchInit PROVE SearchTypesInv
  OBVIOUS
<1>1. SentOK
  BY SearchInitInv DEF SearchInv
<1>2. SearchTypeOK
  BY SearchAssumption
     DEF SearchInit, SearchTypeOK, settings, NoTyping, NoSuggestions
<1> QED BY <1>1, <1>2, FS_EmptySet DEF SearchInit, SearchTypesInv, RowAt

\* What an act of the user leaves on the page.
LEMMA ActTypes ==
  ASSUME SearchTypesInv, UserActs \/ Debounced
  PROVE  SearchTypesInv'
<1>1. SentOK /\ SearchTypeOK /\ SentOK'
  BY ActSent DEF SearchTypesInv
<1>2. /\ typed' \in [text : Text \union {NoText}, key : {"none", "char", "enter"}]
      /\ suggestions' \in [text : Text \union {NoText}, category : Category \union {"none"}]
  <2> USE <1>1 DEF SearchTypeOK, NoTyping, NoSuggestions
  <2>1. CASE Erase \/ Enter \/ Focus
    BY <2>1 DEF Erase, Enter, Focus
  <2>2. CASE \E t \in Text, key \in {"char", "enter"} : Key(t, key)
    BY <2>2 DEF Key
  <2>3. CASE \E t \in Text : KeyUnheard(t) \/ Populate(t) \/ PopulateRecent(t)
    BY <2>3 DEF KeyUnheard, Populate, PopulateRecent
  <2>4. CASE \E c \in Category : SetCategory(c)
    BY <2>4 DEF SetCategory
  <2>5. CASE Debounced
    BY <2>5 DEF Debounced
  <2> QED BY <2>1, <2>2, <2>3, <2>4, <2>5 DEF UserActs
<1>3. searching' \in BOOLEAN
  <2>1. ASSUME NEW calls, Send(calls) PROVE searching' \in BOOLEAN
    BY <2>1, Zenon DEF Send
  <2>2. SendNothing \/ \E calls : Send(calls)
    BY DEF UserActs, Debounced, Erase, Enter, Focus, Key, KeyUnheard, Populate, PopulateRecent,
           SetCategory
  <2>3. SendNothing => searching' = searching
    BY DEF SendNothing
  <2>4. searching \in BOOLEAN
    BY <1>1 DEF SearchTypeOK
  <2> QED BY <2>1, <2>2, <2>3, <2>4
<1>4. /\ UNCHANGED <<settings, owners, queries, mine, previous, recents>>
      /\ \A r \in Lookups :
           lane'[r] = lane[r] \/ (lane[r] = "idle" /\ lane'[r] \in {"owner", "query", "listOwner"})
  <2>1. CASE SendNothing
    BY <2>1 DEF SendNothing, tables
  <2>2. CASE \E n, m, c : Sends(n, m, c)
    <3>1. PICK n, m, c : Sends(n, m, c)
      BY <2>2
    <3>2. ASSUME NEW r \in Lookups
          PROVE  \/ lane'[r] = lane[r]
                 \/ (lane[r] = "idle" /\ lane'[r] \in {"owner", "query", "listOwner"})
      <4>1. CASE r <= n \/ r > m
        BY <3>1, <4>1 DEF Sends
      <4>2. CASE n < r /\ r <= m
        <5>1. ~(r <= n)
          BY <3>1, <4>2, SearchAssumption DEF Lookups, Sends
        <5> QED BY <3>1, <4>2, <5>1 DEF Sends
      <4> QED BY <3>1, <4>1, <4>2, SearchAssumption DEF Lookups, Sends
    <3> QED BY <3>1, <3>2 DEF Sends, tables
  <2> QED BY <1>1, <2>1, <2>2, ActSends
<1>5. SearchTypeOK'
  BY <1>1, <1>2, <1>3, <1>4 DEF SearchTypeOK, SentOK, Lane, Recording
<1>6. \A r \in Lookups : RowAt(r)'
  BY <1>4 DEF SearchTypesInv, RowAt
<1>7. IsFiniteSet(queries') /\ \A q \in queries' : q.on <= Cardinality(StoredSearches')
  <2>1. StoredSearches \subseteq StoredSearches' /\
       StoredSearches \in SUBSET Lookups /\ StoredSearches' \in SUBSET Lookups
    BY <1>4 DEF StoredSearches
  <2>2. \A q \in queries : q.on \in Nat /\ q.on <= Cardinality(StoredSearches)
    BY <1>1, SearchAssumption DEF SearchTypesInv, SearchTypeOK, SearchQuery, Lookups
  <2>3. IsFiniteSet(queries')
    BY <1>4 DEF SearchTypesInv
  <2> QED BY <1>4, <2>1, <2>2, <2>3, StoredGrows
<1> QED BY <1>1, <1>5, <1>6, <1>7 DEF SearchTypesInv

\* What a request leaves in the tables and on the page.
LEMMA ServeTypes ==
  ASSUME SearchTypesInv, NEW r \in Lookups, Serve(r) \/ LookupFails(r)
  PROVE  SearchTypesInv'
<1>1. SentOK /\ SearchTypeOK /\ SentOK'
  BY ServeSent DEF SearchTypesInv
<1>2. /\ UNCHANGED <<settings, box, category, typed, lookup>>
      /\ lane' = [lane EXCEPT ![r] = lane'[r]] /\ lane \in [Lookups -> Lane]
      /\ <<lane[r], lane'[r]>> \in NextLane \/ lane'[r] = "failed"
      /\ DOMAIN mine = Lookups /\ DOMAIN previous = Lookups /\ LookupOK(r)
  BY <1>1, ServeFrame DEF SentOK
<1>3. \A q \in Lookups : q # r => lane'[q] = lane[q]
  BY <1>2
<1>4. StoredSearches \subseteq StoredSearches' /\
     StoredSearches \in SUBSET Lookups /\ StoredSearches' \in SUBSET Lookups
  <2>1. r \in StoredSearches => r \in StoredSearches'
    BY <1>2 DEF NextLane, StoredSearches
  <2> QED BY <1>3, <2>1 DEF StoredSearches
<1>5. \A q \in queries : q \in SearchQuery /\ q.on \in Nat /\ q.on <= Cardinality(StoredSearches)
  BY <1>1, SearchAssumption DEF SearchTypesInv, SearchTypeOK, SearchQuery, Lookups
<1>6. \A q \in queries : q.on <= Cardinality(StoredSearches')
  BY <1>4, <1>5, StoredGrows
<1>7. /\ suggestions' \in [text : Text \union {NoText}, category : Category \union {"none"}]
      /\ searching' \in BOOLEAN /\ recents' \subseteq Text
  <2> USE <1>1 DEF SearchTypeOK
  <2>1. CASE Answered(r)
    BY <1>2, <2>1 DEF Answered, LookupOK
  <2>2. CASE FindListOwner(r)
    BY <2>2 DEF FindListOwner
  <2>3. CASE ShowRecents(r)
    <3>1. /\ recents' = {q.text : q \in Newest(QueriesOf(mine[r]))}
          /\ UNCHANGED <<suggestions, searching>>
      BY <2>3 DEF ShowRecents
    <3>2. \A q \in Newest(QueriesOf(mine[r])) : q.text \in Text
      BY DEF Newest, QueriesOf, SearchQuery
    <3> QED BY <3>1, <3>2
  <2>4. CASE LookupFails(r)
    <3>1. \/ suggestions' = NoSuggestions /\ searching' = FALSE /\ UNCHANGED recents
          \/ recents' = {} /\ UNCHANGED <<suggestions, searching>>
      BY <2>4, Zenon DEF LookupFails
    <3>2. CASE suggestions' = NoSuggestions /\ searching' = FALSE /\ UNCHANGED recents
      BY <3>2 DEF NoSuggestions
    <3>3. CASE recents' = {} /\ UNCHANGED <<suggestions, searching>>
      BY <3>3
    <3> QED BY <3>1, <3>2, <3>3
  <2>5. CASE UNCHANGED screen
    BY <2>5 DEF screen
  <2> QED BY <2>1, <2>2, <2>3, <2>4, <2>5
          DEF Serve, FindOwner, CreateOwner, FindPrevious, DeleteSame, DeleteOld, CreateQuery,
              Advance
<1>8. /\ owners' \subseteq Lookups /\ \A q \in queries' : q \in SearchQuery
      /\ \A q \in Lookups : mine'[q] \in Lookups \union {0} /\ previous'[q] \subseteq SearchQuery
      /\ RowAt(r)' /\ \A q \in Lookups : q # r => mine'[q] = mine[q]
      /\ IsFiniteSet(queries') /\ \A q \in queries' : q.on <= Cardinality(StoredSearches')
  <2>0. /\ owners \subseteq Lookups /\ queries \subseteq SearchQuery /\ RowAt(r)
        /\ IsFiniteSet(queries)
        /\ \A q \in Lookups : mine[q] \in Lookups \union {0} /\ previous[q] \subseteq SearchQuery
    BY <1>1 DEF SearchTypeOK, SearchTypesInv
  <2> USE <1>2
  <2>1. CASE FindOwner(r)
    <3>1. CASE owners = {}
      BY <1>6, <2>0, <2>1, <3>1 DEF FindOwner, Advance, tables, RowAt
    <3>2. CASE owners # {}
      <4>1. PICK o \in owners : mine' = [mine EXCEPT ![r] = o]
        BY <2>1, <3>2 DEF FindOwner
      <4>2. UNCHANGED <<owners, queries, previous>>
        BY <2>1 DEF FindOwner, tables
      <4> QED BY <1>6, <2>0, <4>1, <4>2 DEF RowAt
    <3> QED BY <3>1, <3>2
  <2>2. CASE CreateOwner(r)
    BY <1>6, <2>0, <2>2 DEF CreateOwner, Advance, RowAt
  <2>3. CASE FindPrevious(r)
    BY <1>6, <2>0, <2>3 DEF FindPrevious, Advance, tables, RowAt, QueriesOf
  <2>4. CASE DeleteSame(r)
    BY <1>6, <2>0, <2>4, FS_Difference DEF DeleteSame, Advance, RowAt
  <2>5. CASE DeleteOld(r)
    BY <1>6, <2>0, <2>5, FS_Difference DEF DeleteOld, Advance, RowAt
  <2>6. CASE CreateQuery(r)
    <3> DEFINE next == 1 + Max({q.on : q \in queries} \union {0})
               x == [by |-> r, owner |-> mine[r], text |-> lookup[r].text, on |-> next]
    <3>1. /\ lane[r] = "save" /\ lane'[r] = "query" /\ UNCHANGED <<owners, mine, previous>>
          /\ queries' = queries \union {x}
      BY <2>6 DEF CreateQuery, Advance
    <3>2. mine[r] \in Lookups /\ lookup[r].text \in Text
      BY <2>0, <3>1 DEF RowAt, LookupOK, Recording
    <3>3. Cardinality(StoredSearches') = Cardinality(StoredSearches) + 1
      <4>1. StoredSearches' = StoredSearches \union {r} /\ r \notin StoredSearches
        BY <1>3, <3>1 DEF StoredSearches
      <4> QED BY <1>4, <4>1, StoredCount, FS_AddElement
    <3>4. next \in Nat /\ next >= 1 /\ next <= Cardinality(StoredSearches) + 1
      <4>1. next \in Nat /\ (next = 1 \/ \E q \in queries : next = 1 + q.on)
        BY <1>5, <2>0, NextOn
      <4>2. Cardinality(StoredSearches) \in Nat
        BY <1>4, StoredCount
      <4> HIDE DEF next
      <4> QED BY <1>5, <4>1, <4>2
    <3>5. next \in Lookups /\ next <= Cardinality(StoredSearches')
      <4>1. Cardinality(StoredSearches') <= MaxLookups /\ Cardinality(StoredSearches') \in Nat
        BY <1>4, StoredCount
      <4> QED BY <3>3, <3>4, <4>1, SearchAssumption DEF Lookups
    <3> HIDE DEF next
    <3>6. x \in SearchQuery /\ x.on = next
      BY <3>2, <3>5 DEF SearchQuery
    <3>7. IsFiniteSet(queries')
      BY <2>0, <3>1, FS_AddElement
    <3> HIDE DEF x
    <3> QED BY <1>6, <2>0, <3>1, <3>2, <3>5, <3>6, <3>7 DEF RowAt
  <2>7. CASE Answered(r) \/ LookupFails(r)
    BY <1>6, <2>0, <2>7 DEF Answered, LookupFails, tables, RowAt, NextLane
  <2>8. CASE FindListOwner(r) \/ ShowRecents(r)
    <3>1. UNCHANGED <<owners, queries, previous>> /\ lane'[r] \in {"list", "done"}
      BY <2>8 DEF FindListOwner, ShowRecents, tables
    <3>2. UNCHANGED mine \/ \E o \in owners : mine' = [mine EXCEPT ![r] = o]
      BY <2>8, Zenon DEF FindListOwner, ShowRecents
    <3>3. CASE UNCHANGED mine
      BY <1>6, <2>0, <3>1, <3>3 DEF RowAt
    <3>4. CASE \E o \in owners : mine' = [mine EXCEPT ![r] = o]
      BY <1>6, <2>0, <3>1, <3>4 DEF RowAt
    <3> QED BY <3>2, <3>3, <3>4
  <2> QED BY <2>1, <2>2, <2>3, <2>4, <2>5, <2>6, <2>7, <2>8 DEF Serve
<1>9. SearchTypeOK'
  BY <1>1, <1>2, <1>7, <1>8 DEF SearchTypeOK, SentOK, Lane, Recording
<1>10. \A q \in Lookups : RowAt(q)'
  BY <1>3, <1>8 DEF SearchTypesInv, RowAt
<1> QED BY <1>1, <1>8, <1>9, <1>10 DEF SearchTypesInv

\* Every variable of the box and of the recent searches keeps its type, for any
\* number of requests sent and under way, whether the user waits or not.
THEOREM SearchTypes == SearchSpec => []SearchTypeOK
<1>1. ASSUME SearchTypesInv, UNCHANGED searchVars PROVE SearchTypesInv'
  <2>1. UNCHANGED <<patient, onlyOnEnter, saveOnEnter, box, category, typed, suggestions,
                    searching, recents, lookup, lane, owners, queries, mine, previous>>
    BY <1>1 DEF searchVars, settings, screen, tables
  <2>2. SentOK' /\ SearchTypeOK'
    BY <1>1, <2>1 DEF SearchTypesInv, SentOK, LookupOK, UnderWay, SearchTypeOK, settings
  <2>3. StoredSearches' = StoredSearches
    BY <2>1 DEF StoredSearches
  <2> QED BY <1>1, <2>1, <2>2, <2>3 DEF SearchTypesInv, RowAt
<1>2. SearchTypesInv /\ [SearchNext]_searchVars => SearchTypesInv'
  BY <1>1, ActTypes, ServeTypes DEF SearchNext
<1>3. SearchTypesInv => SearchTypeOK
  BY DEF SearchTypesInv
<1> QED BY <1>2, <1>3, SearchTypesInit, PTL DEF SearchSpec


-----------------------------------------------------------------------------
(* Tour: the invariant says of every source a step can come from - the      *)
(* store, the screen, the start of the tour, a handler that listens or     *)
(* waits - that it names a step that has been shown.                       *)

\* The handlers that listen or wait belong to steps that have been shown.
MovesSeen ==
  \A m \in Moves : waiting[m] > 0 \/ listeners[m] > 0 => m.step <= reached

\* So does the saved step, which is a step of the tour.
StoredSeen ==
  stored.status = "inProgress" => stored.step \in Steps /\ stored.step <= reached

\* A page on which the tour has not started has neither handlers nor a step
\* on the screen.
TourQuiet ==
  phase # "running" =>
    shown = 0 /\ \A m \in Moves : waiting[m] = 0 /\ listeners[m] = 0

\* A tour about to start starts where it was saved.
StartsAtStored == phase = "starting" => stored = InProgress(first)

TourInv ==
  /\ TourTypeOK
  /\ MovesSeen /\ StoredSeen /\ TourQuiet /\ StartsAtStored
  /\ shown <= reached /\ first <= reached
  /\ ScreenMatchesStore

\* A move leads to a step of the tour.
LEMMA TargetType ==
  ASSUME NEW m \in Moves
  PROVE  TargetStep(m) \in Steps /\ TargetStep(m) <= m.step + 1
BY StepsAssumption DEF Moves, TargetStep, Steps

\* The move a button of the step on the screen makes.
LEMMA ClickedMove ==
  ASSUME TourTypeOK, shown # 0
  PROVE  /\ shown < NumSteps =>
              [dir |-> "next", step |-> shown, first |-> first] \in Moves
         /\ shown > 1 =>
              [dir |-> "prev", step |-> shown, first |-> first] \in Moves
BY StepsAssumption DEF TourTypeOK, Moves, Steps

\* Every route of a step is a page, and so is what a click navigates to.
LEMMA RouteType ==
  ASSUME NEW s \in Steps
  PROVE  NextRoute(s) \in Pages /\ PrevRoute(s) \in Pages
<1>1. s # NumSteps => s + 1 \in Steps
  BY StepsAssumption DEF Steps
<1>2. s # 1 => s - 1 \in Steps
  BY StepsAssumption DEF Steps
<1> QED
  BY <1>1, <1>2, RouteAssumption DEF NextRoute, PrevRoute

LEMMA UrlType ==
  ASSUME NEW m \in Moves
  PROVE  Url(m) \in Pages
<1>1. m.step \in Steps /\ m.first \in Steps
  BY StepsAssumption DEF Moves, Steps
<1>2. m.dir = "next" \/ (m.dir = "prev" /\ m.step > 1)
  BY StepsAssumption DEF Moves
<1>3. m.dir # "next" /\ m.step = m.first => m.first - 1 \in Steps
  BY <1>1, <1>2, StepsAssumption DEF Steps
<1> QED
  BY <1>1, <1>3, RouteType DEF Url

\* A click changes counts of moves and the target of the router, to values of
\* their types; what it adds is the move that was clicked.
LEMMA ClickType ==
  ASSUME TourTypeOK, NEW m \in Moves,
         IF Stays(m) THEN Wait(m) ELSE NavigateAndWait(m)
  PROVE  /\ waiting' \in [Moves -> Nat] /\ listeners' \in [Moves -> Nat]
         /\ target' \in Pages \cup {NoPage}
         /\ \A q \in Moves \ {m} : waiting'[q] = waiting[q] /\ listeners'[q] = listeners[q]
<1>0. m \in Moves
  OBVIOUS
<1>1. CASE Stays(m)
  BY <1>1 DEF TourTypeOK, Wait
<1>2. CASE ~Stays(m)
  <2>1. NavigateAndWait(m)
    BY <1>2
  <2>2. Url(m) \in Pages
    BY <1>0, UrlType
  <2>3. target' \in Pages \cup {NoPage}
    BY <2>1, <2>2 DEF NavigateAndWait, Navigate, TourTypeOK
  <2>4. waiting' = waiting
    BY <2>1 DEF NavigateAndWait
  <2>5. \/ listeners' = listeners
        \/ listeners' = [listeners EXCEPT ![m] = @ + 1]
    BY <2>1 DEF NavigateAndWait
  <2> QED
    BY <2>3, <2>4, <2>5 DEF TourTypeOK
<1> QED
  BY <1>1, <1>2

\* The invariant after a click on Next or Previous.
LEMMA ClickInv ==
  ASSUME TourInv, Act, shown # 0, NEW m \in Moves, m.step = shown,
         IF Stays(m) THEN Wait(m) ELSE NavigateAndWait(m),
         UNCHANGED <<stored, phase, first, shown, page, reached>>
  PROVE  TourInv'
<1>1. TourTypeOK
  BY DEF TourInv
<1>2. /\ waiting' \in [Moves -> Nat] /\ listeners' \in [Moves -> Nat]
      /\ target' \in Pages \cup {NoPage}
      /\ \A q \in Moves \ {m} : waiting'[q] = waiting[q] /\ listeners'[q] = listeners[q]
  BY <1>1, ClickType
<1>3. acts' \in 0 .. MaxActs
  BY <1>1, BoundAssumption DEF Act, TourTypeOK
<1>4. TourTypeOK'
  BY <1>1, <1>2, <1>3 DEF TourTypeOK
<1>5. MovesSeen'
  BY <1>2 DEF TourInv, MovesSeen
<1>6. phase = "running"
  BY DEF TourInv, TourQuiet
<1> QED
  BY <1>4, <1>5, <1>6
  DEF TourInv, StoredSeen, TourQuiet, StartsAtStored, ScreenMatchesStore, InProgress

\* The types and the handlers are disturbed by few actions; the rest of the
\* invariant is about what is saved, shown and started.
LEMMA RunInv == ASSUME TourInv, Run PROVE TourInv'
<1>1. stored.status \in {"none", "inProgress"}
  BY DEF TourInv, TourTypeOK, Run
<1>2. CASE stored.status = "none"
  <2>1. first' = 1 /\ stored' = InProgress(1)
    BY <1>2 DEF Run, Resumed
  <2> QED
    BY <2>1, StepsAssumption
    DEF TourInv, TourTypeOK, Run, MovesSeen, StoredSeen, TourQuiet, StartsAtStored,
        ScreenMatchesStore, InProgress, Steps
<1>3. CASE stored.status = "inProgress"
  <2>1. first' = stored.step /\ stored' = stored
    BY <1>3 DEF Run, Resumed
  <2>2. stored.step \in Steps /\ stored.step <= reached
    BY <1>3 DEF TourInv, StoredSeen
  <2>3. stored = InProgress(stored.step)
    BY <1>3 DEF TourInv, TourTypeOK, InProgress
  <2> QED
    BY <2>1, <2>2, <2>3
    DEF TourInv, TourTypeOK, Run, MovesSeen, StoredSeen, TourQuiet, StartsAtStored,
        ScreenMatchesStore
<1> QED
  BY <1>1, <1>2, <1>3

\* Showing and saving a step no further than one beyond those seen.
LEMMA ShowInv ==
  ASSUME TourInv, NEW s \in Steps, s <= reached + 1, Show(s), phase' = "running",
         stored' = InProgress(s), first' = first,
         UNCHANGED <<page, target, listeners, acts>>,
         waiting' \in [Moves -> Nat],
         \A m \in Moves : waiting'[m] <= waiting[m]
  PROVE  TourInv' /\ reached' <= reached + 1
<1>1. /\ shown' = s /\ reached' \in Steps
      /\ reached' >= reached /\ reached' >= s /\ reached' <= reached + 1
  BY StepsAssumption DEF Show, TourInv, TourTypeOK, Steps
<1>2. TourTypeOK'
  BY <1>1, StepsAssumption DEF TourInv, TourTypeOK, InProgress, Steps
<1>3. MovesSeen'
  <2> SUFFICES ASSUME NEW m \in Moves, waiting'[m] > 0 \/ listeners'[m] > 0
               PROVE  m.step <= reached'
    BY DEF MovesSeen
  <2>1. waiting[m] > 0 \/ listeners[m] > 0
    BY DEF TourInv, TourTypeOK
  <2>2. m.step <= reached /\ m.step \in Nat /\ reached \in Nat /\ reached' \in Nat
    BY <1>1, <2>1, StepsAssumption DEF TourInv, TourTypeOK, MovesSeen, Moves, Steps
  <2> QED
    BY <1>1, <2>2
<1>4. first' <= reached' /\ shown' <= reached'
  BY <1>1 DEF TourInv, TourTypeOK, Steps
<1>5. StoredSeen' /\ TourQuiet' /\ StartsAtStored' /\ ScreenMatchesStore'
  BY <1>1 DEF StoredSeen, TourQuiet, StartsAtStored, ScreenMatchesStore, InProgress
<1> QED
  BY <1>1, <1>2, <1>3, <1>4, <1>5 DEF TourInv

LEMMA StartTourInv == ASSUME TourInv, Start PROVE TourInv' /\ reached' <= reached + 1
<1>1. first \in Steps /\ first <= reached /\ reached \in Nat
  BY DEF TourInv, TourTypeOK, Steps
<1>2. stored' = InProgress(first)
  BY DEF TourInv, Start, StartsAtStored
<1>3. waiting' \in [Moves -> Nat] /\ \A m \in Moves : waiting'[m] <= waiting[m]
  BY DEF TourInv, Start, TourTypeOK
<1> QED
  BY <1>1, <1>2, <1>3, ShowInv DEF Start, Steps

LEMMA FoundInv ==
  ASSUME TourInv, NEW m \in Moves, FoundElement(m)
  PROVE  TourInv' /\ reached' <= reached + 1
<1>1. TargetStep(m) \in Steps /\ TargetStep(m) <= m.step + 1
  BY TargetType
<1>2. m.step <= reached /\ m.step \in Nat /\ reached \in Nat
  BY StepsAssumption DEF TourInv, TourTypeOK, MovesSeen, FoundElement, Moves, Steps
<1>3. TargetStep(m) <= reached + 1
  BY <1>1, <1>2 DEF Steps
<1>4. waiting' \in [Moves -> Nat] /\ \A q \in Moves : waiting'[q] <= waiting[q]
  BY DEF TourInv, TourTypeOK, FoundElement
<1>5. phase = "running"
  BY DEF TourInv, TourTypeOK, TourQuiet, FoundElement
<1> QED
  BY <1>1, <1>3, <1>4, <1>5, ShowInv DEF FoundElement

\* A move that gives up only stops waiting.
LEMMA TimedOutInv ==
  ASSUME TourInv, NEW m \in Moves, TimedOut(m)
  PROVE  TourInv'
<1>1. waiting' \in [Moves -> Nat] /\ \A q \in Moves : waiting'[q] <= waiting[q]
  BY DEF TourInv, TourTypeOK, TimedOut
<1>2. TourTypeOK'
  BY <1>1 DEF TourInv, TourTypeOK, TimedOut
<1>3. MovesSeen'
  BY <1>1 DEF TourInv, TourTypeOK, MovesSeen, TimedOut
<1>4. phase = "running"
  BY DEF TourInv, TourTypeOK, TourQuiet, TimedOut
<1> QED
  BY <1>2, <1>3, <1>4
  DEF TourInv, TimedOut, StoredSeen, TourQuiet, StartsAtStored, ScreenMatchesStore, InProgress

\* Handlers start to wait only where they listened.
LEMMA NavigationEndInv == ASSUME TourInv, NavigationEnd PROVE TourInv'
<1>1. \A m \in Moves : waiting'[m] \in Nat /\
        (waiting'[m] > 0 => waiting[m] > 0 \/ listeners[m] > 0)
  BY DEF TourInv, TourTypeOK, NavigationEnd
<1>2. waiting' \in [Moves -> Nat]
  BY <1>1 DEF NavigationEnd
<1>3. TourTypeOK'
  BY <1>2 DEF TourInv, TourTypeOK, NavigationEnd
<1>4. MovesSeen'
  BY <1>1 DEF TourInv, MovesSeen, NavigationEnd
<1>5. TourQuiet'
  BY <1>1 DEF TourInv, TourTypeOK, TourQuiet, NavigationEnd
<1> QED
  BY <1>3, <1>4, <1>5
  DEF TourInv, NavigationEnd, StoredSeen, StartsAtStored, ScreenMatchesStore, InProgress

\* The user closes the tour, completes it, goes elsewhere or reloads.
LEMMA UserInv ==
  ASSUME TourInv, ClickDone \/ Cancel \/ \E p \in Pages : Wander(p) \/ Reload(p)
  PROVE  TourInv'
<1>1. acts' \in 0 .. MaxActs
  BY BoundAssumption DEF TourInv, TourTypeOK, ClickDone, Cancel, Wander, Reload, Act
<1>2. CASE ClickDone
  <2>1. phase = "running"
    BY <1>2, StepsAssumption DEF TourInv, TourQuiet, ClickDone
  <2> QED
    BY <1>1, <1>2, <2>1
    DEF TourInv, TourTypeOK, ClickDone, MovesSeen, StoredSeen, TourQuiet, StartsAtStored,
        ScreenMatchesStore, Complete, Steps
<1>3. CASE Cancel
  <2>1. TourTypeOK' /\ shown' = 0 /\ shown' <= reached'
    BY <1>1, <1>3, StepsAssumption DEF TourInv, TourTypeOK, Cancel, Steps
  <2> QED
    BY <1>3, <2>1
    DEF TourInv, Cancel, MovesSeen, StoredSeen, TourQuiet, StartsAtStored,
        ScreenMatchesStore, InProgress
<1>4. ASSUME NEW p \in Pages, Wander(p) PROVE TourInv'
  BY <1>1, <1>4
  DEF TourInv, TourTypeOK, Wander, Navigate, MovesSeen, StoredSeen, TourQuiet, StartsAtStored,
      ScreenMatchesStore, InProgress
<1>5. ASSUME NEW p \in Pages, Reload(p) PROVE TourInv'
  <2>1. /\ waiting' \in [Moves -> Nat] /\ listeners' \in [Moves -> Nat]
        /\ \A m \in Moves : waiting'[m] = 0 /\ listeners'[m] = 0
    BY <1>5 DEF Reload, NoMoves
  <2>2. TourTypeOK' /\ shown' = 0 /\ shown' <= reached'
    BY <1>1, <1>5, <2>1, StepsAssumption DEF TourInv, TourTypeOK, Reload, Steps
  <2> QED
    BY <1>5, <2>1, <2>2
    DEF TourInv, Reload, MovesSeen, StoredSeen, TourQuiet, StartsAtStored,
        ScreenMatchesStore, InProgress
<1> QED
  BY <1>2, <1>3, <1>4, <1>5

LEMMA StartFailsInv == ASSUME TourInv, StartFails PROVE TourInv'
BY DEF TourInv, TourTypeOK, StartFails, MovesSeen, StoredSeen, TourQuiet, StartsAtStored,
       ScreenMatchesStore, InProgress

LEMMA TourInitInv == TourInit => TourInv
BY StepsAssumption, BoundAssumption
DEF TourInit, TourInv, TourTypeOK, MovesSeen, StoredSeen, TourQuiet, StartsAtStored,
    ScreenMatchesStore, NoState, NoMoves, Steps

\* One step keeps the invariant, and lets the user see one step more at most.
LEMMA TourNextInv == TourInv /\ [TourNext]_tourVars => TourInv' /\ reached' <= reached + 1
<1> SUFFICES ASSUME TourInv, [TourNext]_tourVars PROVE TourInv' /\ reached' <= reached + 1
  OBVIOUS
<1>0. reached \in Nat
  BY DEF TourInv, TourTypeOK, Steps
<1>1. CASE Run
  BY <1>0, <1>1, RunInv DEF Run
<1>2. CASE Start
  BY <1>2, StartTourInv
<1>3. CASE StartFails
  BY <1>0, <1>3, StartFailsInv DEF StartFails
<1>4. CASE ClickNext
  <2> DEFINE m == [dir |-> "next", step |-> shown, first |-> first]
  <2>1. m \in Moves /\ m.step = shown
    BY <1>4, ClickedMove DEF TourInv, ClickNext
  <2> QED
    BY <1>0, <1>4, <2>1, ClickInv DEF ClickNext
<1>5. CASE ClickPrev
  <2> DEFINE m == [dir |-> "prev", step |-> shown, first |-> first]
  <2>1. m \in Moves /\ m.step = shown /\ shown # 0
    BY <1>5, ClickedMove DEF TourInv, TourTypeOK, ClickPrev
  <2> QED
    BY <1>0, <1>5, <2>1, ClickInv DEF ClickPrev
<1>6. CASE NavigationEnd
  BY <1>0, <1>6, NavigationEndInv DEF NavigationEnd
<1>7. ASSUME NEW m \in Moves, FoundElement(m) PROVE TourInv' /\ reached' <= reached + 1
  BY <1>7, FoundInv
<1>8. ASSUME NEW m \in Moves, TimedOut(m) PROVE TourInv' /\ reached' <= reached + 1
  <2>1. TourInv'
    BY <1>8, TimedOutInv
  <2> QED
    BY <1>0, <1>8, <2>1 DEF TimedOut
<1>9. CASE ClickDone \/ Cancel \/ \E p \in Pages : Wander(p) \/ Reload(p)
  BY <1>0, <1>9, UserInv DEF ClickDone, Cancel, Wander, Reload
<1>10. CASE UNCHANGED tourVars
  BY <1>0, <1>10
  DEF tourVars, TourInv, TourTypeOK, MovesSeen, StoredSeen, TourQuiet,
      StartsAtStored, ScreenMatchesStore
<1> QED
  BY <1>1, <1>2, <1>3, <1>4, <1>5, <1>6, <1>7, <1>8, <1>9, <1>10 DEF TourNext

LEMMA TourInvariance == TourSpec => []TourInv
<1>1. TourInv /\ [TourNext]_tourVars => TourInv'
  BY TourNextInv
<1> QED
  BY TourInitInv, <1>1, PTL DEF TourSpec

\* Whatever the user does, and however navigations, elements and reloads
\* interleave, every variable keeps its type.
THEOREM TourTypes == TourSpec => []TourTypeOK
<1>1. TourInv => TourTypeOK
  BY DEF TourInv
<1> QED
  BY TourInvariance, <1>1, PTL

\* A tour on the screen resumes, after a reload, at the step on the screen.
THEOREM ScreenMatches == TourSpec => []ScreenMatchesStore
<1>1. TourInv => ScreenMatchesStore
  BY DEF TourInv
<1> QED
  BY TourInvariance, <1>1, PTL

\* No click, late handler or resumption shows a step beyond the next new one.
THEOREM NoSkip == TourSpec => NoStepSkipped
<1>1. TourInv /\ [TourNext]_tourVars => [reached' <= reached + 1]_reached
  BY TourNextInv
<1> QED
  BY TourInvariance, <1>1, PTL DEF TourSpec, NoStepSkipped
-----------------------------------------------------------------------------
(* The run of MCServices: what is proved of a component is so of the         *)
(* behaviours of all of them, in which it takes its own steps or none.      *)

EveryStep ==
  /\ [Next]_vars /\ [TourNext]_tourVars /\ [WorkflowNext]_workflowVars
  /\ [MeetingNext]_meetingVars /\ [AttendanceNext]_attendanceVars /\ [CacheNext]_cacheVars
  /\ [WorkersNext]_workersVars /\ [CalendarNext]_calendarVars /\ [ScheduleNext]_scheduleVars
  /\ [SubscriptionNext]_subscriptionVars /\ [SearchNext]_searchVars /\ [TogglesNext]_togglesVars
  /\ [BuilderNext]_builderVars

\* A step of one component is a step of that one and leaves the others alone.
LEMMA StepOfOne == [ServicesNext]_ServicesVars => EveryStep /\ component' = component
<1> SUFFICES ASSUME [ServicesNext]_ServicesVars PROVE EveryStep /\ component' = component
  OBVIOUS
<1>1. CASE PaymentStep
  BY <1>1 DEF PaymentStep, EveryStep
<1>2. CASE TourStep
  BY <1>2 DEF TourStep, EveryStep
<1>3. CASE WorkflowStep
  BY <1>3 DEF WorkflowStep, EveryStep
<1>4. CASE MeetingStep
  BY <1>4 DEF MeetingStep, EveryStep
<1>5. CASE AttendanceStep
  BY <1>5 DEF AttendanceStep, EveryStep
<1>6. CASE CacheStep
  BY <1>6 DEF CacheStep, EveryStep
<1>7. CASE WorkersStep
  BY <1>7 DEF WorkersStep, EveryStep
<1>8. CASE CalendarStep
  BY <1>8 DEF CalendarStep, EveryStep
<1>9. CASE ScheduleStep
  BY <1>9 DEF ScheduleStep, EveryStep
<1>10. CASE SubscriptionStep
  BY <1>10 DEF SubscriptionStep, EveryStep
<1>11. CASE SearchStep
  BY <1>11 DEF SearchStep, EveryStep
<1>12. CASE TogglesStep
  BY <1>12 DEF TogglesStep, EveryStep
<1>13. CASE BuilderStep
  BY <1>13 DEF BuilderStep, EveryStep
<1>14. CASE UNCHANGED ServicesVars
  BY <1>14 DEF ServicesVars, EveryStep
<1> QED
  BY <1>1, <1>2, <1>3, <1>4, <1>5, <1>6, <1>7, <1>8, <1>9, <1>10, <1>11, <1>12, <1>13, <1>14
  DEF ServicesNext

\* The run is a run of every component.
LEMMA EachRuns ==
  ServicesSpec =>
    /\ Spec /\ TourSpec /\ WorkflowSpec /\ MeetingSpec
    /\ AttendanceSpec /\ CacheSpec /\ WorkersSpec /\ CalendarSpec
    /\ ScheduleSpec /\ SubscriptionSpec /\ SearchSpec /\ TogglesSpec
    /\ BuilderSpec
<1>1. ServicesInit =>
        /\ Init /\ TourInit /\ WorkflowInit /\ MeetingInit
        /\ AttendanceInit /\ CacheInit /\ WorkersInit /\ CalendarInit
        /\ ScheduleInit /\ SubscriptionInit /\ SearchInit /\ TogglesInit
        /\ BuilderInit
  BY DEF ServicesInit
<1> QED
  BY <1>1, StepOfOne, PTL
  DEF ServicesSpec, EveryStep, Spec, TourSpec, WorkflowSpec, MeetingSpec, AttendanceSpec,
      CacheSpec, WorkersSpec, CalendarSpec, ScheduleSpec, SubscriptionSpec, SearchSpec, TogglesSpec,
      BuilderSpec

Components ==
  {"payment", "tour", "workflow", "meeting", "attendance", "cache", "workers", "calendar",
   "schedule", "subscription", "search", "toggles", "builder"}

\* Whichever component runs, its variables hold values of their types.
THEOREM ServicesTypes == ServicesSpec => []TypesOK
<1> DEFINE Chosen == component \in Components
<1>1. ServicesInit => Chosen
  BY DEF ServicesInit, Components
<1>2. Chosen /\ [ServicesNext]_ServicesVars => Chosen'
  BY StepOfOne
<1>3. ServicesSpec => []Chosen
  <2> HIDE DEF Chosen
  <2> QED BY <1>1, <1>2, PTL DEF ServicesSpec
<1> DEFINE AllTypesOK ==
             /\ TypeOK /\ TourTypeOK /\ WorkflowTypeOK
             /\ MeetingTypeOK /\ AttendanceTypeOK /\ CacheTypeOK
             /\ WorkersTypeOK /\ CalendarTypeOK /\ ScheduleTypeOK
             /\ SubscriptionTypeOK /\ SearchTypeOK /\ TogglesTypeOK
             /\ BuilderTypeOK
<1>4. ServicesSpec => []AllTypesOK
  BY EachRuns, PaymentTypes, TourTypes, WorkflowTypes, MeetingTypes, AttendanceTypes, CacheTypes,
     WorkersTypes, CalendarTypes, ScheduleTypes, SubscriptionTypes, SearchTypes, TogglesTypes,
     BuilderTypes, PTL
<1>5. Chosen /\ AllTypesOK => TypesOK
  <2> SUFFICES ASSUME Chosen, AllTypesOK PROVE TypesOK
    OBVIOUS
  <2>1. CASE component = "payment"
    BY <2>1 DEF TypesOK
  <2>2. CASE component = "tour"
    BY <2>2 DEF TypesOK
  <2>3. CASE component = "workflow"
    BY <2>3 DEF TypesOK
  <2>4. CASE component = "meeting"
    BY <2>4 DEF TypesOK
  <2>5. CASE component = "attendance"
    BY <2>5 DEF TypesOK
  <2>6. CASE component = "cache"
    BY <2>6 DEF TypesOK
  <2>7. CASE component = "workers"
    BY <2>7 DEF TypesOK
  <2>8. CASE component = "calendar"
    BY <2>8 DEF TypesOK
  <2>9. CASE component = "schedule"
    BY <2>9 DEF TypesOK
  <2>10. CASE component = "subscription"
    BY <2>10 DEF TypesOK
  <2>11. CASE component = "search"
    BY <2>11 DEF TypesOK
  <2>12. CASE component = "toggles"
    BY <2>12 DEF TypesOK
  <2>13. CASE component = "builder"
    BY <2>13 DEF TypesOK
  <2> QED
    BY <2>1, <2>2, <2>3, <2>4, <2>5, <2>6, <2>7, <2>8, <2>9, <2>10, <2>11, <2>12, <2>13
    DEF Components
<1> QED BY <1>3, <1>4, <1>5, PTL

\* What the run checks of a component holds in every behaviour of all of them: no
\* component is disturbed by which of them has been chosen.
THEOREM ServicesKeepPromises ==
  ServicesSpec =>
    /\ []PaidOrderOnTheBooks /\ []BooksMatchGateway
    /\ []SubscriptionOnTheBooks /\ []StatusFollowsHooks
    /\ []ScreenMatchesStore /\ NoStepSkipped
    /\ []RowRuns /\ []VersionsRun
    /\ EndIsFinal /\ ScheduleKept
    /\ []ListIsConnected /\ ListKeepsRoster
    /\ []StaleIsBounded /\ []SettledStays
    /\ []RunsOnce /\ []ServesPatient /\ []ChecksEveryLevel /\ []FindsWhatIsAsked
    /\ []DeletedTakesAttendees /\ BusyWhenEngaged /\ PutAloneTakesEffect
BY EachRuns, PaidOnTheBooks, BooksMatch, SubscriptionsAreOnTheBooks, HooksAreFollowed,
   ScreenMatches, NoSkip, RowsRun, ListedVersionsRun, MeetingEnds, MeetingOnTime,
   AttendanceIsConnected, AttendanceKeepsRoster, CacheIsFresh, SettledForGood,
   WorkersRunOnce, SearchServesPatient, ChecksAreHonest, FilterMeansWhatIsAsked,
   DeletionTakesAttendees, BusyJustWhenEngaged, CalendarPutTakesEffect, PTL
=============================================================================
