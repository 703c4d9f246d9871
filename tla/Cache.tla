------------------------------- MODULE Cache --------------------------------
(***************************************************************************)
(* The cache mixin: a repository whose find and findById answer from Redis *)
(* what an earlier read has saved there (CacheRespositoryMixin).           *)
(*                                                                         *)
(* The database is the number of its last write.  What a read finds there  *)
(* is its query and that number.  A read searches the cache, then reads    *)
(* the database, and answers in that step: the save that follows is not    *)
(* awaited, so it lands later, or fails.  Redis runs one command, and the  *)
(* script of clearCache, at a time.                                        *)
(***************************************************************************)
EXTENDS Naturals

CONSTANTS
  Reader,      \* those who read, one query at a time each
  Queries,     \* [op, id, head, tail]: id is 0 for find, and for findById(0);
               \* head and tail are the filter, what bcrypt hashes and the rest
  NoQuery,
  TTL,         \* ttl
  SaveDelay,   \* what a save takes at most
  MaxVersion,  \* bound: how many writes
  MaxTime      \* bound: the last instant

ASSUME CacheAssumption ==
  /\ TTL \in Nat /\ SaveDelay \in Nat /\ MaxVersion \in Nat /\ MaxTime \in Nat
  /\ NoQuery \notin Queries

VARIABLES
  now,
  version,    \* database: its last write
  writtenAt,  \* history: when each write was made
  cached,     \* Redis: what each key holds, and until when
  reading,    \* the query of each reader
  phaseOf,    \* how far it is
  found,      \* what it has found in the database and not saved yet, and when
  settled     \* history: the version each key was last left with

cacheVars ==
  <<now, version, writtenAt, cached, reading, phaseOf, found, settled>>

NotFoundYet == [version |-> 0, at |-> 0]
NoEntry == [query |-> NoQuery, version |-> 0, expires |-> 0]

\* generateKey: an id that is 0 adds nothing to the key, and bcrypt hashes
\* the first 72 bytes.
KeyOf(q) == <<q.id, q.head>>
Keys == {KeyOf(q) : q \in Queries}

Saving == {r \in Reader : phaseOf[r] = "save"}

-----------------------------------------------------------------------------

\* find and findById, with forceUpdate or without.
Read(r, q, forceUpdate) ==
  /\ phaseOf[r] = "idle"
  /\ reading' = [reading EXCEPT ![r] = q]
  /\ phaseOf' = [phaseOf EXCEPT ![r] = IF forceUpdate THEN "find" ELSE "search"]
  /\ UNCHANGED <<now, version, writtenAt, cached, found, settled>>

Kept(key) == cached[key] # NoEntry           \* mutant: entries do not expire
Held(key) == now < cached[key].expires

Done(r) ==
  /\ reading' = [reading EXCEPT ![r] = NoQuery]
  /\ found' = [found EXCEPT ![r] = NotFoundYet]
  /\ phaseOf' = [phaseOf EXCEPT ![r] = "idle"]

SearchInCache(r) ==
  /\ phaseOf[r] = "search"
  /\ IF Held(KeyOf(reading[r])) THEN Done(r)
     ELSE /\ phaseOf' = [phaseOf EXCEPT ![r] = "find"]
          /\ UNCHANGED <<reading, found>>
  /\ UNCHANGED <<now, version, writtenAt, cached, settled>>

FindInDatabase(r) ==
  /\ phaseOf[r] = "find"
  /\ found' = [found EXCEPT ![r] = [version |-> version, at |-> now]]
  /\ phaseOf' = [phaseOf EXCEPT ![r] = "save"]
  /\ UNCHANGED <<now, version, writtenAt, cached, reading, settled>>

SavedIfAbsent(r) ==                          \* mutant: a live entry stays
  IF Held(KeyOf(reading[r])) THEN cached
  ELSE [cached EXCEPT ![KeyOf(reading[r])] =
          [query |-> reading[r], version |-> found[r].version, expires |-> now + TTL]]
Saved(r) ==
  [cached EXCEPT ![KeyOf(reading[r])] =
     [query |-> reading[r], version |-> found[r].version, expires |-> now + TTL]]

SaveInCache(r) ==
  /\ phaseOf[r] = "save"
  /\ cached' = Saved(r)
  /\ settled' = IF Saving = {r}
                THEN [settled EXCEPT ![KeyOf(reading[r])] = found[r].version]
                ELSE settled
  /\ Done(r)
  /\ UNCHANGED <<now, version, writtenAt>>

\* Redis or the database fails, or the service stops.
ReadFails(r) ==
  /\ phaseOf[r] # "idle"
  /\ Done(r)
  /\ UNCHANGED <<now, version, writtenAt, cached, settled>>

\* clearCache: every key begins with the prefix.
ClearCache ==
  /\ cached' = [key \in Keys |-> NoEntry]
  /\ settled' = IF Saving = {} THEN [key \in Keys |-> version] ELSE settled
  /\ UNCHANGED <<now, version, writtenAt, reading, phaseOf, found>>

Write ==
  /\ version < MaxVersion
  /\ version' = version + 1
  /\ writtenAt' = [writtenAt EXCEPT ![version + 1] = now]
  /\ UNCHANGED <<now, cached, reading, phaseOf, found, settled>>

Pass ==
  /\ now < MaxTime
  /\ \A r \in Saving : now < found[r].at + SaveDelay
  /\ now' = now + 1
  /\ UNCHANGED <<version, writtenAt, cached, reading, phaseOf, found, settled>>

CacheInit ==
  /\ now = 0
  /\ version = 0
  /\ writtenAt = [v \in 1 .. MaxVersion |-> 0]
  /\ cached = [key \in Keys |-> NoEntry]
  /\ reading = [r \in Reader |-> NoQuery]
  /\ phaseOf = [r \in Reader |-> "idle"]
  /\ found = [r \in Reader |-> NotFoundYet]
  /\ settled = [key \in Keys |-> 0]

CacheNext ==
  \/ ClearCache \/ Write \/ Pass
  \/ \E r \in Reader :
       \/ \E q \in Queries, forceUpdate \in BOOLEAN : Read(r, q, forceUpdate)
       \/ SearchInCache(r) \/ FindInDatabase(r) \/ SaveInCache(r) \/ ReadFails(r)

CacheSpec == CacheInit /\ [][CacheNext]_cacheVars

-----------------------------------------------------------------------------
(* What the code guarantees.                                               *)

CacheTypeOK ==
  /\ now \in 0 .. MaxTime /\ version \in 0 .. MaxVersion
  /\ writtenAt \in [1 .. MaxVersion -> 0 .. MaxTime]
  /\ cached \in [Keys -> [query : Queries \union {NoQuery}, version : 0 .. MaxVersion,
                          expires : 0 .. MaxTime + TTL]]
  /\ reading \in [Reader -> Queries \union {NoQuery}]
  /\ phaseOf \in [Reader -> {"idle", "search", "find", "save"}]
  /\ found \in [Reader -> [version : 0 .. MaxVersion, at : 0 .. MaxTime]]
  /\ settled \in [Keys -> 0 .. MaxVersion]

\* README: ttl is "the amount of time for which stale data is acceptable".
\* The save is not awaited, so what it takes adds to that: what the cache
\* would answer misses no write that is ttl and a save's delay old, forced
\* updates, clears and reads that overtake each other included.
StaleIsBounded ==
  \A key \in Keys, v \in 1 .. version :
    Held(key) /\ now >= writtenAt[v] + TTL + SaveDelay => cached[key].version >= v

\* What clearCache or a save leaves in the cache while no other save is in
\* flight is not followed by anything older: cleared data does not come back
\* and a forced update is not undone, whatever was being read at the time.
SettledStays ==
  \A key \in Keys : Held(key) => cached[key].version >= settled[key]

\* README: the key is "of the sort - 'prefix_id_filter'": what one query has
\* saved does not answer another.
AnswersItsQuery ==
  \A r \in Reader :
    phaseOf[r] = "search" /\ Held(KeyOf(reading[r])) =>
      cached[KeyOf(reading[r])].query = reading[r]

=============================================================================
