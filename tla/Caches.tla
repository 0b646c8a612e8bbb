------------------------------- MODULE Caches -------------------------------
(***************************************************************************)
(* The caches of one process in backend/app.py, filled and read by the     *)
(* threads of its routes without a lock.  The digest of a file is cached   *)
(* under the file's stat.  The deployment doctor's payload, the installed  *)
(* models and the release are cached with an expiry, each in a dictionary  *)
(* whose entries are read and written one by one, in an order of its own.  *)
(***************************************************************************)
EXTENDS Naturals

CONSTANTS
  Callers,      \* threads
  TTL,          \* ttl_seconds, in ticks
  MaxCacheTime, MaxVersions, MaxLookups  \* bounds

ASSUME CachesAssumption ==
  TTL \in Nat \ {0} /\ MaxVersions \in Nat \ {0} /\ {MaxCacheTime, MaxLookups} \subseteq Nat

VARIABLES
  cacheKind,    \* the cache that is looked up: none shares anything with another
  caller,       \* the lookup of each thread
  timed,        \* the payload, the expiry and the stat of each timed cache, and whether
                \* two requests that filled it at once may have left entries of both
  digest,       \* the stat and the digest of the digest cache
  version,      \* the version of the file behind the digest and of release.json
  cacheTime,    \* the clock
  lookups       \* lookups begun so far

cacheVars == <<cacheKind, caller, timed, digest, version, cacheTime, lookups>>

-----------------------------------------------------------------------------
Kinds == {"doctor", "models", "release"}

(* A payload is known by when it was computed and from which version. *)
Payloads == [at : 0 .. MaxCacheTime, version : 0 .. MaxVersions]
NoPayload == [at |-> 0, version |-> 0]
NoLookup == [kind |-> "digest", step |-> "idle", now |-> 0, stat |-> 0, payload |-> NoPayload,
             raced |-> FALSE]

CachesTypeOK ==
  /\ cacheKind \in Kinds \cup {"digest"}
  /\ caller \in [Callers -> [kind : Kinds \cup {"digest"},
       step : {"idle", "payload", "stat", "expiry", "compute", "store", "storeStat", "storeExpiry",
               "answer"},
       now : 0 .. MaxCacheTime, stat : 0 .. MaxVersions, payload : Payloads, raced : BOOLEAN]]
  /\ timed \in [Kinds -> [full : BOOLEAN, payload : Payloads, stat : 0 .. MaxVersions,
                          expires : 0 .. MaxCacheTime + TTL, mixed : BOOLEAN]]
  /\ digest \in [stat : 0 .. MaxVersions, payload : Payloads]
  /\ version \in 1 .. MaxVersions
  /\ cacheTime \in 0 .. MaxCacheTime
  /\ lookups \in 0 .. MaxLookups

CachesInit ==
  /\ cacheKind \in Kinds \cup {"digest"}
  /\ caller = [c \in Callers |-> NoLookup]
  /\ timed = [k \in Kinds |-> [full |-> FALSE, payload |-> NoPayload, stat |-> 0, expires |-> 0,
                            mixed |-> FALSE]]
  /\ digest = [stat |-> 0, payload |-> NoPayload]
  /\ version = 1
  /\ cacheTime = 0
  /\ lookups = 0

Move(c, step) == caller' = [caller EXCEPT ![c].step = step]
Filling(kind) == {c \in Callers : caller[c].kind = kind
                                  /\ caller[c].step \in {"store", "storeStat", "storeExpiry"}}
Reading(kind) == {c \in Callers : caller[c].kind = kind /\ caller[c].step \in {"payload", "stat", "expiry"}}

(* now, and the stat of the file, are taken first; the models' expiry is   *)
(* read before their list, the other payloads before their expiry.         *)
BeginLookup(c, kind) ==
  /\ kind = cacheKind
  /\ caller[c].step = "idle" /\ lookups < MaxLookups
  /\ lookups' = lookups + 1
  /\ caller' = [caller EXCEPT ![c] =
       [kind |-> kind, now |-> cacheTime, stat |-> version, payload |-> NoPayload,
        raced |-> kind \in Kinds /\ (Filling(kind) # {} \/ timed[kind].mixed), step |-> IF kind = "models" THEN "expiry" ELSE "payload"]]
  /\ UNCHANGED <<cacheKind, timed, digest, version, cacheTime>>

ReadPayload(c) ==
  LET kind == caller[c].kind entry == timed[kind] IN
  /\ caller[c].step = "payload" /\ kind \in Kinds
  /\ caller' = [caller EXCEPT ![c].payload = entry.payload,
       ![c].step = CASE kind = "models" -> "answer"
                     [] kind # "models" /\ ~entry.full -> "compute"
                     [] kind = "doctor" /\ entry.full -> "expiry"
                     [] kind = "release" /\ entry.full -> "stat"]
  /\ UNCHANGED <<cacheKind, timed, digest, version, cacheTime, lookups>>

ReadStat(c) ==
  /\ caller[c].step = "stat"
  /\ Move(c, IF timed["release"].stat = caller[c].stat THEN "expiry" ELSE "compute")
  /\ UNCHANGED <<cacheKind, timed, digest, version, cacheTime, lookups>>

ReadExpiry(c) ==
  LET kind == caller[c].kind IN
  /\ caller[c].step = "expiry"
  /\ Move(c, CASE timed[kind].expires <= caller[c].now -> "compute"
               [] timed[kind].expires > caller[c].now ->
                    IF kind = "models" THEN "payload" ELSE "answer")
  /\ UNCHANGED <<cacheKind, timed, digest, version, cacheTime, lookups>>

(* The checks, the request to Ollama (a failure is an empty list, and is   *)
(* kept as one), the reading of release.json.                              *)
Compute(c) ==
  /\ caller[c].step = "compute"
  /\ caller' = [caller EXCEPT ![c].payload = [at |-> cacheTime, version |-> version],
                              ![c].step = "store"]
  /\ UNCHANGED <<cacheKind, timed, digest, version, cacheTime, lookups>>

Racing(kind) == [c \in Callers |->
  IF c \in Reading(kind) THEN [caller[c] EXCEPT !.raced = TRUE] ELSE caller[c]]

Store(c) ==
  LET kind == caller[c].kind IN
  /\ caller[c].step = "store" /\ kind \in Kinds
  /\ timed' = [timed EXCEPT ![kind].full = TRUE, ![kind].payload = caller[c].payload,
                            ![kind].mixed = Filling(kind) # {c}]
  /\ caller' = [Racing(kind) EXCEPT ![c].step = IF kind = "release" THEN "storeStat" ELSE "storeExpiry"]
  /\ UNCHANGED <<cacheKind, digest, version, cacheTime, lookups>>

StoreStat(c) ==
  /\ caller[c].step = "storeStat"
  /\ timed' = [timed EXCEPT !["release"].stat = caller[c].stat]
  /\ caller' = [Racing("release") EXCEPT ![c].step = "storeExpiry"]
  /\ UNCHANGED <<cacheKind, digest, version, cacheTime, lookups>>

(* Faulty variant: the time to live starts when the entry is stored. *)
ExpiryFromStore(c) == cacheTime + TTL
Expiry(c) == caller[c].now + TTL

StoreExpiry(c) ==
  LET kind == caller[c].kind IN
  /\ caller[c].step = "storeExpiry"
  /\ timed' = [timed EXCEPT ![kind].expires = Expiry(c)]
  /\ caller' = [Racing(kind) EXCEPT ![c].step = "answer"]
  /\ UNCHANGED <<cacheKind, digest, version, cacheTime, lookups>>

-----------------------------------------------------------------------------
(* _cached_file_sha256: the stat was taken first; the entry is one tuple. *)
ReadDigest(c) ==
  /\ caller[c].step = "payload" /\ caller[c].kind = "digest"
  /\ caller' = [caller EXCEPT ![c].payload = digest.payload,
                  ![c].step = IF digest.stat = caller[c].stat THEN "answer" ELSE "compute"]
  /\ UNCHANGED <<cacheKind, timed, digest, version, cacheTime, lookups>>

StoreDigest(c) ==
  /\ caller[c].step = "store" /\ caller[c].kind = "digest"
  /\ digest' = [stat |-> caller[c].stat, payload |-> caller[c].payload]
  /\ Move(c, "answer")
  /\ UNCHANGED <<cacheKind, timed, version, cacheTime, lookups>>

EndLookup(c) ==
  /\ caller[c].step = "answer"
  /\ caller' = [caller EXCEPT ![c] = NoLookup]
  /\ UNCHANGED <<cacheKind, timed, digest, version, cacheTime, lookups>>

(* The file is written: every version has a stat of its own. *)
NewVersion ==
  /\ version < MaxVersions
  /\ version' = version + 1
  /\ UNCHANGED <<cacheKind, caller, timed, digest, cacheTime, lookups>>

CacheTick ==
  /\ cacheTime < MaxCacheTime
  /\ cacheTime' = cacheTime + 1
  /\ UNCHANGED <<cacheKind, caller, timed, digest, version, lookups>>

CachesNext ==
  \/ \E c \in Callers :
       \/ \E kind \in Kinds \cup {"digest"} : BeginLookup(c, kind)
       \/ ReadPayload(c) \/ ReadStat(c) \/ ReadExpiry(c) \/ Compute(c)
       \/ Store(c) \/ StoreStat(c) \/ StoreExpiry(c)
       \/ ReadDigest(c) \/ StoreDigest(c) \/ EndLookup(c)
  \/ NewVersion \/ CacheTick

CachesSpec == CachesInit /\ [][CachesNext]_cacheVars

-----------------------------------------------------------------------------
(* A timed cache answers with what was computed less than the time to live *)
(* before the request, and the release with the file as it was then or     *)
(* later, unless another request filled the cache while this one read it   *)
(* or two requests filled it at once.                                      *)
(* A digest is always of the file as it was since the request began.       *)
CachesFresh ==
  \A c \in Callers :
    caller[c].step = "answer" =>
      /\ caller[c].kind \in Kinds /\ ~caller[c].raced => caller[c].payload.at + TTL > caller[c].now
      /\ caller[c].kind = "release" /\ ~caller[c].raced => caller[c].payload.version >= caller[c].stat
      /\ caller[c].kind = "digest" => caller[c].payload.version >= caller[c].stat
=============================================================================
