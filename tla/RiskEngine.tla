----------------------------- MODULE RiskEngine -----------------------------
(***************************************************************************)
(* backend/risk_engine.py: every process keeps a list of interceptions,    *)
(* counts an actor's PII attempts of the last hour in it, and saves the    *)
(* whole list to Redis and to a file after each one.  A list is loaded     *)
(* only when the process starts.  The engine's lock is of one process.     *)
(***************************************************************************)
EXTENDS Naturals, FiniteSets, Deployment

CONSTANTS
  RiskActors,   \* actors
  Hour, Week,   \* the two windows, in ticks of the clock
  Threshold,    \* PII_QUARANTINE_THRESHOLD
  MaxRecords,   \* bound on the interceptions, by the number of processes that serve
  MaxRiskTime,  \* bound on the clock
  MaxRiskFaults \* bound on kills and Redis outages, likewise

ASSUME WindowsAssumption == Hour \in Nat /\ Week \in Nat /\ Hour <= Week
ASSUME RiskAssumption ==
  RiskActors # {} /\ MaxRiskTime \in Nat /\ MaxRiskFaults \in [1 .. Cardinality(Servers) -> Nat]

VARIABLES
  serving,      \* the processes that are started
  engine,       \* the engine of each process
  riskRedis,    \* [up, events]: the Redis key
  riskFile,     \* [whole, events]: oracle_risk_state.json
  riskTime,     \* the clock
  recorded,     \* a history: every interception
  riskFaults,   \* kills and outages so far
  excused       \* a history: a save was cut off, or missed Redis

riskVars == <<serving, engine, riskRedis, riskFile, riskTime, recorded, riskFaults, excused>>

-----------------------------------------------------------------------------
RiskEvents == [nr : Nat \ {0}, actor : RiskActors, at : 0 .. MaxRiskTime, pii : BOOLEAN]

RiskTypeOK ==
  /\ serving \in SUBSET Servers
  /\ engine \in [Servers -> [up : BOOLEAN, events : SUBSET RiskEvents,
       stage : {"idle", "redis", "truncate", "write"}, actor : RiskActors, review : BOOLEAN]]
  /\ riskRedis \in [up : BOOLEAN, used : BOOLEAN, events : SUBSET RiskEvents]
  /\ riskFile \in [whole : BOOLEAN, events : SUBSET RiskEvents]
  /\ riskTime \in 0 .. MaxRiskTime
  /\ recorded \subseteq RiskEvents
  /\ riskFaults \in 0 .. MaxRiskFaults[Cardinality(serving)]
  /\ excused \in BOOLEAN

(* _recent_events(days=7) *)
Recent(events) == {e \in events : e.at + Week >= riskTime}

(* profile: an actor's PII attempts of the last hour, of injections too. *)
Attempts(events, a) == {e \in events : e.actor = a /\ e.pii /\ e.at + Hour >= riskTime}
OverThreshold(events, a) == Cardinality(Attempts(events, a)) > Threshold

(* heatmap: who is to be reviewed. *)
ReviewUsers(s) == {a \in RiskActors : OverThreshold(engine[s].events, a)}

RiskInit ==
  /\ \E n \in 1 .. Cardinality(Servers) :
       serving = CHOOSE w \in SUBSET Servers : Cardinality(w) = n
  /\ engine = [s \in Servers |-> [up |-> s \in serving, events |-> {}, stage |-> "idle",
                                  actor |-> CHOOSE a \in RiskActors : TRUE, review |-> FALSE]]
  /\ \E redis \in BOOLEAN : riskRedis = [up |-> redis, used |-> redis, events |-> {}]
  /\ riskFile = [whole |-> TRUE, events |-> {}]
  /\ riskTime = 0
  /\ recorded = {}
  /\ riskFaults = 0
  /\ excused = FALSE

(* Faulty variant: a new interception replaces the actor's earlier ones. *)
WithLatest(events, e) == Recent({f \in events : f.actor # e.actor} \cup {e})
WithNew(events, e) == Recent(events \cup {e})

(***************************************************************************)
(* record_interception, under the lock of process s: append, drop what is  *)
(* older than a week, then _save_events: Redis, truncation, write.         *)
(***************************************************************************)
Intercept(s, a, pii) ==
  LET e == [nr |-> Cardinality(recorded) + 1, actor |-> a, at |-> riskTime, pii |-> pii] IN
  /\ engine[s].up /\ engine[s].stage = "idle"
  /\ Cardinality(recorded) < MaxRecords[Cardinality(serving)]
  /\ engine' = [engine EXCEPT ![s].events = WithNew(@, e), ![s].stage = "redis", ![s].actor = a]
  /\ recorded' = recorded \cup {e}
  /\ UNCHANGED <<serving, riskRedis, riskFile, riskTime, riskFaults, excused>>

SaveToRedis(s) ==
  /\ engine[s].stage = "redis"
  /\ engine' = [engine EXCEPT ![s].stage = "truncate"]
  /\ riskRedis' = IF riskRedis.up THEN [riskRedis EXCEPT !.events = engine[s].events] ELSE riskRedis
  /\ excused' = (excused \/ (riskRedis.used /\ ~riskRedis.up))
  /\ UNCHANGED <<serving, riskFile, riskTime, recorded, riskFaults>>

(* open(..., "w") *)
TruncateFile(s) ==
  /\ engine[s].stage = "truncate"
  /\ engine' = [engine EXCEPT ![s].stage = "write"]
  /\ riskFile' = [whole |-> FALSE, events |-> {}]
  /\ UNCHANGED <<serving, riskRedis, riskTime, recorded, riskFaults, excused>>

(* The file is whole here only if another process has written it since the *)
(* truncation: what is written over that may leave a tail of it.           *)
WriteFile(s) ==
  /\ engine[s].stage = "write"
  /\ engine' = [engine EXCEPT ![s].stage = "idle",
       ![s].review = OverThreshold(engine[s].events, engine[s].actor)]
  /\ \/ riskFile' = [whole |-> TRUE, events |-> engine[s].events]
     \/ riskFile.whole /\ riskFile' = [whole |-> FALSE, events |-> {}]
  /\ UNCHANGED <<serving, riskRedis, riskTime, recorded, riskFaults, excused>>

KillEngine(s) ==
  /\ engine[s].up /\ riskFaults < MaxRiskFaults[Cardinality(serving)]
  /\ engine' = [engine EXCEPT ![s].up = FALSE, ![s].stage = "idle"]
  /\ riskFaults' = riskFaults + 1
  /\ excused' = (excused \/ engine[s].stage # "idle")
  /\ UNCHANGED <<serving, riskRedis, riskFile, riskTime, recorded>>

(* _load_events: Redis first if it holds anything, a torn file is empty. *)
Loaded ==
  IF riskRedis.up /\ riskRedis.events # {} THEN riskRedis.events
  ELSE IF riskFile.whole THEN riskFile.events ELSE {}

StartEngine(s) ==
  /\ ~engine[s].up /\ s \in serving
  /\ engine' = [engine EXCEPT ![s].up = TRUE, ![s].events = Loaded, ![s].review = FALSE]
  /\ UNCHANGED <<serving, riskRedis, riskFile, riskTime, recorded, riskFaults, excused>>

RedisOutage ==
  /\ riskRedis.used
  /\ riskRedis.up => riskFaults < MaxRiskFaults[Cardinality(serving)]
  /\ riskFaults' = IF riskRedis.up THEN riskFaults + 1 ELSE riskFaults
  /\ riskRedis' = [riskRedis EXCEPT !.up = ~@]
  /\ UNCHANGED <<serving, engine, riskFile, riskTime, recorded, excused>>

RiskTick ==
  /\ riskTime < MaxRiskTime
  /\ riskTime' = riskTime + 1
  /\ UNCHANGED <<serving, engine, riskRedis, riskFile, recorded, riskFaults, excused>>

RiskNext ==
  \/ \E s \in Servers :
       \/ \E a \in RiskActors, pii \in BOOLEAN : Intercept(s, a, pii)
       \/ SaveToRedis(s) \/ TruncateFile(s) \/ WriteFile(s)
       \/ KillEngine(s) \/ StartEngine(s)
  \/ RedisOutage
  \/ RiskTick

RiskSpec == RiskInit /\ [][RiskNext]_riskVars

-----------------------------------------------------------------------------
(* Where one process serves alone, the review users of its heatmap are     *)
(* those with too many PII attempts within the hour, before and after      *)
(* restarts, with Redis or without; the exceptions are a kill in the       *)
(* middle of a save and a save that Redis missed.                          *)
ReviewsExact ==
  Cardinality(serving) = 1 /\ ~excused =>
    \A s \in Servers : engine[s].up =>
      ReviewUsers(s) = {a \in RiskActors : OverThreshold(recorded, a)}
=============================================================================
