----------------------------- MODULE ApiShield -----------------------------
(***************************************************************************)
(* backend/api_shield.py: the middleware in front of every route.  It      *)
(* turns requests away by path, length and client certificate, and keeps a *)
(* request and cost budget for every caller, in the memory of the process  *)
(* that serves it.  check runs in the event loop without an await.         *)
(***************************************************************************)
EXTENDS Integers

CONSTANTS
  ShieldServers, \* the processes, each with buckets of its own
  Calls,        \* the requests that clients may send
  MaxCalls,     \* max_requests
  MaxCost,      \* max_cost_usd
  Window,       \* window_seconds
  MaxShieldTime \* bound on the clock

ASSUME ShieldAssumption ==
  MaxCalls \in Nat \ {0} /\ MaxCost \in Nat /\ Window \in Nat \ {0} /\ MaxShieldTime \in Nat

VARIABLES
  enforceMtls,  \* API_SHIELD_ENFORCE_MTLS
  buckets,      \* the budget of each caller in each process
  shieldTime,   \* the clock
  served,       \* a history: what each process let through for whom before each time
  refused       \* a history: the last refusal, and what was served then

shieldVars == <<enforceMtls, buckets, shieldTime, served, refused>>

-----------------------------------------------------------------------------
(* The key of a caller: the certificate, else what authorization says,     *)
(* else its address ("none": absent).                                      *)
ActorKey(c) ==
  IF c.fingerprint # "none" THEN c.fingerprint
  ELSE IF c.authorization # "none" THEN c.authorization ELSE c.host
ActorKeys == {ActorKey(c) : c \in Calls}

Times == 0 .. MaxShieldTime
Ends == 0 .. MaxShieldTime + 1
Budget == [started : Times, requests : 0 .. MaxCalls, cost : 0 .. MaxCost]
Reasons == {"none", "NOT_FOUND", "REQUEST_TOO_LARGE", "INVALID_CONTENT_LENGTH",
            "MTLS_CLIENT_CERT_REQUIRED", "RATE_LIMIT_EXCEEDED", "COST_BUDGET_EXCEEDED"}

ShieldTypeOK ==
  /\ enforceMtls \in BOOLEAN
  /\ \A s \in ShieldServers : /\ DOMAIN buckets[s] \subseteq ActorKeys
                        /\ \A k \in DOMAIN buckets[s] : buckets[s][k] \in Budget
  /\ shieldTime \in Times
  /\ served \in [ShieldServers -> [ActorKeys -> [Ends -> [requests : Nat, cost : Nat]]]]
  /\ refused.reason \in Reasons /\ refused.count \in Nat /\ refused.cost \in Nat

(* _require_mtls *)
CertMissing(c) == enforceMtls /\ (~c.verified \/ c.fingerprint = "none")

(* dispatch, until the limiter: the reason for turning a request away. *)
Denied(c) ==
  IF c.path = "suspicious" THEN "NOT_FOUND"
  ELSE IF c.length = "large" THEN "REQUEST_TOO_LARGE"
  ELSE IF c.length = "malformed" THEN "INVALID_CONTENT_LENGTH"
  ELSE IF c.path = "protected" /\ CertMissing(c) THEN "MTLS_CLIENT_CERT_REQUIRED"
  ELSE "none"

(* _estimate_request_cost: a negative or malformed header costs nothing. *)
EstimatedCost(c) == IF c.tokens \in Nat THEN c.tokens ELSE 0

Over(b) == shieldTime - b.started > Window

(* Faulty variant: a new budget does not know when it starts. *)
FreshUnstarted == [started |-> 0, requests |-> 0, cost |-> 0]
Fresh == [started |-> shieldTime, requests |-> 0, cost |-> 0]
(* The caller's budget of the current window. *)
Current(s, k) ==
  IF k \notin DOMAIN buckets[s] THEN Fresh
  ELSE IF Over(buckets[s][k]) THEN Fresh ELSE buckets[s][k]

Verdict(b, cost) ==
  IF b.requests + 1 > MaxCalls THEN "RATE_LIMIT_EXCEEDED"
  ELSE IF b.cost + cost > MaxCost THEN "COST_BUDGET_EXCEEDED" ELSE "none"

(* Only what is let through is charged. *)
Charged(b, cost) ==
  IF Verdict(b, cost) = "none" THEN [b EXCEPT !.requests = @ + 1, !.cost = @ + cost] ELSE b

(* What process s let through for a caller in a window's length. *)
InWindow(s, k, from) ==
  LET before == served[s][k]
      end == IF from + Window < MaxShieldTime THEN from + Window + 1 ELSE MaxShieldTime + 1 IN
  [requests |-> before[end].requests - before[from].requests,
   cost |-> before[end].cost - before[from].cost]

ShieldInit ==
  /\ enforceMtls \in BOOLEAN
  /\ buckets = [s \in ShieldServers |-> << >>]
  /\ shieldTime = 0
  /\ served = [s \in ShieldServers |-> [k \in ActorKeys |-> [t \in Ends |-> [requests |-> 0, cost |-> 0]]]]
  /\ refused = [reason |-> "none", count |-> 0, cost |-> 0, asked |-> 0]

(* A request that never reaches the limiter. *)
TurnedAway(s, c) ==
  /\ Denied(c) # "none" \/ c.path = "open"
  /\ refused' = [reason |-> Denied(c), count |-> 0, cost |-> 0, asked |-> 0]
  /\ UNCHANGED <<enforceMtls, buckets, shieldTime, served>>

(* A protected request: check. *)
Checked(s, c) ==
  LET k == ActorKey(c)
      b == Current(s, k)
      cost == EstimatedCost(c)
      since == IF shieldTime > Window THEN shieldTime - Window ELSE 0
      earlier == InWindow(s, k, since) IN
  /\ Denied(c) = "none" /\ c.path = "protected"
  /\ buckets' = [buckets EXCEPT ![s] =
       [key \in DOMAIN @ \cup {k} |-> IF key = k THEN Charged(b, cost) ELSE @[key]]]
  /\ served' = IF Verdict(b, cost) = "none"
                 THEN [served EXCEPT ![s][k] = [t \in Ends |->
                         IF t <= shieldTime THEN @[t]
                         ELSE [requests |-> @[t].requests + 1, cost |-> @[t].cost + cost]]]
                 ELSE served
  /\ refused' = [reason |-> Verdict(b, cost), count |-> earlier.requests,
                 cost |-> earlier.cost, asked |-> cost]
  /\ UNCHANGED <<enforceMtls, shieldTime>>

ShieldTick ==
  /\ shieldTime < MaxShieldTime
  /\ shieldTime' = shieldTime + 1
  /\ UNCHANGED <<enforceMtls, buckets, served, refused>>

ShieldNext ==
  \/ \E s \in ShieldServers, c \in Calls : TurnedAway(s, c) \/ Checked(s, c)
  \/ ShieldTick

ShieldSpec == ShieldInit /\ [][ShieldNext]_shieldVars

-----------------------------------------------------------------------------
(* The windows are fixed and start with a caller's first request: within   *)
(* any stretch as long as a window a process lets at most twice the        *)
(* requests and twice the cost through, for every caller it has a budget of. *)
WindowBound ==
  \A s \in ShieldServers : \A k \in DOMAIN buckets[s], from \in Times :
    LET calls == InWindow(s, k, from) IN
    calls.requests <= 2 * MaxCalls /\ calls.cost <= 2 * MaxCost

(* Nobody is refused for what he did before the last window: when a caller *)
(* is told that a limit is reached, what the process let through for him   *)
(* within one window's length does reach it.                               *)
RefusalsEarned ==
  /\ refused.reason = "RATE_LIMIT_EXCEEDED" => refused.count >= MaxCalls
  /\ refused.reason = "COST_BUDGET_EXCEEDED" => refused.cost + refused.asked > MaxCost

(* The limits let through neither too much nor too little. *)
LimitsExact == WindowBound /\ RefusalsEarned
=============================================================================
