---------------------------- MODULE RecordProofs ----------------------------
(***************************************************************************)
(* Theorems about the records and caches a process keeps beside the        *)
(* ledger: the budgets of the API shield (ApiShield), the license file     *)
(* (LicenseRegister), the consents (ConsentRegister), the monitoring loops *)
(* (ShadowDetector), the caches (Caches) and the risk engine's list        *)
(* (RiskEngine), each for any number of actors, calls, files and           *)
(* processes.                                                              *)
(***************************************************************************)
EXTENDS ApiShield, LicenseRegister, ConsentRegister, ShadowDetector, Caches, RiskEngine,
        FiniteSetTheorems, WellFoundedInduction, TLAPS

(* f[t] is what was let through before the time t; the budget of the actor,  *)
(* if he has one, began at start and has counted n since, at most the limit. *)
(* In what it counts the window that began with the budget stays within the  *)
(* limit, and any window within twice of it.                                 *)
Metered(f, has, start, n, now, limit) ==
  /\ \A t \in Ends : t > now => f[t] = f[now + 1]
  /\ \A t, u \in Ends : t <= u => f[t] <= f[u]
  /\ ~has => f[now + 1] = 0
  /\ has => /\ start \in Times /\ start <= now /\ n \in 0 .. limit
            /\ f[now + 1] = f[start] + n
            /\ \A t \in Ends : t > start + Window => f[t] = f[now + 1]
            /\ \A t \in Ends : t <= start /\ start <= t + Window => f[start] <= f[t] + limit
            /\ \A t, u \in Ends : t <= u /\ u <= t + Window + 1 => f[u] <= f[t] + 2 * limit

(* The times, and the moments up to which calls are counted, are numbers. *)
LEMMA EndsAre == /\ Times \subseteq Ends /\ Ends \subseteq Nat /\ Times \subseteq Nat
                 /\ MaxShieldTime + 1 \in Ends
                 /\ \A t \in Times : t + 1 \in Ends
BY ShieldAssumption DEF Times, Ends

(* Time that passes leaves a meter as it is. *)
LEMMA MeterTick ==
  ASSUME NEW f \in [Ends -> Nat], NEW has \in BOOLEAN, NEW start, NEW n, NEW now \in Times, NEW limit \in Nat,
         now < MaxShieldTime, Metered(f, has, start, n, now, limit)
  PROVE  Metered(f, has, start, n, now + 1, limit)
<1>1. now + 1 \in Ends /\ now + 2 \in Ends /\ now \in Nat /\ now + 1 + 1 = now + 2
  BY ShieldAssumption DEF Times, Ends
<1>2. \A t \in Ends : t > now => f[t] = f[now + 1]
  BY DEF Metered
<1>3. f[now + 2] = f[now + 1]
  BY <1>1, <1>2
<1>4. \A t \in Ends : t > now + 1 => f[t] = f[now + 2]
  BY <1>1, <1>2, <1>3, EndsAre
<1>5. ASSUME has
      PROVE  start \in Times /\ start <= now + 1
  <2>1. start \in Times /\ start <= now BY <1>5 DEF Metered
  <2>2. start \in Nat BY <2>1, EndsAre
  <2> QED BY <2>1, <2>2, <1>1
<1>6. \A t, u \in Ends : t <= u => f[t] <= f[u]
  BY DEF Metered
<1>7. ~has => f[now + 2] = 0
  BY <1>3 DEF Metered
<1>8. has => /\ n \in 0 .. limit
             /\ f[now + 2] = f[start] + n
             /\ \A t \in Ends : t > start + Window => f[t] = f[now + 2]
             /\ \A t \in Ends : t <= start /\ start <= t + Window => f[start] <= f[t] + limit
             /\ \A t, u \in Ends : t <= u /\ u <= t + Window + 1 => f[u] <= f[t] + 2 * limit
  BY <1>3 DEF Metered
<1>9. f[now + 1 + 1] = f[now + 2]
  BY <1>1
<1> QED BY <1>4, <1>5, <1>6, <1>7, <1>8, <1>9 DEF Metered

(* A call that is let through and charged, to the budget there is or to a    *)
(* fresh one, keeps the meter right: a fresh budget begins only where the    *)
(* old one's window is over.                                                 *)
LEMMA MeterCharge ==
  ASSUME NEW f \in [Ends -> Nat], NEW has \in BOOLEAN, NEW start, NEW n, NEW now \in Times, NEW limit \in Nat,
         Metered(f, has, start, n, now, limit),
         NEW st, NEW m, NEW x \in Nat,
         IF has /\ ~(now - start > Window) THEN st = start /\ m = n ELSE st = now /\ m = 0,
         m + x <= limit,
         NEW g, g = [t \in Ends |-> IF t <= now THEN f[t] ELSE f[t] + x]
  PROVE  Metered(g, TRUE, st, m + x, now, limit)
<1>1. /\ \A t \in Ends : t > now => f[t] = f[now + 1]
      /\ \A t, u \in Ends : t <= u => f[t] <= f[u]
  BY DEF Metered
<1>2. now \in Nat /\ now + 1 \in Ends /\ now \in Ends /\ Ends \subseteq Nat
  BY EndsAre
<1>3. \A t \in Ends : g[t] = IF t <= now THEN f[t] ELSE f[t] + x
  OBVIOUS
<1>4. \A t \in Ends : f[t] \in Nat /\ g[t] \in Nat
  BY <1>3
<1>5. \A t \in Ends : t > now => g[t] = g[now + 1]
  <2> SUFFICES ASSUME NEW t \in Ends, t > now PROVE g[t] = g[now + 1] OBVIOUS
  <2>1. g[t] = f[t] + x /\ g[now + 1] = f[now + 1] + x BY <1>2, <1>3
  <2> QED BY <2>1, <1>1
<1>6. \A t, u \in Ends : t <= u => g[t] <= g[u]
  <2> SUFFICES ASSUME NEW t \in Ends, NEW u \in Ends, t <= u PROVE g[t] <= g[u] OBVIOUS
  <2>1. f[t] <= f[u] /\ f[t] \in Nat /\ f[u] \in Nat BY <1>1, <1>4
  <2>2. t \in Nat /\ u \in Nat BY <1>2
  <2> QED BY <2>1, <2>2, <1>2, <1>3
(* The budget that is charged: the old one, or a fresh one.                *)
<1>7. /\ st \in Times /\ st <= now /\ m \in Nat /\ f[now + 1] = f[st] + m
      /\ \A t \in Ends : t <= st /\ st <= t + Window => f[st] <= f[t] + limit
  <2>1. CASE has /\ ~(now - start > Window)
    BY <2>1 DEF Metered
  <2>2. CASE ~has
    <3>1. st = now /\ m = 0 /\ f[now + 1] = 0 BY <2>2 DEF Metered
    <3>2. \A t \in Ends : t <= now + 1 => f[t] = 0 BY <3>1, <1>1, <1>2, <1>4
    <3>3. f[now] = 0 BY <3>2, <1>2
    <3> QED BY <3>1, <3>2, <3>3, <1>2, <1>4, EndsAre
  <2>3. CASE has /\ now - start > Window
    <3>1. st = now /\ m = 0 BY <2>3
    <3>2. start \in Times /\ start \in Nat /\ start \in Ends /\ n \in 0 .. limit /\ f[now + 1] = f[start] + n
      BY <2>3, EndsAre DEF Metered
    <3>3. ASSUME NEW t \in Ends, t <= now, now <= t + Window PROVE f[now] <= f[t] + limit
      <4>1. start <= t BY <2>3, <3>2, <3>3, <1>2, ShieldAssumption
      <4>2. f[start] <= f[t] /\ f[now] <= f[now + 1] BY <4>1, <3>2, <1>1, <1>2
      <4>3. f[start] \in Nat /\ f[t] \in Nat /\ f[now] \in Nat /\ f[now + 1] \in Nat BY <3>2, <1>2, <1>4
      <4> QED BY <4>2, <4>3, <3>2
    <3>4. f[now + 1] = f[now]
      <4>1. now > start + Window BY <2>3, <3>2, <1>2, ShieldAssumption
      <4>2. \A t \in Ends : t > start + Window => f[t] = f[now + 1] BY <2>3 DEF Metered
      <4> QED BY <4>1, <4>2, <1>2
    <3> QED BY <3>1, <3>3, <3>4, <1>2, <1>4
  <2> QED BY <2>1, <2>2, <2>3
<1>8. st \in Nat /\ st \in Ends /\ f[st] \in Nat BY <1>7, <1>4, EndsAre
<1>9. g[st] = f[st] /\ g[now + 1] = f[now + 1] + x
  BY <1>2, <1>3, <1>7, <1>8
<1>10. g[now + 1] = g[st] + (m + x)
  BY <1>7, <1>8, <1>9
<1>11. ASSUME NEW t \in Ends, t <= st, st <= t + Window PROVE g[st] <= g[t] + limit
  <2>1. g[t] = f[t] BY <1>11, <1>2, <1>3, <1>7, <1>8
  <2> QED BY <2>1, <1>7, <1>9, <1>11
<1>12. ASSUME NEW t \in Ends, NEW u \in Ends, t <= u, u <= t + Window + 1 PROVE g[u] <= g[t] + 2 * limit
  <2>0. t \in Nat /\ u \in Nat /\ f[t] \in Nat /\ f[u] \in Nat /\ f[now + 1] \in Nat BY <1>2, <1>4
  <2>1. CASE u <= now
    <3>1. g[u] = f[u] /\ g[t] = f[t] BY <2>0, <2>1, <1>2, <1>3, <1>12
    <3>2. f[u] <= f[t] + 2 * limit
      <4>1. CASE has BY <4>1, <1>12 DEF Metered
      <4>2. CASE ~has
        <5>1. f[now + 1] = 0 BY <4>2 DEF Metered
        <5>2. f[u] <= f[now + 1] BY <2>0, <2>1, <1>1, <1>2
        <5> QED BY <5>1, <5>2, <2>0
      <4> QED BY <4>1, <4>2
    <3> QED BY <3>1, <3>2
  <2>2. CASE u > now /\ t > now
    <3>1. g[u] = g[now + 1] /\ g[t] = g[now + 1] BY <2>2, <1>5
    <3>2. g[now + 1] \in Nat BY <1>2, <1>4
    <3> QED BY <3>1, <3>2
  <2>3. CASE u > now /\ t <= now /\ t <= st
    <3>1. g[u] = f[st] + (m + x) BY <2>3, <1>5, <1>9, <1>10
    <3>2. g[t] = f[t] BY <2>3, <1>3
    <3>3. st <= t + Window BY <2>0, <2>3, <1>12, <1>7, <1>8, <1>2, ShieldAssumption
    <3>4. f[st] <= f[t] + limit BY <2>3, <3>3, <1>7
    <3> QED BY <3>1, <3>2, <3>4, <2>0, <1>7, <1>8
  <2>4. CASE u > now /\ t <= now /\ t > st
    <3>1. g[u] = f[st] + (m + x) BY <2>4, <1>5, <1>9, <1>10
    <3>2. g[t] = f[t] BY <2>4, <1>3
    <3>3. f[st] <= f[t] BY <2>4, <2>0, <1>1, <1>8
    <3> QED BY <3>1, <3>2, <3>3, <2>0, <1>7, <1>8
  <2> QED BY <2>0, <2>1, <2>2, <2>3, <2>4, <1>2, <1>8
<1>13. m + x \in 0 .. limit BY <1>7
<1>14. ASSUME NEW t \in Ends, t > st + Window PROVE g[t] = g[now + 1]
  <2>1. now <= st + Window
    <3>1. CASE has /\ ~(now - start > Window)
      BY <3>1, <1>2, <1>8, ShieldAssumption
    <3>2. CASE ~(has /\ ~(now - start > Window))
      BY <3>2, <1>2, <1>8, ShieldAssumption
    <3> QED BY <3>1, <3>2
  <2>2. t > now BY <2>1, <1>14, <1>2, <1>8, ShieldAssumption
  <2> QED BY <2>2, <1>5
<1> HIDE DEF Metered
<1> QED BY <1>5, <1>6, <1>7, <1>10, <1>11, <1>12, <1>13, <1>14 DEF Metered

(* What an actor was let through before each moment, in calls and in tokens. *)
RequestsBefore(s, k) == [t \in Ends |-> served[s][k][t].requests]
CostsBefore(s, k) == [t \in Ends |-> served[s][k][t].cost]
HasBudget(s, k) == k \in DOMAIN buckets[s]

(* The budgets and the history of each actor are in step. *)
MetersOK == \A s \in ShieldServers, k \in ActorKeys :
  /\ Metered(RequestsBefore(s, k), HasBudget(s, k), buckets[s][k].started, buckets[s][k].requests, shieldTime, MaxCalls)
  /\ Metered(CostsBefore(s, k), HasBudget(s, k), buckets[s][k].started, buckets[s][k].cost, shieldTime, MaxCost)

(* A meter depends on the budget only if there is one. *)
LEMMA MeterSame ==
  ASSUME NEW f, NEW has, NEW has2, NEW start, NEW start2, NEW n, NEW n2, NEW now, NEW limit,
         Metered(f, has, start, n, now, limit), has <=> has2, has => start2 = start /\ n2 = n
  PROVE  Metered(f, has2, start2, n2, now, limit)
BY DEF Metered

(* The inductive invariant of the shield. *)
ShieldInv == ShieldTypeOK /\ buckets = [s \in ShieldServers |-> buckets[s]] /\ MetersOK /\ RefusalsEarned

ServedType == [ShieldServers -> [ActorKeys -> [Ends -> [requests : Nat, cost : Nat]]]]

(* The history of an actor counts in natural numbers. *)
LEMMA MetersTyped ==
  ASSUME served \in ServedType, NEW s \in ShieldServers, NEW k \in ActorKeys
  PROVE  RequestsBefore(s, k) \in [Ends -> Nat] /\ CostsBefore(s, k) \in [Ends -> Nat]
BY DEF ServedType, RequestsBefore, CostsBefore

(* The empty sequence has no indices. *)
LEMMA EmptyDomain == DOMAIN << >> = {}
OBVIOUS

(* Initially nobody has a budget and nothing was served. *)
LEMMA ShieldInitOK == ShieldInit => ShieldInv
<1> SUFFICES ASSUME ShieldInit PROVE ShieldInv OBVIOUS
<1>1. served = [s \in ShieldServers |-> [k \in ActorKeys |-> [t \in Ends |-> [requests |-> 0, cost |-> 0]]]]
      /\ buckets = [s \in ShieldServers |-> << >>] /\ shieldTime = 0 /\ enforceMtls \in BOOLEAN
      /\ refused = [reason |-> "none", count |-> 0, cost |-> 0, asked |-> 0]
  BY DEF ShieldInit
<1>2. \A s \in ShieldServers : DOMAIN buckets[s] = {}
  <2>1. \A s \in ShieldServers : buckets[s] = << >> BY <1>1
  <2> QED BY <2>1, EmptyDomain, Zenon
<1>3. 0 \in Times /\ 0 + 1 \in Ends
  BY ShieldAssumption DEF Times, Ends
<1>4. served \in ServedType
  BY <1>1 DEF ServedType
<1>5. ShieldTypeOK
  BY <1>1, <1>2, <1>3, <1>4 DEF ShieldTypeOK, ServedType, Reasons
<1>6. ASSUME NEW s \in ShieldServers, NEW k \in ActorKeys
      PROVE  /\ Metered(RequestsBefore(s, k), HasBudget(s, k), buckets[s][k].started, buckets[s][k].requests, 0, MaxCalls)
             /\ Metered(CostsBefore(s, k), HasBudget(s, k), buckets[s][k].started, buckets[s][k].cost, 0, MaxCost)
  <2>1. ~HasBudget(s, k) BY <1>2 DEF HasBudget
  <2>2. \A t \in Ends : RequestsBefore(s, k)[t] = 0 /\ CostsBefore(s, k)[t] = 0
    BY <1>1 DEF RequestsBefore, CostsBefore
  <2>3. 0 <= 0 OBVIOUS
  <2> QED BY <2>1, <2>2, <1>3 DEF Metered
<1>7. MetersOK /\ buckets = [s \in ShieldServers |-> buckets[s]]
  BY <1>1, <1>6 DEF MetersOK
<1>8. RefusalsEarned
  BY <1>1 DEF RefusalsEarned
<1> QED BY <1>5, <1>7, <1>8 DEF ShieldInv

(* A tick of the clock keeps the invariant. *)
LEMMA ShieldTickStep ==
  ASSUME ShieldInv, ShieldTick
  PROVE  ShieldInv'
<1>1. shieldTime \in Times /\ shieldTime < MaxShieldTime /\ shieldTime' = shieldTime + 1
      /\ UNCHANGED <<enforceMtls, buckets, served, refused>> /\ served \in ServedType
  BY DEF ShieldTick, ShieldInv, ShieldTypeOK, ServedType
<1>2. shieldTime' \in Times
  BY <1>1, ShieldAssumption DEF Times
<1>3. ShieldTypeOK'
  BY <1>1, <1>2 DEF ShieldInv, ShieldTypeOK, Budget
<1>4. MetersOK'
  <2> SUFFICES ASSUME NEW s \in ShieldServers, NEW k \in ActorKeys
               PROVE  /\ Metered(RequestsBefore(s, k), HasBudget(s, k), buckets[s][k].started, buckets[s][k].requests,
                                 shieldTime, MaxCalls)'
                      /\ Metered(CostsBefore(s, k), HasBudget(s, k), buckets[s][k].started, buckets[s][k].cost,
                                 shieldTime, MaxCost)'
    BY DEF MetersOK
  <2>1. RequestsBefore(s, k) \in [Ends -> Nat] /\ CostsBefore(s, k) \in [Ends -> Nat] BY <1>1, MetersTyped
  <2>2. MaxCalls \in Nat /\ MaxCost \in Nat /\ HasBudget(s, k) \in BOOLEAN BY ShieldAssumption DEF HasBudget
  <2>3. Metered(RequestsBefore(s, k), HasBudget(s, k), buckets[s][k].started, buckets[s][k].requests, shieldTime, MaxCalls)
        /\ Metered(CostsBefore(s, k), HasBudget(s, k), buckets[s][k].started, buckets[s][k].cost, shieldTime, MaxCost)
    BY DEF ShieldInv, MetersOK
  <2>4. Metered(RequestsBefore(s, k), HasBudget(s, k), buckets[s][k].started, buckets[s][k].requests, shieldTime + 1, MaxCalls)
    BY <2>1, <2>2, <2>3, <1>1, MeterTick
  <2>5. Metered(CostsBefore(s, k), HasBudget(s, k), buckets[s][k].started, buckets[s][k].cost, shieldTime + 1, MaxCost)
    BY <2>1, <2>2, <2>3, <1>1, MeterTick
  <2>6. RequestsBefore(s, k)' = RequestsBefore(s, k) /\ CostsBefore(s, k)' = CostsBefore(s, k) /\ HasBudget(s, k)' = HasBudget(s, k)
        /\ buckets'[s][k] = buckets[s][k]
    BY <1>1 DEF RequestsBefore, CostsBefore, HasBudget
  <2> QED BY <2>4, <2>5, <2>6, <1>1 DEF Metered
<1>5. RefusalsEarned' BY <1>1 DEF ShieldInv, RefusalsEarned
<1> QED BY <1>1, <1>3, <1>4, <1>5 DEF ShieldInv

(* The budget a call is measured by is the actor's own until its window is   *)
(* over, and then a fresh one.                                               *)
LEMMA BudgetOf ==
  ASSUME ShieldInv, NEW s \in ShieldServers, NEW k \in ActorKeys
  PROVE  /\ Current(s, k) \in Budget
         /\ IF HasBudget(s, k) /\ ~(shieldTime - buckets[s][k].started > Window)
              THEN Current(s, k) = buckets[s][k]
              ELSE Current(s, k) = Fresh
<1>1. shieldTime \in Times /\ Fresh \in Budget
  BY ShieldAssumption DEF ShieldInv, ShieldTypeOK, Fresh, Budget
<1>2. HasBudget(s, k) => buckets[s][k] \in Budget
  BY DEF ShieldInv, ShieldTypeOK, HasBudget
<1> QED BY <1>1, <1>2 DEF Current, Over, HasBudget

(* What charging does to a budget: a call that is let through is added and   *)
(* fits, one that is refused is not added.                                   *)
LEMMA ChargedOf ==
  ASSUME NEW b \in Budget, NEW cost \in Nat
  PROVE  /\ Charged(b, cost) \in Budget /\ Charged(b, cost).started = b.started
         /\ Verdict(b, cost) = "none" =>
              /\ Charged(b, cost).requests = b.requests + 1 /\ b.requests + 1 <= MaxCalls
              /\ Charged(b, cost).cost = b.cost + cost /\ b.cost + cost <= MaxCost
         /\ Verdict(b, cost) # "none" => Charged(b, cost) = b
         /\ Verdict(b, cost) = "RATE_LIMIT_EXCEEDED" => b.requests + 1 > MaxCalls
         /\ Verdict(b, cost) = "COST_BUDGET_EXCEEDED" => b.cost + cost > MaxCost
         /\ Verdict(b, cost) \in Reasons
<1>1. b.requests \in 0 .. MaxCalls /\ b.cost \in 0 .. MaxCost /\ b.started \in Times BY DEF Budget
<1>2. CASE Verdict(b, cost) = "none"
  <2>1. b.requests + 1 <= MaxCalls /\ b.cost + cost <= MaxCost
    BY <1>1, <1>2, ShieldAssumption DEF Verdict
  <2> DEFINE one == [b EXCEPT !.requests = @ + 1]
  <2>2. b.requests + 1 \in 0 .. MaxCalls /\ b.cost + cost \in 0 .. MaxCost BY <2>1, <1>1, ShieldAssumption
  <2>3. one \in Budget /\ one.started = b.started /\ one.requests = b.requests + 1 /\ one.cost = b.cost
    BY <2>2 DEF Budget
  <2>4. Charged(b, cost) = [one EXCEPT !.cost = b.cost + cost] BY <1>2 DEF Charged
  <2> HIDE DEF one
  <2>5. Charged(b, cost) \in Budget /\ Charged(b, cost).started = b.started
        /\ Charged(b, cost).requests = b.requests + 1 /\ Charged(b, cost).cost = b.cost + cost
    BY <2>2, <2>3, <2>4 DEF Budget
  <2> QED BY <2>1, <2>5, <1>2 DEF Reasons
<1>3. CASE Verdict(b, cost) # "none"
  <2>1. Charged(b, cost) = b BY <1>3 DEF Charged
  <2>2. /\ Verdict(b, cost) = "RATE_LIMIT_EXCEEDED" => b.requests + 1 > MaxCalls
        /\ Verdict(b, cost) = "COST_BUDGET_EXCEEDED" => b.cost + cost > MaxCost
        /\ Verdict(b, cost) \in Reasons
    BY <1>1, ShieldAssumption DEF Verdict, Reasons
  <2> QED BY <2>1, <2>2, <1>3
<1> QED BY <1>2, <1>3

(* What was let through in a window of time: never more than twice the       *)
(* limit, and at least what a budget that began in it has counted.           *)
LEMMA WindowOf ==
  ASSUME NEW f \in [Ends -> Nat], NEW has \in BOOLEAN, NEW start, NEW n, NEW now \in Times, NEW limit \in Nat,
         Metered(f, has, start, n, now, limit), NEW from \in Times,
         NEW end, end = IF from + Window < MaxShieldTime THEN from + Window + 1 ELSE MaxShieldTime + 1
  PROVE  /\ end \in Ends /\ from \in Ends
         /\ f[end] - f[from] \in Nat
         /\ has => f[end] - f[from] <= 2 * limit
         /\ has /\ from <= start /\ now <= from + Window => f[end] - f[from] >= n
<1>1. from \in Nat /\ from \in Ends /\ from <= MaxShieldTime BY EndsAre, ShieldAssumption DEF Times
<1>2. end \in Ends /\ end \in Nat /\ from <= end /\ end <= from + Window + 1
  BY <1>1, ShieldAssumption DEF Ends
<1>3. f[from] <= f[end] /\ f[from] \in Nat /\ f[end] \in Nat
  BY <1>1, <1>2 DEF Metered
<1>4. has => f[end] <= f[from] + 2 * limit
  BY <1>1, <1>2 DEF Metered
<1>5. ASSUME has, from <= start, now <= from + Window PROVE f[end] - f[from] >= n
  <2>1. start \in Times /\ start \in Nat /\ start \in Ends /\ n \in 0 .. limit /\ f[now + 1] = f[start] + n
    BY <1>5, EndsAre DEF Metered
  <2>2. now \in Nat /\ now + 1 \in Ends /\ now <= MaxShieldTime BY EndsAre, ShieldAssumption DEF Times
  <2>3. now + 1 <= end BY <2>2, <1>1, <1>5, ShieldAssumption
  <2>4. f[now + 1] <= f[end] /\ f[from] <= f[start] BY <2>1, <2>2, <2>3, <1>1, <1>2, <1>5 DEF Metered
  <2>5. f[start] \in Nat /\ f[now + 1] \in Nat BY <2>1, <2>2
  <2> QED BY <2>1, <2>4, <2>5, <1>3
<1> QED BY <1>1, <1>2, <1>3, <1>4, <1>5

(* The same of an actor's calls and tokens: InWindow of ApiShield. *)
LEMMA InWindowOf ==
  ASSUME ShieldInv, NEW s \in ShieldServers, NEW k \in ActorKeys, NEW from \in Times
  PROVE  LET calls == InWindow(s, k, from) IN
         /\ calls.requests \in Nat /\ calls.cost \in Nat
         /\ HasBudget(s, k) => calls.requests <= 2 * MaxCalls /\ calls.cost <= 2 * MaxCost
         /\ HasBudget(s, k) /\ from <= buckets[s][k].started /\ shieldTime <= from + Window =>
              calls.requests >= buckets[s][k].requests /\ calls.cost >= buckets[s][k].cost
<1> DEFINE end == IF from + Window < MaxShieldTime THEN from + Window + 1 ELSE MaxShieldTime + 1
           f == RequestsBefore(s, k)
           g == CostsBefore(s, k)
<1>1. f \in [Ends -> Nat] /\ g \in [Ends -> Nat]
  BY MetersTyped DEF ShieldInv, ShieldTypeOK, ServedType
<1>2. MaxCalls \in Nat /\ MaxCost \in Nat /\ HasBudget(s, k) \in BOOLEAN /\ shieldTime \in Times
  BY ShieldAssumption DEF HasBudget, ShieldInv, ShieldTypeOK
<1>3. Metered(f, HasBudget(s, k), buckets[s][k].started, buckets[s][k].requests, shieldTime, MaxCalls)
      /\ Metered(g, HasBudget(s, k), buckets[s][k].started, buckets[s][k].cost, shieldTime, MaxCost)
  BY DEF ShieldInv, MetersOK
<1>4. /\ end \in Ends /\ from \in Ends
      /\ f[end] - f[from] \in Nat
      /\ HasBudget(s, k) => f[end] - f[from] <= 2 * MaxCalls
      /\ HasBudget(s, k) /\ from <= buckets[s][k].started /\ shieldTime <= from + Window =>
           f[end] - f[from] >= buckets[s][k].requests
  BY <1>1, <1>2, <1>3, WindowOf
<1>5. /\ g[end] - g[from] \in Nat
      /\ HasBudget(s, k) => g[end] - g[from] <= 2 * MaxCost
      /\ HasBudget(s, k) /\ from <= buckets[s][k].started /\ shieldTime <= from + Window =>
           g[end] - g[from] >= buckets[s][k].cost
  BY <1>1, <1>2, <1>3, WindowOf
<1>6. f[end] = served[s][k][end].requests /\ f[from] = served[s][k][from].requests
      /\ g[end] = served[s][k][end].cost /\ g[from] = served[s][k][from].cost
  BY <1>4 DEF RequestsBefore, CostsBefore
<1>7. InWindow(s, k, from) = [requests |-> f[end] - f[from], cost |-> g[end] - g[from]]
  BY <1>6 DEF InWindow
<1> HIDE DEF f, g, end
<1> QED BY <1>4, <1>5, <1>7

(* A call that is checked, whatever the verdict, keeps the invariant. *)
LEMMA CheckedStep ==
  ASSUME ShieldInv, NEW s \in ShieldServers, NEW c \in Calls, Checked(s, c)
  PROVE  ShieldInv'
<1> DEFINE k == ActorKey(c)
           b == Current(s, k)
           cost == EstimatedCost(c)
           since == IF shieldTime > Window THEN shieldTime - Window ELSE 0
           earlier == InWindow(s, k, since)
           after == Charged(b, cost)
           let == Verdict(b, cost) = "none"
           x == IF let THEN 1 ELSE 0
           y == IF let THEN cost ELSE 0
<1>0. k \in ActorKeys /\ cost \in Nat /\ b \in Budget
  BY BudgetOf DEF ActorKeys, EstimatedCost
<1>u. UNCHANGED <<enforceMtls, shieldTime>>
  BY DEF Checked
<1>r. refused' = [reason |-> Verdict(b, cost), count |-> earlier.requests, cost |-> earlier.cost, asked |-> cost]
  BY DEF Checked
<1>b. buckets' = [buckets EXCEPT ![s] =
        [key \in DOMAIN buckets[s] \cup {k} |-> IF key = k THEN after ELSE buckets[s][key]]]
  BY DEF Checked
<1>1. served' = IF let
                     THEN [served EXCEPT ![s][k] = [t \in Ends |->
                             IF t <= shieldTime THEN served[s][k][t]
                             ELSE [requests |-> served[s][k][t].requests + 1, cost |-> served[s][k][t].cost + cost]]]
                     ELSE served
  BY DEF Checked
<1>2. /\ after \in Budget /\ after.started = b.started
      /\ let => /\ after.requests = b.requests + 1 /\ b.requests + 1 <= MaxCalls
                /\ after.cost = b.cost + cost /\ b.cost + cost <= MaxCost
      /\ ~let => after = b
      /\ Verdict(b, cost) = "RATE_LIMIT_EXCEEDED" => b.requests + 1 > MaxCalls
      /\ Verdict(b, cost) = "COST_BUDGET_EXCEEDED" => b.cost + cost > MaxCost
      /\ Verdict(b, cost) \in Reasons
  BY <1>0, ChargedOf
<1>3. IF HasBudget(s, k) /\ ~(shieldTime - buckets[s][k].started > Window)
        THEN b = buckets[s][k] ELSE b = Fresh
  BY <1>0, BudgetOf
<1>4. b.requests \in Nat /\ b.cost \in Nat /\ b.requests <= MaxCalls /\ b.cost <= MaxCost
  BY <1>0, ShieldAssumption DEF Budget
<1>5. served \in ServedType /\ shieldTime \in Times /\ shieldTime \in Nat
  BY EndsAre DEF ShieldInv, ShieldTypeOK, ServedType
<1>6. since \in Times /\ since <= shieldTime /\ shieldTime <= since + Window
      /\ \A t \in Times : ~(shieldTime - t > Window) => since <= t
  BY <1>5, ShieldAssumption DEF Times
<1>7. earlier.requests \in Nat /\ earlier.cost \in Nat
      /\ (HasBudget(s, k) /\ since <= buckets[s][k].started => earlier.requests >= buckets[s][k].requests /\ earlier.cost >= buckets[s][k].cost)
  BY <1>0, <1>6, InWindowOf
<1>8. earlier.requests >= b.requests /\ earlier.cost >= b.cost
  <2>1. CASE HasBudget(s, k) /\ ~(shieldTime - buckets[s][k].started > Window)
    <3>1. b = buckets[s][k] /\ b.started \in Times BY <2>1, <1>0, <1>3 DEF Budget
    <3> QED BY <2>1, <3>1, <1>6, <1>7
  <2>2. CASE ~(HasBudget(s, k) /\ ~(shieldTime - buckets[s][k].started > Window))
    <3>1. b.requests = 0 /\ b.cost = 0 BY <2>2, <1>3 DEF Fresh
    <3> QED BY <3>1, <1>7
  <2> QED BY <2>1, <2>2
<1>9. RefusalsEarned'
  <2>1. refused'.reason = Verdict(b, cost) /\ refused'.count = earlier.requests
        /\ refused'.cost = earlier.cost /\ refused'.asked = cost
    BY <1>r
  <2> HIDE DEF b, cost, since, earlier
  <2>2. CASE Verdict(b, cost) = "RATE_LIMIT_EXCEEDED"
    <3>1. earlier.requests >= MaxCalls BY <2>2, <1>2, <1>4, <1>7, <1>8, ShieldAssumption
    <3> QED BY <2>1, <2>2, <3>1 DEF RefusalsEarned
  <2>3. CASE Verdict(b, cost) = "COST_BUDGET_EXCEEDED"
    <3>1. earlier.cost + cost > MaxCost BY <2>3, <1>0, <1>2, <1>4, <1>7, <1>8, ShieldAssumption
    <3> QED BY <2>1, <2>3, <3>1 DEF RefusalsEarned
  <2> QED BY <2>1, <2>2, <2>3 DEF RefusalsEarned
<1>10. x \in Nat /\ y \in Nat /\ after.requests = b.requests + x /\ after.cost = b.cost + y
       /\ b.requests + x <= MaxCalls /\ b.cost + y <= MaxCost
  BY <1>0, <1>2, <1>4
<1> HIDE DEF k, b, cost, since, earlier, after
<1>11. /\ DOMAIN buckets'[s] = DOMAIN buckets[s] \cup {k} /\ buckets'[s][k] = after
       /\ \A j \in DOMAIN buckets[s] : j # k => buckets'[s][j] = buckets[s][j]
       /\ \A r \in ShieldServers : r # s => buckets'[r] = buckets[r]
       /\ buckets' = [r \in ShieldServers |-> buckets'[r]]
  BY <1>b DEF ShieldInv
<1>12. /\ served' \in ServedType
       /\ \A r \in ShieldServers, j \in ActorKeys : r # s \/ j # k => served'[r][j] = served[r][j]
       /\ \A t \in Ends : /\ served'[s][k][t].requests = served[s][k][t].requests + (IF t <= shieldTime THEN 0 ELSE x)
                          /\ served'[s][k][t].cost = served[s][k][t].cost + (IF t <= shieldTime THEN 0 ELSE y)
  <2>1. CASE let
    <3> DEFINE new == [t \in Ends |->
                  IF t <= shieldTime THEN served[s][k][t]
                  ELSE [requests |-> served[s][k][t].requests + 1, cost |-> served[s][k][t].cost + cost]]
    <3>1. new \in [Ends -> [requests : Nat, cost : Nat]] BY <1>0, <1>5 DEF ServedType
    <3>2. \A t \in Ends : /\ new[t].requests = served[s][k][t].requests + (IF t <= shieldTime THEN 0 ELSE x)
                          /\ new[t].cost = served[s][k][t].cost + (IF t <= shieldTime THEN 0 ELSE y)
      BY <2>1, <1>0, <1>5 DEF ServedType
    <3>3. served' = [served EXCEPT ![s][k] = new] BY <2>1, <1>1
    <3> HIDE DEF new, x, y, let
    <3> QED BY <3>1, <3>2, <3>3, <1>0, <1>5 DEF ServedType
  <2>2. CASE ~let
    <3>1. served' = served /\ x = 0 /\ y = 0 BY <2>2, <1>1
    <3>2. \A t \in Ends : served[s][k][t].requests \in Nat /\ served[s][k][t].cost \in Nat
      BY <1>0, <1>5 DEF ServedType
    <3> QED BY <3>1, <3>2, <1>5
  <2> QED BY <2>1, <2>2
<1> HIDE DEF x, y, let
<1>13. ShieldTypeOK'
  <2>1. ASSUME NEW r \in ShieldServers
        PROVE  DOMAIN buckets'[r] \subseteq ActorKeys /\ \A j \in DOMAIN buckets'[r] : buckets'[r][j] \in Budget
    BY <1>0, <1>2, <1>11 DEF ShieldInv, ShieldTypeOK
  <2>2. refused'.reason \in Reasons /\ refused'.count \in Nat /\ refused'.cost \in Nat
    BY <1>r, <1>2, <1>7
  <2> QED BY <2>1, <2>2, <1>u, <1>12 DEF ShieldInv, ShieldTypeOK, ServedType, Budget
<1>14. MetersOK'
  <2> SUFFICES ASSUME NEW r \in ShieldServers, NEW j \in ActorKeys
               PROVE  /\ Metered(RequestsBefore(r, j), HasBudget(r, j), buckets[r][j].started, buckets[r][j].requests,
                                 shieldTime, MaxCalls)'
                      /\ Metered(CostsBefore(r, j), HasBudget(r, j), buckets[r][j].started, buckets[r][j].cost,
                                 shieldTime, MaxCost)'
    BY DEF MetersOK
  <2>0. Metered(RequestsBefore(r, j), HasBudget(r, j), buckets[r][j].started, buckets[r][j].requests, shieldTime, MaxCalls)
        /\ Metered(CostsBefore(r, j), HasBudget(r, j), buckets[r][j].started, buckets[r][j].cost, shieldTime, MaxCost)
    BY DEF ShieldInv, MetersOK
  <2>1. CASE r # s \/ j # k
    <3>1. RequestsBefore(r, j)' = RequestsBefore(r, j) /\ CostsBefore(r, j)' = CostsBefore(r, j)
      BY <2>1, <1>12 DEF RequestsBefore, CostsBefore
    <3>2. HasBudget(r, j)' <=> HasBudget(r, j) BY <2>1, <1>11 DEF HasBudget
    <3>3. HasBudget(r, j) => buckets'[r][j] = buckets[r][j] BY <2>1, <1>11 DEF HasBudget
    <3>4. Metered(RequestsBefore(r, j), HasBudget(r, j)', buckets'[r][j].started, buckets'[r][j].requests, shieldTime, MaxCalls)
      BY <2>0, <3>2, <3>3, MeterSame
    <3>5. Metered(CostsBefore(r, j), HasBudget(r, j)', buckets'[r][j].started, buckets'[r][j].cost, shieldTime, MaxCost)
      BY <2>0, <3>2, <3>3, MeterSame
    <3> QED BY <3>1, <3>4, <3>5, <1>u
  <2>2. CASE r = s /\ j = k
    <3>1. RequestsBefore(s, k) \in [Ends -> Nat] /\ CostsBefore(s, k) \in [Ends -> Nat] BY <1>0, <1>5, MetersTyped
    <3>2. MaxCalls \in Nat /\ MaxCost \in Nat /\ HasBudget(s, k) \in BOOLEAN BY ShieldAssumption DEF HasBudget
    <3>3. RequestsBefore(r, j)' = [t \in Ends |-> IF t <= shieldTime THEN RequestsBefore(s, k)[t] ELSE RequestsBefore(s, k)[t] + x]
      <4>1. \A t \in Ends : served'[s][k][t].requests =
              IF t <= shieldTime THEN RequestsBefore(s, k)[t] ELSE RequestsBefore(s, k)[t] + x
        BY <1>12, <3>1 DEF RequestsBefore
      <4> QED BY <2>2, <4>1 DEF RequestsBefore
    <3>4. CostsBefore(r, j)' = [t \in Ends |-> IF t <= shieldTime THEN CostsBefore(s, k)[t] ELSE CostsBefore(s, k)[t] + y]
      <4>1. \A t \in Ends : served'[s][k][t].cost =
              IF t <= shieldTime THEN CostsBefore(s, k)[t] ELSE CostsBefore(s, k)[t] + y
        BY <1>12, <3>1 DEF CostsBefore
      <4> QED BY <2>2, <4>1 DEF CostsBefore
    <3>5. IF HasBudget(s, k) /\ ~(shieldTime - buckets[s][k].started > Window)
            THEN b.started = buckets[s][k].started /\ b.requests = buckets[s][k].requests
            ELSE b.started = shieldTime /\ b.requests = 0
      BY <1>3 DEF Fresh
    <3>6. IF HasBudget(s, k) /\ ~(shieldTime - buckets[s][k].started > Window)
            THEN b.started = buckets[s][k].started /\ b.cost = buckets[s][k].cost
            ELSE b.started = shieldTime /\ b.cost = 0
      BY <1>3 DEF Fresh
    <3>7. Metered(RequestsBefore(r, j)', TRUE, b.started, b.requests + x, shieldTime, MaxCalls)
      BY <2>0, <2>2, <3>1, <3>2, <3>3, <3>5, <1>5, <1>10, MeterCharge
    <3>8. Metered(CostsBefore(r, j)', TRUE, b.started, b.cost + y, shieldTime, MaxCost)
      BY <2>0, <2>2, <3>1, <3>2, <3>4, <3>6, <1>5, <1>10, MeterCharge
    <3>9. HasBudget(r, j)' /\ buckets'[r][j].started = b.started /\ buckets'[r][j].requests = b.requests + x
          /\ buckets'[r][j].cost = b.cost + y
      BY <2>2, <1>2, <1>10, <1>11 DEF HasBudget
    <3>10. Metered(RequestsBefore(r, j)', HasBudget(r, j)', buckets'[r][j].started, buckets'[r][j].requests, shieldTime, MaxCalls)
      BY <3>7, <3>9, MeterSame
    <3>11. Metered(CostsBefore(r, j)', HasBudget(r, j)', buckets'[r][j].started, buckets'[r][j].cost, shieldTime, MaxCost)
      BY <3>8, <3>9, MeterSame
    <3> QED BY <3>10, <3>11, <1>u
  <2> QED BY <2>1, <2>2
<1> QED BY <1>9, <1>11, <1>13, <1>14 DEF ShieldInv

(* Every step of the shield keeps the invariant. *)
LEMMA ShieldStep == ShieldInv /\ [ShieldNext]_shieldVars => ShieldInv'
<1> SUFFICES ASSUME ShieldInv, [ShieldNext]_shieldVars PROVE ShieldInv' OBVIOUS
<1>1. ASSUME UNCHANGED <<enforceMtls, buckets, shieldTime, served>>, RefusalsEarned',
             refused'.reason \in Reasons /\ refused'.count \in Nat /\ refused'.cost \in Nat
      PROVE  ShieldInv'
  <2>1. ShieldTypeOK' BY <1>1 DEF ShieldInv, ShieldTypeOK, Budget
  <2>2. MetersOK'
    <3>1. \A s, k : RequestsBefore(s, k)' = RequestsBefore(s, k) /\ CostsBefore(s, k)' = CostsBefore(s, k) /\ (HasBudget(s, k)' = HasBudget(s, k))
      BY <1>1 DEF RequestsBefore, CostsBefore, HasBudget
    <3> QED BY <1>1, <3>1 DEF ShieldInv, MetersOK
  <2> QED BY <2>1, <2>2, <1>1 DEF ShieldInv
<1>2. ASSUME NEW s \in ShieldServers, NEW c \in Calls, TurnedAway(s, c) PROVE ShieldInv'
  <2>1. refused' = [reason |-> Denied(c), count |-> 0, cost |-> 0, asked |-> 0]
        /\ UNCHANGED <<enforceMtls, buckets, shieldTime, served>>
    BY <1>2 DEF TurnedAway
  <2>2. Denied(c) \in {"none", "NOT_FOUND", "REQUEST_TOO_LARGE", "INVALID_CONTENT_LENGTH",
                       "MTLS_CLIENT_CERT_REQUIRED"}
    BY DEF Denied
  <2> QED BY <2>1, <2>2, <1>1 DEF RefusalsEarned, Reasons
<1>3. ASSUME UNCHANGED shieldVars PROVE ShieldInv'
  BY <1>1, <1>3 DEF shieldVars, ShieldInv, ShieldTypeOK, RefusalsEarned
<1> QED BY <1>2, <1>3, CheckedStep, ShieldTickStep DEF ShieldNext

(* What one process lets through for an actor in any window is at most twice *)
(* MAX_REQUESTS and the token budget, and a refusal for either is earned,    *)
(* for any window length, limits, actors and processes:                      *)
(* ApiShield.check_request.                                                  *)
THEOREM LimitsAreExact == ShieldSpec => []LimitsExact
<1>1. ShieldInv => LimitsExact
  <2> SUFFICES ASSUME ShieldInv, NEW s \in ShieldServers, NEW k \in DOMAIN buckets[s], NEW from \in Times
               PROVE  LET calls == InWindow(s, k, from) IN
                      calls.requests <= 2 * MaxCalls /\ calls.cost <= 2 * MaxCost
    BY DEF LimitsExact, WindowBound, ShieldInv
  <2>1. k \in ActorKeys /\ HasBudget(s, k) BY DEF ShieldInv, ShieldTypeOK, HasBudget
  <2> QED BY <2>1, InWindowOf
<1> QED BY <1>1, ShieldInitOK, ShieldStep, PTL DEF ShieldSpec

-----------------------------------------------------------------------------
(* The license files: records of some of the keys. *)
Registers == UNION {[K -> Records] : K \in SUBSET Keys}
CallRecord == [op : {"none", "issue", "activate", "revoke"}, key : Keys, machine : Machines \cup {"none"},
               step : {"idle", "load", "truncate", "write"}, record : Records, all : Registers,
               stale : BOOLEAN]
PromiseRecord == [issued : SUBSET Keys, revoked : SUBSET Keys, given : [Keys -> Nat]]

(* The types of the license server's state. *)
LicenseShape ==
  /\ licenseFile \in [whole : BOOLEAN, records : Registers]
  /\ licenseCall \in [LicenseCalls -> CallRecord]
  /\ \A c \in LicenseCalls : licenseCall[c].op = "activate" => licenseCall[c].machine \in Machines
  /\ \A c \in LicenseCalls : (licenseCall[c].op = "none") <=> (licenseCall[c].step = "idle")
  /\ \A m \in DOMAIN copies : m \in Machines /\ copies[m].key \in Keys
  /\ licenseTime \in 0 .. MaxLicenseTime /\ licenseEvents \in 0 .. MaxLicenseEvents
  /\ promised \in PromiseRecord /\ overran \in BOOLEAN

(* A register tells of exactly the keys that were promised: as many seats    *)
(* used as were given, no more than the terms have, and active unless        *)
(* revoked.                                                                  *)
Truthful(records, told) ==
  /\ DOMAIN records = told.issued
  /\ \A k \in told.issued :
       /\ records[k].used = told.given[k] /\ records[k].used <= records[k].terms.seats
       /\ records[k].active <=> k \notin told.revoked
  /\ \A k \in Keys \ told.issued : told.given[k] = 0 /\ k \notin told.revoked

(* The register with one record put in. *)
Changed(records, k, record) ==
  [key \in DOMAIN records \cup {k} |-> IF key = k THEN record ELSE records[key]]

(* What a call means to write follows from the register: a new license, one  *)
(* seat more of a license that has one left, or a license taken out of use;  *)
(* and, once loaded, all of the register with that change.                   *)
Faithful(call, records) ==
  /\ call.op = "issue" => call.record.active /\ call.record.used = 0
  /\ call.op = "activate" => /\ call.key \in DOMAIN records /\ records[call.key].used < records[call.key].terms.seats
                             /\ call.record = [records[call.key] EXCEPT !.used = @ + 1]
  /\ call.op = "revoke" => /\ call.key \in DOMAIN records
                           /\ call.record = [records[call.key] EXCEPT !.active = FALSE]
  /\ call.step = "truncate" => call.all = Changed(records, call.key, call.record)

(* The calls that are between truncating the file and writing it. *)
Saving == {c \in LicenseCalls : licenseCall[c].step = "write"}

(* A file was lost, or a call that saves holds what another has changed      *)
(* since.                                                                    *)
Spoilt == overran \/ \E c \in Saving : licenseCall[c].stale

(* No two calls issue one key, and none issues a key that was promised: keys *)
(* are drawn at random.                                                      *)
IssuesApart == \A c \in LicenseCalls : licenseCall[c].op = "issue" =>
  /\ licenseCall[c].key \notin promised.issued
  /\ \A d \in LicenseCalls : d # c /\ licenseCall[d].op = "issue" => licenseCall[d].key # licenseCall[c].key

(* Where nobody saves, the file is whole and true, and each call that was    *)
(* not overtaken means to write what follows from it.                        *)
RestOK == Saving = {} =>
  /\ licenseFile.whole /\ Truthful(licenseFile.records, promised)
  /\ \A c \in LicenseCalls : licenseCall[c].step # "idle" /\ ~licenseCall[c].stale =>
       Faithful(licenseCall[c], licenseFile.records)

(* Where somebody saves, he is alone, and what he writes is true of what     *)
(* will have been promised then.                                             *)
WriteOK == \A c \in Saving :
  Saving = {c} /\ Truthful(licenseCall[c].all, Answer(licenseCall[c]))

(* No more machines hold a copy of a license than seats were given of it,    *)
(* whatever became of the file.                                              *)
Holders(k) == {m \in DOMAIN copies : copies[m].key = k}
CopiesOK == IsFiniteSet(DOMAIN copies) /\ \A k \in Keys : Cardinality(Holders(k)) <= promised.given[k]

(* The inductive invariant of the license register. *)
LicenseInv == LicenseShape /\ IssuesApart /\ CopiesOK /\ (~Spoilt => RestOK /\ WriteOK)

(* A register has some of the keys and a record for each of them. *)
LEMMA RegisterOf ==
  /\ \A K \in SUBSET Keys : \A f \in [K -> Records] : f \in Registers
  /\ \A f \in Registers : /\ IsRegister(f) /\ DOMAIN f \subseteq Keys /\ f \in [DOMAIN f -> Records]
  /\ << >> \in Registers
<1>1. << >> \in [{} -> Records] OBVIOUS
<1> QED BY <1>1 DEF Registers, IsRegister

(* New records, and a call at rest, have the types of their records. *)
LEMMA RecordOf ==
  /\ \A t \in Terms : NewRecord(t) \in Records
  /\ NoCall \in CallRecord /\ NoCall.op = "none" /\ NoCall.step = "idle" /\ ~NoCall.stale
<1>1. \A t \in Terms : NewRecord(t) \in Records BY DEF NewRecord, Records
<1>2. SomeKey \in Keys /\ SomeTerms \in Terms BY RegisterAssumption DEF SomeKey, SomeTerms
<1>3. NewRecord(SomeTerms) \in Records /\ << >> \in Registers BY <1>1, <1>2, RegisterOf
<1> QED BY <1>1, <1>2, <1>3 DEF NoCall, CallRecord

(* Initially the file is empty and whole, and nothing was promised. *)
LEMMA LicenseInitOK == LicenseInit => LicenseInv
<1> SUFFICES ASSUME LicenseInit PROVE LicenseInv OBVIOUS
<1>1. licenseFile = [whole |-> TRUE, records |-> << >>] /\ licenseCall = [c \in LicenseCalls |-> NoCall]
      /\ copies = << >> /\ licenseTime = 0 /\ licenseEvents = 0
      /\ promised = [issued |-> {}, revoked |-> {}, given |-> [k \in Keys |-> 0]]
  BY DEF LicenseInit
<1>2. overran \in BOOLEAN /\ ~overran BY Zenon DEF LicenseInit
<1>3. DOMAIN copies = {} BY <1>1, EmptyDomain
<1>4. licenseFile \in [whole : BOOLEAN, records : Registers] BY <1>1, RegisterOf
<1>5. promised \in PromiseRecord BY <1>1 DEF PromiseRecord
<1>6. LicenseShape
  BY <1>1, <1>2, <1>3, <1>4, <1>5, RecordOf, RegisterAssumption DEF LicenseShape
<1>7. IssuesApart BY <1>1, RecordOf DEF IssuesApart
<1>8. RestOK
  <2>1. Truthful(licenseFile.records, promised)
    BY <1>1, EmptyDomain DEF Truthful
  <2> QED BY <2>1, <1>1, RecordOf DEF RestOK
<1>9. WriteOK BY <1>1, RecordOf DEF WriteOK, Saving
<1>10. CopiesOK
  <2>1. \A k \in Keys : Holders(k) = {} BY <1>3 DEF Holders
  <2>2. \A k \in Keys : promised.given[k] = 0 BY <1>1
  <2>3. \A k \in Keys : Cardinality(Holders(k)) = 0 BY <2>1, FS_EmptySet
  <2>4. \A k \in Keys : Cardinality(Holders(k)) <= promised.given[k] BY <2>2, <2>3
  <2>5. IsFiniteSet(DOMAIN copies) BY <1>3, FS_EmptySet
  <2> QED BY <2>4, <2>5 DEF CopiesOK
<1> QED BY <1>6, <1>7, <1>8, <1>9, <1>10 DEF LicenseInv

(* Where neither the copies nor the promises change, the copies stay few. *)
LEMMA CopiesRest == ASSUME LicenseInv, UNCHANGED <<copies, promised>> PROVE CopiesOK'
BY DEF LicenseInv, CopiesOK, Holders

(* A call that moves on without touching the file keeps the invariant, given *)
(* what its new state claims of the register.                                *)
LEMMA CallMoves ==
  ASSUME LicenseInv, NEW c \in LicenseCalls, NEW r \in CallRecord,
         licenseCall' = [licenseCall EXCEPT ![c] = r],
         UNCHANGED <<licenseFile, copies, licenseTime, promised>>,
         licenseEvents' \in 0 .. MaxLicenseEvents,
         overran' \in BOOLEAN, overran => overran', licenseCall[c].step = "write" => overran',
         r.step # "write", r.op = "activate" => r.machine \in Machines,
         (r.op = "none") <=> (r.step = "idle"),
         r.op = "issue" =>
           /\ r.key \notin promised.issued
           /\ \A d \in LicenseCalls : d # c /\ licenseCall[d].op = "issue" => licenseCall[d].key # r.key,
         ~Spoilt /\ r.step # "idle" /\ ~r.stale /\ Saving = {} => Faithful(r, licenseFile.records)
  PROVE  LicenseInv'
<1>1. licenseCall \in [LicenseCalls -> CallRecord] BY DEF LicenseInv, LicenseShape
<1>2. /\ licenseCall' \in [LicenseCalls -> CallRecord] /\ licenseCall'[c] = r
      /\ \A d \in LicenseCalls : d # c => licenseCall'[d] = licenseCall[d]
  BY <1>1
<1>3. LicenseShape'
  BY <1>2 DEF LicenseInv, LicenseShape
<1>4. IssuesApart'
  BY <1>2 DEF LicenseInv, IssuesApart
<1>5. Saving' = Saving \ {c}
  BY <1>2 DEF Saving
<1>6. ASSUME ~Spoilt' PROVE ~Spoilt /\ Saving' = Saving
  <2>1. ~overran' /\ c \notin Saving BY <1>6 DEF Spoilt, Saving
  <2>2. Saving' = Saving BY <2>1, <1>5
  <2>3. \A d \in Saving : licenseCall'[d] = licenseCall[d] BY <2>1, <1>2 DEF Saving
  <2>4. ~overran BY <2>1
  <2> QED BY <2>2, <2>3, <2>4, <1>6 DEF Spoilt
<1>7. ASSUME ~Spoilt' PROVE RestOK' /\ WriteOK'
  <2>1. RestOK /\ WriteOK /\ ~Spoilt /\ Saving' = Saving BY <1>6, <1>7 DEF LicenseInv
  <2>2. RestOK'
    <3> SUFFICES ASSUME Saving = {}
                 PROVE  /\ licenseFile.whole /\ Truthful(licenseFile.records, promised)
                        /\ \A d \in LicenseCalls : licenseCall'[d].step # "idle" /\ ~licenseCall'[d].stale =>
                             Faithful(licenseCall'[d], licenseFile.records)
      BY <2>1 DEF RestOK
    <3>1. licenseFile.whole /\ Truthful(licenseFile.records, promised) BY <2>1 DEF RestOK
    <3>2. ASSUME NEW d \in LicenseCalls, licenseCall'[d].step # "idle", ~licenseCall'[d].stale
          PROVE  Faithful(licenseCall'[d], licenseFile.records)
      <4>1. CASE d = c BY <4>1, <2>1, <3>2, <1>2
      <4>2. CASE d # c BY <4>2, <2>1, <3>2, <1>2 DEF RestOK
      <4> QED BY <4>1, <4>2
    <3> QED BY <3>1, <3>2
  <2>3. WriteOK'
    <3> SUFFICES ASSUME NEW d \in Saving'
                 PROVE  Saving' = {d} /\ Truthful(licenseCall[d].all, Answer(licenseCall[d]))'
      BY DEF WriteOK
    <3>1. d \in Saving /\ d # c /\ d \in LicenseCalls BY <2>1, <1>5 DEF Saving
    <3>2. licenseCall'[d] = licenseCall[d] BY <3>1, <1>2
    <3>3. Saving = {d} /\ Truthful(licenseCall[d].all, Answer(licenseCall[d])) BY <2>1, <3>1 DEF WriteOK
    <3>4. Answer(licenseCall[d])' = Answer(licenseCall[d]) BY <3>2 DEF Answer
    <3> QED BY <2>1, <3>2, <3>3, <3>4
  <2> QED BY <2>2, <2>3
<1> QED BY <1>3, <1>4, <1>7, CopiesRest DEF LicenseInv

(* A call that begins keeps the invariant, given that what it means to write *)
(* follows from the register it read.                                        *)
LEMMA BeginCallStep ==
  ASSUME LicenseInv, NEW c \in LicenseCalls, NEW op \in {"issue", "activate", "revoke"}, NEW k \in Keys,
         NEW m \in Machines \cup {"none"}, NEW r \in Records, Begin(c, op, k, m, r),
         op = "activate" => m \in Machines,
         op = "issue" =>
           /\ k \notin promised.issued
           /\ \A d \in LicenseCalls : licenseCall[d].op = "issue" => licenseCall[d].key # k,
         op = "issue" => r.active /\ r.used = 0,
         op = "activate" => /\ k \in DOMAIN licenseFile.records
                            /\ licenseFile.records[k].used < licenseFile.records[k].terms.seats
                            /\ r = [licenseFile.records[k] EXCEPT !.used = @ + 1],
         op = "revoke" => k \in DOMAIN licenseFile.records /\ r = [licenseFile.records[k] EXCEPT !.active = FALSE]
  PROVE  LicenseInv'
<1> DEFINE call == [op |-> op, key |-> k, machine |-> m, step |-> "load", record |-> r,
                    all |-> << >>, stale |-> FALSE]
<1>1. licenseCall' = [licenseCall EXCEPT ![c] = call] /\ licenseCall[c].step = "idle"
      /\ licenseEvents < MaxLicenseEvents /\ licenseEvents' = licenseEvents + 1
      /\ UNCHANGED <<licenseFile, copies, licenseTime, promised, overran>>
  BY DEF Begin
<1>2. call \in CallRecord BY RegisterOf DEF CallRecord
<1>3. call.step = "load" /\ call.op = op /\ call.key = k /\ call.machine = m /\ call.record = r OBVIOUS
<1> HIDE DEF call
<1>4. Faithful(call, licenseFile.records) BY <1>3 DEF Faithful
<1>5. licenseEvents' \in 0 .. MaxLicenseEvents
  BY <1>1, RegisterAssumption DEF LicenseInv, LicenseShape
<1>6. overran' \in BOOLEAN BY <1>1 DEF LicenseInv, LicenseShape
<1> QED BY <1>1, <1>2, <1>3, <1>4, <1>5, <1>6, CallMoves

(* Issuing a license keeps the invariant: its key is new. *)
LEMMA IssueStep ==
  ASSUME LicenseInv, NEW c \in LicenseCalls, NEW k \in Keys, NEW terms \in Terms, Issue(c, k, terms)
  PROVE  LicenseInv'
<1>1. /\ Begin(c, "issue", k, "none", NewRecord(terms)) /\ k \notin promised.issued
      /\ \A d \in LicenseCalls : licenseCall[d].op = "issue" => licenseCall[d].key # k
  BY DEF Issue
<1>2. NewRecord(terms) \in Records /\ NewRecord(terms).active /\ NewRecord(terms).used = 0
  BY RecordOf DEF NewRecord
<1> QED BY <1>1, <1>2, BeginCallStep

(* A license that is found is one of the file. *)
LEMMA FoundIs ==
  ASSUME LicenseInv, NEW k, Found(k)
  PROVE  /\ k \in DOMAIN licenseFile.records /\ LicenseOf(k) = licenseFile.records[k]
         /\ LicenseOf(k) \in Records
BY RegisterOf DEF LicenseInv, LicenseShape, Found, LicenseOf, IsRegister

(* Activating a license keeps the invariant: it has a seat left. *)
LEMMA ActivateStep ==
  ASSUME LicenseInv, NEW c \in LicenseCalls, NEW k \in Keys, NEW m \in Machines, Activate(c, k, m)
  PROVE  LicenseInv'
<1> DEFINE r == [LicenseOf(k) EXCEPT !.used = @ + 1]
<1>1. Found(k) /\ MayActivate(LicenseOf(k), m) /\ Begin(c, "activate", k, m, r)
  BY DEF Activate
<1>2. k \in DOMAIN licenseFile.records /\ LicenseOf(k) = licenseFile.records[k] /\ LicenseOf(k) \in Records
  BY <1>1, FoundIs
<1>3. r \in Records BY <1>2 DEF Records
<1>4. licenseFile.records[k].used < licenseFile.records[k].terms.seats BY <1>1, <1>2 DEF MayActivate
<1>5. r = [licenseFile.records[k] EXCEPT !.used = @ + 1] BY <1>2
<1> HIDE DEF r
<1> QED BY <1>1, <1>2, <1>3, <1>4, <1>5, BeginCallStep

(* Revoking a license keeps the invariant. *)
LEMMA RevokeStep ==
  ASSUME LicenseInv, NEW c \in LicenseCalls, NEW k \in Keys, Revoke(c, k)
  PROVE  LicenseInv'
<1> DEFINE r == [LicenseOf(k) EXCEPT !.active = FALSE]
<1>1. Found(k) /\ Begin(c, "revoke", k, "none", r)
  BY DEF Revoke
<1>2. k \in DOMAIN licenseFile.records /\ LicenseOf(k) = licenseFile.records[k] /\ LicenseOf(k) \in Records
  BY <1>1, FoundIs
<1>3. r \in Records BY <1>2 DEF Records
<1>5. r = [licenseFile.records[k] EXCEPT !.active = FALSE] BY <1>2
<1> HIDE DEF r
<1> QED BY <1>1, <1>2, <1>3, <1>5, BeginCallStep

(* Putting a record into a register changes that record alone. *)
LEMMA ChangedIs ==
  ASSUME NEW R \in Registers, NEW k \in Keys, NEW r \in Records
  PROVE  /\ Changed(R, k, r) \in Registers /\ DOMAIN Changed(R, k, r) = DOMAIN R \cup {k}
         /\ Changed(R, k, r)[k] = r
         /\ \A j \in DOMAIN R : j # k => Changed(R, k, r)[j] = R[j]
<1>1. DOMAIN R \subseteq Keys /\ R \in [DOMAIN R -> Records] BY RegisterOf
<1>2. Changed(R, k, r) \in [DOMAIN R \cup {k} -> Records] BY <1>1 DEF Changed
<1>3. DOMAIN R \cup {k} \in SUBSET Keys BY <1>1
<1> QED BY <1>2, <1>3, RegisterOf DEF Changed

(* Loading the register again before it is saved keeps the invariant; a file *)
(* that is not whole spoils it.                                              *)
LEMMA LoadStep ==
  ASSUME LicenseInv, NEW c \in LicenseCalls, LoadAll(c)
  PROVE  LicenseInv'
<1> DEFINE call == licenseCall[c]
           all == Changed(licenseFile.records, call.key, call.record)
<1>1. call \in CallRecord /\ call.step = "load" /\ licenseFile.records \in Registers
  BY DEF LoadAll, LicenseInv, LicenseShape
<1>2. call.key \in Keys /\ call.record \in Records BY <1>1 DEF CallRecord
<1>u. UNCHANGED <<licenseFile, copies, licenseTime, licenseEvents, promised, overran>> BY DEF LoadAll
<1>t. licenseEvents \in 0 .. MaxLicenseEvents /\ overran \in BOOLEAN BY DEF LicenseInv, LicenseShape
<1>3. CASE licenseFile.whole
  <2> DEFINE s == [call EXCEPT !.step = "truncate"]
             r == [s EXCEPT !.all = all]
  <2>1. licenseCall' = [licenseCall EXCEPT ![c].step = "truncate", ![c].all = all]
    BY <1>3 DEF LoadAll, Changed
  <2>2. all \in Registers BY <1>1, <1>2, ChangedIs
  <2>3. s \in CallRecord /\ s.step = "truncate" /\ s.op = call.op /\ s.key = call.key /\ s.machine = call.machine
        /\ s.record = call.record /\ s.stale = call.stale
    BY <1>1 DEF CallRecord
  <2>4. licenseCall' = [licenseCall EXCEPT ![c] = r] BY <2>1 DEF LicenseInv, LicenseShape
  <2> HIDE DEF s, all
  <2>5. r \in CallRecord /\ r.step = "truncate" /\ r.op = call.op /\ r.key = call.key /\ r.machine = call.machine
        /\ r.record = call.record /\ r.stale = call.stale /\ r.all = all
    BY <2>2, <2>3 DEF CallRecord
  <2> HIDE DEF r
  <2>6. call.op = "activate" => call.machine \in Machines BY DEF LicenseInv, LicenseShape
  <2>7. call.op # "none" BY <1>1 DEF LicenseInv, LicenseShape
  <2>8. call.op = "issue" =>
           /\ call.key \notin promised.issued
           /\ \A d \in LicenseCalls : d # c /\ licenseCall[d].op = "issue" => licenseCall[d].key # call.key
    BY DEF LicenseInv, IssuesApart
  <2>9. ASSUME ~Spoilt, ~r.stale, Saving = {} PROVE Faithful(r, licenseFile.records)
    <3>1. Faithful(call, licenseFile.records) BY <2>5, <2>9, <1>1 DEF LicenseInv, RestOK
    <3> QED BY <3>1, <2>5 DEF Faithful, all
  <2> QED BY <2>4, <2>5, <2>6, <2>7, <2>8, <2>9, <1>1, <1>u, <1>t, CallMoves
<1>4. CASE ~licenseFile.whole
  <2>1. licenseCall' = [licenseCall EXCEPT ![c] = NoCall] BY <1>4 DEF LoadAll
  <2> QED BY <2>1, <1>1, <1>u, <1>t, RecordOf, CallMoves
<1> QED BY <1>3, <1>4

(* A kill keeps the invariant: in the middle of a save it spoils the file,   *)
(* before it has no effect.                                                  *)
LEMMA KillCallStep ==
  ASSUME LicenseInv, NEW c \in LicenseCalls, KillCall(c)
  PROVE  LicenseInv'
<1>1. licenseCall' = [licenseCall EXCEPT ![c] = NoCall] /\ licenseEvents < MaxLicenseEvents
      /\ licenseEvents' = licenseEvents + 1 /\ UNCHANGED <<licenseFile, copies, licenseTime, promised>>
  BY DEF KillCall
<1>2. overran' \in BOOLEAN /\ (overran => overran') /\ (licenseCall[c].step = "write" => overran')
  BY Zenon DEF KillCall
<1>3. licenseEvents' \in 0 .. MaxLicenseEvents
  BY <1>1, RegisterAssumption DEF LicenseInv, LicenseShape
<1> QED BY <1>1, <1>2, <1>3, RecordOf, CallMoves

(* The calls that are overtaken by a save keep all but their mark. *)
LEMMA OvertakenOf ==
  ASSUME LicenseInv, NEW c \in LicenseCalls
  PROVE  /\ Overtaken(c) \in [LicenseCalls -> CallRecord]
         /\ Overtaken(c)[c] = licenseCall[c]
         /\ \A d \in LicenseCalls :
              /\ Overtaken(c)[d].op = licenseCall[d].op /\ Overtaken(c)[d].key = licenseCall[d].key
              /\ Overtaken(c)[d].machine = licenseCall[d].machine /\ Overtaken(c)[d].step = licenseCall[d].step
              /\ d # c /\ licenseCall[d].step # "idle" => Overtaken(c)[d].stale
<1> SUFFICES ASSUME NEW d \in LicenseCalls
             PROVE  /\ Overtaken(c)[d] \in CallRecord
                    /\ d = c => Overtaken(c)[d] = licenseCall[c]
                    /\ Overtaken(c)[d].op = licenseCall[d].op /\ Overtaken(c)[d].key = licenseCall[d].key
                    /\ Overtaken(c)[d].machine = licenseCall[d].machine /\ Overtaken(c)[d].step = licenseCall[d].step
                    /\ d # c /\ licenseCall[d].step # "idle" => Overtaken(c)[d].stale
  BY DEF Overtaken
<1>1. licenseCall[d] \in CallRecord BY DEF LicenseInv, LicenseShape
<1>2. CASE d # c /\ licenseCall[d].step # "idle"
  <2>1. Overtaken(c)[d] = [licenseCall[d] EXCEPT !.stale = TRUE] BY <1>2 DEF Overtaken
  <2> QED BY <2>1, <1>1, <1>2 DEF CallRecord
<1>3. CASE ~(d # c /\ licenseCall[d].step # "idle")
  <2>1. Overtaken(c)[d] = licenseCall[d] BY <1>3 DEF Overtaken
  <2> QED BY <2>1, <1>1, <1>3
<1> QED BY <1>2, <1>3

(* What an answered call adds to the promises. *)
LEMMA AnswerIs ==
  ASSUME LicenseInv, NEW c \in LicenseCalls, licenseCall[c].step # "idle"
  PROVE  LET call == licenseCall[c] IN
         /\ Answer(call) \in PromiseRecord
         /\ Answer(call).issued = promised.issued \cup (IF call.op = "issue" THEN {call.key} ELSE {})
         /\ Answer(call).revoked = promised.revoked \cup (IF call.op = "revoke" THEN {call.key} ELSE {})
         /\ \A k \in Keys : Answer(call).given[k] =
              promised.given[k] + (IF call.op = "activate" /\ k = call.key THEN 1 ELSE 0)
<1> DEFINE call == licenseCall[c]
<1>1. call \in CallRecord /\ call.op # "none" /\ promised \in PromiseRecord
  BY DEF LicenseInv, LicenseShape
<1>2. call.key \in Keys /\ call.op \in {"issue", "activate", "revoke"} BY <1>1 DEF CallRecord
<1>3. promised.given \in [Keys -> Nat] /\ promised.issued \subseteq Keys /\ promised.revoked \subseteq Keys
  BY <1>1 DEF PromiseRecord
<1> HIDE DEF call
<1>4. CASE call.op = "issue"
  <2>1. Answer(call) = [promised EXCEPT !.issued = @ \cup {call.key}] BY <1>4 DEF Answer
  <2> QED BY <2>1, <1>1, <1>2, <1>3, <1>4 DEF PromiseRecord, call
<1>5. CASE call.op = "revoke"
  <2>1. Answer(call) = [promised EXCEPT !.revoked = @ \cup {call.key}] BY <1>5 DEF Answer
  <2> QED BY <2>1, <1>1, <1>2, <1>3, <1>5 DEF PromiseRecord, call
<1>6. CASE call.op = "activate"
  <2>1. Answer(call) = [promised EXCEPT !.given = [promised.given EXCEPT ![call.key] = @ + 1]]
    BY <1>6 DEF Answer
  <2>2. [promised.given EXCEPT ![call.key] = @ + 1] \in [Keys -> Nat] BY <1>2, <1>3
  <2> QED BY <2>1, <2>2, <1>1, <1>2, <1>3, <1>6 DEF PromiseRecord, call
<1> QED BY <1>2, <1>4, <1>5, <1>6

(* A register that was true stays true with the change of a call that        *)
(* follows from it, once that call is answered.                              *)
LEMMA TruthKept ==
  ASSUME LicenseInv, NEW c \in LicenseCalls, licenseCall[c].step = "truncate",
         Truthful(licenseFile.records, promised), Faithful(licenseCall[c], licenseFile.records)
  PROVE  Truthful(licenseCall[c].all, Answer(licenseCall[c]))
<1> DEFINE call == licenseCall[c]
           R == licenseFile.records
           k == call.key
           new == call.record
           after == Answer(call)
<1>1. call \in CallRecord /\ call.op # "none" /\ promised \in PromiseRecord /\ R \in Registers
  BY DEF LicenseInv, LicenseShape
<1>2. k \in Keys /\ new \in Records /\ call.op \in {"issue", "activate", "revoke"} BY <1>1 DEF CallRecord
<1>3. /\ after.issued = promised.issued \cup (IF call.op = "issue" THEN {k} ELSE {})
      /\ after.revoked = promised.revoked \cup (IF call.op = "revoke" THEN {k} ELSE {})
      /\ \A j \in Keys : after.given[j] = promised.given[j] + (IF call.op = "activate" /\ j = k THEN 1 ELSE 0)
  BY AnswerIs
<1>4. call.all = Changed(R, k, new) BY DEF Faithful
<1>5. DOMAIN call.all = DOMAIN R \cup {k} /\ call.all[k] = new
      /\ \A j \in DOMAIN R : j # k => call.all[j] = R[j]
  <2> HIDE DEF R, k, new, call
  <2>1. DOMAIN Changed(R, k, new) = DOMAIN R \cup {k} BY DEF Changed
  <2>2. Changed(R, k, new)[k] = new BY <1>1, <1>2, ChangedIs
  <2>3. \A j \in DOMAIN R : j # k => Changed(R, k, new)[j] = R[j] BY <1>1, <1>2, ChangedIs
  <2> QED BY <1>4, <2>1, <2>2, <2>3
<1>6. DOMAIN R = promised.issued /\ promised.issued \subseteq Keys /\ promised.given \in [Keys -> Nat]
  BY <1>1 DEF Truthful, PromiseRecord
<1>7a. \A j \in promised.issued : R[j] \in Records
  BY <1>1, <1>6, RegisterOf
<1>7. \A j \in promised.issued : /\ R[j].used = promised.given[j]
                                 /\ R[j].used <= R[j].terms.seats
                                 /\ R[j].active <=> j \notin promised.revoked
  BY DEF Truthful
<1>8. \A j \in Keys \ promised.issued : promised.given[j] = 0 /\ j \notin promised.revoked
  BY DEF Truthful
<1>9. \A r \in Records : r.used \in Nat /\ r.terms.seats \in Nat /\ r.active \in BOOLEAN
  BY TermsAssumption DEF Records
<1>10a. call.op = "issue" => k \notin promised.issued
  BY DEF LicenseInv, IssuesApart
<1>10. /\ call.op = "issue" => new.active /\ new.used = 0
       /\ call.op = "activate" => /\ k \in DOMAIN R /\ R[k].used < R[k].terms.seats
                                  /\ new = [R[k] EXCEPT !.used = @ + 1]
       /\ call.op = "revoke" => k \in DOMAIN R /\ new = [R[k] EXCEPT !.active = FALSE]
  BY DEF Faithful
<1> HIDE DEF after, new, k, R, call
<1>12. /\ new.used = after.given[k] /\ new.used <= new.terms.seats
       /\ new.active <=> k \notin after.revoked
       /\ k \in after.issued
  <2>1. CASE call.op = "issue"
    <3>1. new.used = 0 /\ new.active /\ k \notin promised.issued BY <2>1, <1>10, <1>10a
    <3>2. promised.given[k] = 0 /\ k \notin promised.revoked BY <3>1, <1>2, <1>8
    <3>3. after.given[k] = promised.given[k] + 0 BY <2>1, <1>2, <1>3
    <3>4. after.given[k] = 0 BY <3>2, <3>3
    <3>5. k \notin after.revoked BY <2>1, <3>2, <1>3
    <3>6. k \in after.issued BY <2>1, <1>3
    <3>7. new.terms.seats \in Nat BY <1>2, <1>9
    <3> QED BY <3>1, <3>4, <3>5, <3>6, <3>7
  <2>2. CASE call.op = "activate"
    <3>1. k \in promised.issued /\ R[k] \in Records /\ R[k].used < R[k].terms.seats /\ new = [R[k] EXCEPT !.used = @ + 1]
      BY <2>2, <1>6, <1>7a, <1>10
    <3>2. new.used = R[k].used + 1 /\ new.terms = R[k].terms /\ new.active = R[k].active BY <3>1 DEF Records
    <3>3. after.given[k] = promised.given[k] + 1 BY <2>2, <1>2, <1>3
    <3>3a. after.revoked = promised.revoked BY <2>2, <1>3
    <3>4. R[k].used \in Nat /\ R[k].terms.seats \in Nat BY <3>1, <1>9
    <3>5. R[k].used = promised.given[k] /\ (R[k].active <=> k \notin promised.revoked) BY <3>1, <1>7
    <3>6. k \in after.issued BY <3>1, <1>3
    <3>7. new.used = after.given[k] BY <3>2, <3>3, <3>5
    <3>8. new.used <= new.terms.seats BY <3>1, <3>2, <3>4
    <3> QED BY <3>2, <3>3a, <3>5, <3>6, <3>7, <3>8
  <2>3. CASE call.op = "revoke"
    <3>1. k \in promised.issued /\ R[k] \in Records /\ new = [R[k] EXCEPT !.active = FALSE]
      BY <2>3, <1>6, <1>7a, <1>10
    <3>2. new.used = R[k].used /\ new.terms = R[k].terms /\ ~new.active BY <3>1 DEF Records
    <3>3. after.given[k] = promised.given[k] + 0 BY <2>3, <1>2, <1>3
    <3>4. k \in after.revoked BY <2>3, <1>3
    <3>5. promised.given[k] \in Nat BY <1>2, <1>6
    <3>6. after.given[k] = promised.given[k] BY <3>3, <3>5
    <3>7. R[k].used = promised.given[k] /\ R[k].used <= R[k].terms.seats BY <3>1, <1>7
    <3>8. k \in after.issued BY <3>1, <1>3
    <3> QED BY <3>2, <3>4, <3>6, <3>7, <3>8
  <2> QED BY <2>1, <2>2, <2>3, <1>2
<1>13. DOMAIN call.all = after.issued
  <2>1. CASE call.op = "issue" BY <2>1, <1>3, <1>5, <1>6
  <2>2. CASE call.op # "issue"
    <3>1. k \in DOMAIN R BY <2>2, <1>2, <1>10
    <3> QED BY <3>1, <2>2, <1>3, <1>5, <1>6
  <2> QED BY <2>1, <2>2
<1>14. ASSUME NEW j \in after.issued
       PROVE  /\ call.all[j].used = after.given[j]
              /\ call.all[j].used <= call.all[j].terms.seats
              /\ call.all[j].active <=> j \notin after.revoked
  <2>1. CASE j = k BY <2>1, <1>5, <1>12
  <2>2. CASE j # k
    <3>1. j \in promised.issued BY <2>2, <1>14, <1>3
    <3>2. call.all[j] = R[j] BY <2>2, <3>1, <1>5, <1>6
    <3>3. j \in Keys /\ promised.given[j] \in Nat BY <3>1, <1>6
    <3>4. after.given[j] = promised.given[j] + 0 BY <2>2, <3>3, <1>3
    <3>5. after.given[j] = promised.given[j] BY <3>3, <3>4
    <3>6. j \in after.revoked <=> j \in promised.revoked BY <2>2, <1>3
    <3> QED BY <3>1, <3>2, <3>5, <3>6, <1>7
  <2> QED BY <2>1, <2>2
<1>15. ASSUME NEW j \in Keys \ after.issued PROVE after.given[j] = 0 /\ j \notin after.revoked
  <2>1. j # k /\ j \notin promised.issued BY <1>15, <1>12, <1>3
  <2>2. promised.given[j] = 0 /\ j \notin promised.revoked BY <2>1, <1>8, <1>15
  <2>3. after.given[j] = promised.given[j] + 0 BY <2>1, <1>3, <1>15
  <2> QED BY <2>1, <2>2, <2>3, <1>3
<1>16. Truthful(call.all, after) BY <1>13, <1>14, <1>15 DEF Truthful
<1> QED BY <1>16 DEF call, after

(* Truncating the file keeps the invariant: all other calls are marked as    *)
(* overtaken.                                                                *)
LEMMA TruncateStep ==
  ASSUME LicenseInv, NEW c \in LicenseCalls, TruncateLicenses(c)
  PROVE  LicenseInv'
<1> DEFINE O == Overtaken(c)
           r == [licenseCall[c] EXCEPT !.step = "write"]
<1>1. licenseCall[c].step = "truncate" /\ licenseFile' = [whole |-> TRUE, records |-> << >>]
      /\ licenseCall' = [O EXCEPT ![c].step = "write"]
      /\ UNCHANGED <<copies, licenseTime, licenseEvents, promised, overran>>
  BY DEF TruncateLicenses
<1>2. licenseCall[c] \in CallRecord BY DEF LicenseInv, LicenseShape
<1>3. r \in CallRecord /\ r.step = "write" /\ r.op = licenseCall[c].op /\ r.key = licenseCall[c].key
      /\ r.machine = licenseCall[c].machine /\ r.all = licenseCall[c].all /\ r.stale = licenseCall[c].stale
  BY <1>2 DEF CallRecord
<1>4. O \in [LicenseCalls -> CallRecord] /\ O[c] = licenseCall[c] BY OvertakenOf
<1>5. licenseCall' = [O EXCEPT ![c] = r] BY <1>1, <1>4
<1> HIDE DEF r
<1>6. /\ licenseCall' \in [LicenseCalls -> CallRecord] /\ licenseCall'[c] = r
      /\ \A d \in LicenseCalls : d # c => licenseCall'[d] = O[d]
  BY <1>3, <1>4, <1>5
<1>7. \A d \in LicenseCalls :
        /\ licenseCall'[d].op = licenseCall[d].op /\ licenseCall'[d].key = licenseCall[d].key
        /\ licenseCall'[d].machine = licenseCall[d].machine
        /\ d # c => licenseCall'[d].step = licenseCall[d].step
        /\ d # c /\ licenseCall[d].step # "idle" => licenseCall'[d].stale
  BY <1>3, <1>6, OvertakenOf
<1> HIDE DEF O
<1>8. LicenseShape'
  <2>1. licenseFile' \in [whole : BOOLEAN, records : Registers] BY <1>1, RegisterOf
  <2>2. \A d \in LicenseCalls : (licenseCall'[d].op = "none") <=> (licenseCall'[d].step = "idle")
    BY <1>1, <1>3, <1>6, <1>7 DEF LicenseInv, LicenseShape
  <2>3. \A d \in LicenseCalls : licenseCall'[d].op = "activate" => licenseCall'[d].machine \in Machines
    BY <1>7 DEF LicenseInv, LicenseShape
  <2> QED BY <2>1, <2>2, <2>3, <1>1, <1>6 DEF LicenseInv, LicenseShape
<1>9. IssuesApart' BY <1>1, <1>7 DEF LicenseInv, IssuesApart
<1>10. Saving' = Saving \cup {c} BY <1>3, <1>6, <1>7 DEF Saving
<1>11. ASSUME ~Spoilt' PROVE RestOK' /\ WriteOK'
  <2>1. Saving = {}
    <3> SUFFICES ASSUME NEW d \in Saving PROVE FALSE OBVIOUS
    <3>1. d \in LicenseCalls /\ licenseCall[d].step = "write" /\ d # c BY <1>1 DEF Saving
    <3>2. licenseCall'[d].stale /\ d \in Saving' BY <3>1, <1>7, <1>10
    <3> QED BY <3>2, <1>11 DEF Spoilt
  <2>2. ~overran /\ ~licenseCall[c].stale
    <3>1. ~overran' /\ ~licenseCall'[c].stale BY <1>10, <1>11 DEF Spoilt
    <3> QED BY <3>1, <1>1, <1>3, <1>6
  <2>3. RestOK /\ ~Spoilt BY <2>1, <2>2 DEF LicenseInv, Spoilt
  <2>4. Truthful(licenseCall[c].all, Answer(licenseCall[c]))
    BY <2>1, <2>2, <2>3, <1>1, TruthKept DEF RestOK
  <2>5. Answer(licenseCall[c])' = Answer(licenseCall[c]) BY <1>1, <1>3, <1>6 DEF Answer
  <2>6. Saving' = {c} BY <2>1, <1>10
  <2>7. WriteOK'
    <3>1. Truthful(licenseCall[c].all, Answer(licenseCall[c]))' BY <2>4, <2>5, <1>3, <1>6
    <3> QED BY <2>6, <3>1 DEF WriteOK
  <2> QED BY <2>6, <2>7 DEF RestOK
<1>12. CopiesOK' BY <1>1, CopiesRest
<1> QED BY <1>8, <1>9, <1>11, <1>12 DEF LicenseInv

(* A machine that activates gets a copy and a seat is given: the copies of a *)
(* license stay at most as many as its seats given.                          *)
LEMMA CopiesStep ==
  ASSUME LicenseInv, NEW c \in LicenseCalls, WriteLicenses(c)
  PROVE  CopiesOK'
<1> DEFINE call == licenseCall[c]
           m == call.machine
<1>1. call.step = "write" /\ promised' = Answer(call) BY DEF WriteLicenses
<1>2. copies' = IF call.op = "activate"
        THEN [n \in DOMAIN copies \cup {m} |->
                IF n = m THEN [key |-> call.key, record |-> call.record] ELSE copies[n]]
        ELSE copies
  BY DEF WriteLicenses
<1>3. \A k \in Keys : promised'.given[k] =
        promised.given[k] + (IF call.op = "activate" /\ k = call.key THEN 1 ELSE 0)
  BY <1>1, AnswerIs
<1>4. promised.given \in [Keys -> Nat] BY DEF LicenseInv, LicenseShape, PromiseRecord
<1>5. IsFiniteSet(DOMAIN copies) /\ \A k \in Keys : Cardinality(Holders(k)) <= promised.given[k]
  BY DEF LicenseInv, CopiesOK
<1>6. \A k : IsFiniteSet(Holders(k)) /\ Cardinality(Holders(k)) \in Nat
  <2> TAKE k
  <2>1. Holders(k) \in SUBSET DOMAIN copies BY DEF Holders
  <2>2. IsFiniteSet(Holders(k)) BY <2>1, <1>5, FS_Subset
  <2> QED BY <2>2, FS_CardinalityType
<1> HIDE DEF call, m
<1>7. CASE call.op # "activate"
  <2>1. copies' = copies BY <1>2, <1>7
  <2>2. \A k : Holders(k)' = Holders(k) BY <2>1 DEF Holders
  <2>3. \A k \in Keys : promised'.given[k] = promised.given[k] BY <1>3, <1>4, <1>7
  <2> QED BY <2>1, <2>2, <2>3, <1>5 DEF CopiesOK
<1>8. CASE call.op = "activate"
  <2>1. DOMAIN copies' = DOMAIN copies \cup {m}
        /\ \A n \in DOMAIN copies' : copies'[n].key = IF n = m THEN call.key ELSE copies[n].key
    BY <1>2, <1>8
  <2>2. IsFiniteSet(DOMAIN copies') BY <2>1, <1>5, FS_AddElement
  <2>3. ASSUME NEW k \in Keys PROVE Cardinality(Holders(k))' <= promised'.given[k]
    <3>1. CASE k = call.key
      <4>1. Holders(k)' \in SUBSET (Holders(k) \cup {m}) BY <2>1 DEF Holders
      <4>2. IsFiniteSet(Holders(k) \cup {m}) /\ Cardinality(Holders(k) \cup {m}) \in Nat
            /\ Cardinality(Holders(k) \cup {m}) <= Cardinality(Holders(k)) + 1
        <5>1. IsFiniteSet(Holders(k) \cup {m})
              /\ Cardinality(Holders(k) \cup {m}) =
                   IF m \in Holders(k) THEN Cardinality(Holders(k)) ELSE Cardinality(Holders(k)) + 1
          BY <1>6, FS_AddElement
        <5> QED BY <5>1, <1>6
      <4>3. IsFiniteSet(Holders(k)') /\ Cardinality(Holders(k)') <= Cardinality(Holders(k) \cup {m})
        BY <4>1, <4>2, FS_Subset
      <4>4. Cardinality(Holders(k)') \in Nat BY <4>3, FS_CardinalityType
      <4>5. promised'.given[k] = promised.given[k] + 1 BY <3>1, <1>3, <1>8
      <4>6. Cardinality(Holders(k)') <= promised'.given[k] BY <4>2, <4>3, <4>4, <4>5, <1>4, <1>5, <1>6
      <4> QED BY <4>6
    <3>2. CASE k # call.key
      <4>1. Holders(k)' \in SUBSET Holders(k) BY <3>2, <2>1 DEF Holders
      <4>2. IsFiniteSet(Holders(k)') /\ Cardinality(Holders(k)') <= Cardinality(Holders(k))
        BY <4>1, <1>6, FS_Subset
      <4>3. Cardinality(Holders(k)') \in Nat BY <4>2, FS_CardinalityType
      <4>4. promised'.given[k] = promised.given[k] BY <3>2, <1>3, <1>4
      <4>5. Cardinality(Holders(k)') <= promised'.given[k] BY <4>2, <4>3, <4>4, <1>4, <1>5, <1>6
      <4> QED BY <4>5
    <3> QED BY <3>1, <3>2
  <2> QED BY <2>2, <2>3 DEF CopiesOK
<1> QED BY <1>7, <1>8

(* Writing the file keeps the invariant: it tells what was promised, the     *)
(* call's own promise included.                                              *)
LEMMA WriteStep ==
  ASSUME LicenseInv, NEW c \in LicenseCalls, WriteLicenses(c)
  PROVE  LicenseInv'
<1> DEFINE O == Overtaken(c)
           call == licenseCall[c]
<1>1. call.step = "write" /\ licenseCall' = [O EXCEPT ![c] = NoCall] /\ promised' = Answer(call)
      /\ UNCHANGED <<licenseTime, licenseEvents>>
  BY DEF WriteLicenses
<1>2. \/ licenseFile' = [whole |-> TRUE, records |-> call.all]
      \/ call.stale /\ licenseFile' = [whole |-> FALSE, records |-> << >>]
  BY DEF WriteLicenses
<1>3. copies' = IF call.op = "activate"
        THEN [m \in DOMAIN copies \cup {call.machine} |->
                IF m = call.machine THEN [key |-> call.key, record |-> call.record] ELSE copies[m]]
        ELSE copies
  BY DEF WriteLicenses
<1>4. overran' \in BOOLEAN /\ (overran => overran') /\ (call.stale => overran') BY Zenon DEF WriteLicenses
<1>5. call \in CallRecord /\ (call.op = "activate" => call.machine \in Machines)
  BY DEF LicenseInv, LicenseShape
<1>6. O \in [LicenseCalls -> CallRecord] BY OvertakenOf
<1>7. /\ licenseCall' \in [LicenseCalls -> CallRecord] /\ licenseCall'[c] = NoCall
      /\ \A d \in LicenseCalls : d # c => licenseCall'[d] = O[d]
  BY <1>1, <1>6, RecordOf
<1>8. \A d \in LicenseCalls : d # c =>
        /\ licenseCall'[d].op = licenseCall[d].op /\ licenseCall'[d].key = licenseCall[d].key
        /\ licenseCall'[d].machine = licenseCall[d].machine
        /\ licenseCall'[d].step = licenseCall[d].step
        /\ licenseCall[d].step # "idle" => licenseCall'[d].stale
  BY <1>7, OvertakenOf
<1>9. /\ Answer(call) \in PromiseRecord
      /\ Answer(call).issued = promised.issued \cup (IF call.op = "issue" THEN {call.key} ELSE {})
  BY <1>1, AnswerIs
<1> HIDE DEF O, call
<1>10. licenseCall'[c].op = "none" /\ licenseCall'[c].step = "idle" BY <1>7, RecordOf
<1>11. LicenseShape'
  <2>1. licenseFile' \in [whole : BOOLEAN, records : Registers]
    <3>1. call.all \in Registers BY <1>5 DEF CallRecord
    <3>2. [whole |-> TRUE, records |-> call.all] \in [whole : BOOLEAN, records : Registers] BY <3>1
    <3>3. [whole |-> FALSE, records |-> << >>] \in [whole : BOOLEAN, records : Registers] BY RegisterOf
    <3> QED BY <3>2, <3>3, <1>2
  <2>2. \A d \in LicenseCalls : (licenseCall'[d].op = "none") <=> (licenseCall'[d].step = "idle")
    BY <1>8, <1>10 DEF LicenseInv, LicenseShape
  <2>3. \A d \in LicenseCalls : licenseCall'[d].op = "activate" => licenseCall'[d].machine \in Machines
    BY <1>8, <1>10 DEF LicenseInv, LicenseShape
  <2>4. \A m \in DOMAIN copies' : m \in Machines /\ copies'[m].key \in Keys
    <3>1. \A m \in DOMAIN copies : m \in Machines /\ copies[m].key \in Keys BY DEF LicenseInv, LicenseShape
    <3>2. call.key \in Keys BY <1>5 DEF CallRecord
    <3>3. CASE call.op = "activate" BY <3>1, <3>2, <3>3, <1>3, <1>5
    <3>4. CASE call.op # "activate" BY <3>1, <3>4, <1>3
    <3> QED BY <3>3, <3>4
  <2>5. licenseTime' \in 0 .. MaxLicenseTime /\ licenseEvents' \in 0 .. MaxLicenseEvents
    BY <1>1 DEF LicenseInv, LicenseShape
  <2> QED BY <2>1, <2>2, <2>3, <2>4, <2>5, <1>1, <1>4, <1>7, <1>9 DEF LicenseShape
<1>12. IssuesApart'
  <2> SUFFICES ASSUME NEW d \in LicenseCalls, licenseCall'[d].op = "issue"
               PROVE  /\ licenseCall'[d].key \notin promised'.issued
                      /\ \A e \in LicenseCalls : e # d /\ licenseCall'[e].op = "issue" =>
                           licenseCall'[e].key # licenseCall'[d].key
    BY DEF IssuesApart
  <2>1. d # c BY <1>10
  <2>2. licenseCall[d].op = "issue" /\ licenseCall'[d].key = licenseCall[d].key BY <2>1, <1>8
  <2>3. licenseCall[d].key \notin promised.issued BY <2>2 DEF LicenseInv, IssuesApart
  <2>4. \A e \in LicenseCalls : e # d /\ licenseCall[e].op = "issue" => licenseCall[e].key # licenseCall[d].key
    BY <2>2 DEF LicenseInv, IssuesApart
  <2>5. call.op = "issue" => call.key # licenseCall[d].key BY <2>1, <2>4 DEF call
  <2>6. licenseCall[d].key \notin promised'.issued BY <2>3, <2>5, <1>1, <1>9
  <2> QED BY <2>2, <2>4, <2>6, <1>8, <1>10
<1>13. Saving' = Saving \ {c} BY <1>8, <1>10 DEF Saving
<1>14. ASSUME ~Spoilt' PROVE RestOK' /\ WriteOK'
  <2>1. Saving = {c}
    <3>1. c \in Saving BY <1>1 DEF Saving, call
    <3> SUFFICES ASSUME NEW d \in Saving, d # c PROVE FALSE BY <3>1
    <3>2. d \in LicenseCalls /\ licenseCall[d].step = "write" BY DEF Saving
    <3>3. licenseCall'[d].stale /\ d \in Saving' BY <3>2, <1>8, <1>13
    <3> QED BY <3>3, <1>14 DEF Spoilt
  <2>2. ~overran /\ ~call.stale BY <1>4, <1>14 DEF Spoilt
  <2>3. ~Spoilt BY <2>1, <2>2 DEF Spoilt, call
  <2>4. Truthful(call.all, Answer(call)) BY <2>1, <2>3 DEF LicenseInv, WriteOK, call
  <2>5. licenseFile' = [whole |-> TRUE, records |-> call.all] BY <2>2, <1>2
  <2>6. Saving' = {} BY <2>1, <1>13
  <2>7. Truthful(licenseFile'.records, promised') BY <2>4, <2>5, <1>1
  <2>8. \A d \in LicenseCalls : ~(licenseCall'[d].step # "idle" /\ ~licenseCall'[d].stale)
    BY <1>8, <1>10
  <2> QED BY <2>5, <2>6, <2>7, <2>8 DEF RestOK, WriteOK
<1> QED BY <1>11, <1>12, <1>14, CopiesStep DEF LicenseInv

(* Every step of the license server keeps the invariant. *)
LEMMA LicenseStep == LicenseInv /\ [LicenseNext]_licenseVars => LicenseInv'
<1> SUFFICES ASSUME LicenseInv, [LicenseNext]_licenseVars PROVE LicenseInv' OBVIOUS
<1>1. ASSUME UNCHANGED <<licenseFile, licenseCall, copies, licenseEvents, promised, overran>>,
             licenseTime' \in 0 .. MaxLicenseTime
      PROVE  LicenseInv'
  <2>1. LicenseShape' BY <1>1 DEF LicenseInv, LicenseShape
  <2>2. IssuesApart' BY <1>1 DEF LicenseInv, IssuesApart
  <2>3. Saving' = Saving BY <1>1 DEF Saving
  <2>4. Spoilt' <=> Spoilt BY <2>3, <1>1 DEF Spoilt
  <2>5. RestOK => RestOK' BY <2>3, <1>1 DEF RestOK
  <2>6. \A d : Answer(licenseCall[d])' = Answer(licenseCall[d]) BY <1>1 DEF Answer
  <2>7. WriteOK => WriteOK' BY <2>3, <2>6, <1>1 DEF WriteOK
  <2>8. CopiesOK' BY <1>1, CopiesRest
  <2> QED BY <2>1, <2>2, <2>4, <2>5, <2>7, <2>8 DEF LicenseInv
<1>2. CASE LicenseTick
  <2>1. licenseTime' \in 0 .. MaxLicenseTime
    BY <1>2, RegisterAssumption DEF LicenseTick, LicenseInv, LicenseShape
  <2> QED BY <1>1, <1>2, <2>1 DEF LicenseTick
<1>3. CASE UNCHANGED licenseVars
  BY <1>1, <1>3 DEF licenseVars, LicenseInv, LicenseShape
<1> QED
  BY <1>2, <1>3, IssueStep, ActivateStep, RevokeStep, LoadStep, TruncateStep, WriteStep, KillCallStep
  DEF LicenseNext

(* Unless a save was overtaken or cut off, the license file tells every      *)
(* license with the seats that were given and no more than were sold, and a  *)
(* revoked one as revoked; no license runs on more machines than it has      *)
(* seats, whether the server or the copies decide; and where the server is   *)
(* asked, no cloud license runs that was revoked: for any number of calls,   *)
(* keys and machines, with or without a LICENSE_SERVER_URL.                  *)
THEOREM LicensesAreTrue == LicenseSpec => []LicensesTrue
<1>1. LicenseInv => LicensesTrue
  <2> SUFFICES ASSUME LicenseInv, ~overran, Settled
               PROVE  /\ licenseFile.whole /\ DOMAIN licenseFile.records = promised.issued
                      /\ \A k \in promised.issued :
                           /\ LicenseOf(k).used = promised.given[k]
                           /\ LicenseOf(k).used <= LicenseOf(k).terms.seats
                           /\ LicenseOf(k).active = (k \notin promised.revoked)
                      /\ \A k \in promised.issued : Cardinality(RunningOn(k)) <= LicenseOf(k).terms.seats
                      /\ \A m \in Configured :
                           ClientValid(m) /\ copies[m].record.terms.mode = "cloud" =>
                             copies[m].key \notin promised.revoked
    BY DEF LicensesTrue
  <2>1. Saving = {} BY DEF Settled, Saving
  <2>2. RestOK /\ ~Spoilt BY <2>1 DEF LicenseInv, Spoilt
  <2>3. licenseFile.whole /\ Truthful(licenseFile.records, promised) BY <2>1, <2>2 DEF RestOK
  <2>4. licenseFile.records \in Registers BY DEF LicenseInv, LicenseShape
  <2>5. DOMAIN licenseFile.records = promised.issued BY <2>3 DEF Truthful
  <2>6. ASSUME NEW k \in promised.issued
        PROVE  /\ LicenseOf(k).used = promised.given[k] /\ LicenseOf(k).used <= LicenseOf(k).terms.seats
               /\ LicenseOf(k).active <=> k \notin promised.revoked
               /\ LicenseOf(k).active \in BOOLEAN
    <3>1. licenseFile.records[k] \in Records BY <2>4, <2>5, <2>6, RegisterOf DEF IsRegister
    <3>2. licenseFile.records[k].active \in BOOLEAN BY Zenon, <3>1 DEF Records
    <3> QED BY <3>2, <2>3 DEF Truthful, LicenseOf
  <2>7. ASSUME NEW m \in Configured, ClientValid(m), copies[m].record.terms.mode = "cloud"
        PROVE  copies[m].key \notin promised.revoked
    <3>1. Valid(copies[m].key, m) BY <2>7 DEF ClientValid
    <3>2. copies[m].key \in promised.issued /\ LicenseOf(copies[m].key).active
      BY <3>1, <2>5 DEF Valid, Found
    <3> QED BY <3>2, <2>6
  <2>8. ASSUME NEW k \in promised.issued
        PROVE  Cardinality(RunningOn(k)) <= LicenseOf(k).terms.seats
    <3>1. k \in Keys /\ promised.given \in [Keys -> Nat] BY <2>8 DEF LicenseInv, LicenseShape, PromiseRecord
    <3>2. IsFiniteSet(DOMAIN copies) /\ Cardinality(Holders(k)) <= promised.given[k]
      BY <3>1 DEF LicenseInv, CopiesOK
    <3>3. RunningOn(k) \in SUBSET Holders(k) /\ Holders(k) \in SUBSET DOMAIN copies
      BY DEF RunningOn, Holders, ClientValid
    <3>4. IsFiniteSet(Holders(k)) BY <3>2, <3>3, FS_Subset
    <3>5. IsFiniteSet(RunningOn(k)) /\ Cardinality(RunningOn(k)) <= Cardinality(Holders(k))
      BY <3>3, <3>4, FS_Subset
    <3>6. Cardinality(RunningOn(k)) \in Nat /\ Cardinality(Holders(k)) \in Nat
      BY <3>4, <3>5, FS_CardinalityType
    <3>7. licenseFile.records[k] \in Records BY <2>4, <2>5, <2>8, RegisterOf DEF IsRegister
    <3>8. LicenseOf(k).terms.seats \in Nat BY <3>7, TermsAssumption DEF Records, LicenseOf
    <3>9. promised.given[k] <= LicenseOf(k).terms.seats BY <2>6, <2>8
    <3>10. promised.given[k] \in Nat BY <3>1
    <3> QED BY <3>2, <3>5, <3>6, <3>8, <3>9, <3>10
  <2> QED BY Zenon, <2>3, <2>5, <2>6, <2>7, <2>8
<1> QED BY <1>1, LicenseInitOK, LicenseStep, PTL DEF LicenseSpec

-----------------------------------------------------------------------------
Revocation == [id : 0 .. MaxDecisions, step : {"idle", "truncate", "write"}, lines : Seq(Decisions)]

(* The types of the register's state. *)
ConsentShape ==
  /\ consentFile \in [whole : BOOLEAN, lines : Seq(Decisions)]
  /\ revoking \in [Revokers -> Revocation]
  /\ consentTime \in 0 .. MaxConsentTime
  /\ decided \in Seq(Decisions) /\ Len(decided) <= MaxDecisions
  /\ withdrawn \subseteq 1 .. MaxDecisions
  /\ revocations \in 0 .. MaxRevocations
  /\ clashed \in BOOLEAN

(* Consents are numbered in the order of the decisions. *)
Numbered == \A n \in DOMAIN decided : decided[n].id = n

(* The lines of a file tell the decisions, and of each whether it was        *)
(* withdrawn.                                                                *)
Standing(lines) ==
  /\ DOMAIN lines = DOMAIN decided
  /\ \A n \in DOMAIN decided :
       /\ lines[n].id = n /\ lines[n].subject = decided[n].subject
       /\ lines[n].expires = decided[n].expires
       /\ lines[n].granted <=> decided[n].granted
       /\ lines[n].revoked <=> n \in withdrawn

(* The revocations that have truncated the file and not written it yet. *)
Rewriting == {v \in Revokers : revoking[v].step = "write"}

(* Where nobody rewrites the file, it tells the decisions, and a revocation  *)
(* that has read it has read what it holds.                                  *)
FileStands ==
  Rewriting = {} =>
    /\ consentFile.whole /\ Standing(consentFile.lines)
    /\ \A v \in Revokers : revoking[v].step = "truncate" => revoking[v].lines = consentFile.lines

(* Who rewrites the file is alone, and holds lines that tell the decisions. *)
RewriteStands == \A v \in Rewriting : Rewriting = {v} /\ Standing(revoking[v].lines)

(* The inductive invariant of the consent register. *)
ConsentInv ==
  /\ ConsentShape /\ Numbered
  /\ ~clashed => withdrawn \subseteq DOMAIN decided /\ FileStands /\ RewriteStands

(* The lines of a file are decisions, indexed from 1. *)
LEMMA DecisionsOf ==
  ASSUME NEW lines \in Seq(Decisions)
  PROVE  /\ \A n \in DOMAIN lines : n \in Nat /\ lines[n] \in Decisions
         /\ DOMAIN lines = 1 .. Len(lines) /\ Len(lines) \in Nat
OBVIOUS

(* Appending a decision adds an index and keeps the others. *)
LEMMA AppendIs ==
  ASSUME NEW lines \in Seq(Decisions), NEW d \in Decisions
  PROVE  /\ Append(lines, d) \in Seq(Decisions) /\ Len(Append(lines, d)) = Len(lines) + 1
         /\ DOMAIN Append(lines, d) = DOMAIN lines \cup {Len(lines) + 1}
         /\ Append(lines, d)[Len(lines) + 1] = d
         /\ \A n \in DOMAIN lines : n # Len(lines) + 1 /\ Append(lines, d)[n] = lines[n]
<1>1. Append(lines, d) \in Seq(Decisions) /\ Len(Append(lines, d)) = Len(lines) + 1 OBVIOUS
<1>2. DOMAIN lines = 1 .. Len(lines) /\ Len(lines) \in Nat OBVIOUS
<1>3. DOMAIN Append(lines, d) = 1 .. Len(lines) + 1 OBVIOUS
<1>4. Append(lines, d)[Len(lines) + 1] = d OBVIOUS
<1>5. \A n \in 1 .. Len(lines) : Append(lines, d)[n] = lines[n] OBVIOUS
<1> QED BY <1>1, <1>2, <1>3, <1>4, <1>5

(* Initially no decision was made and the file is empty. *)
LEMMA ConsentInitOK == ConsentInit => ConsentInv
<1> SUFFICES ASSUME ConsentInit PROVE ConsentInv OBVIOUS
<1>1. << >> \in Seq(Decisions) /\ DOMAIN << >> = {} /\ Len(<< >>) = 0 BY EmptyDomain
<1>2. NoRevocation \in Revocation /\ NoRevocation.step = "idle"
  BY <1>1, ConsentAssumption DEF NoRevocation, Revocation
<1>3. consentFile = [whole |-> TRUE, lines |-> << >>] /\ revoking = [v \in Revokers |-> NoRevocation]
      /\ consentTime = 0 /\ decided = << >> /\ withdrawn = {} /\ revocations = 0
  BY DEF ConsentInit
<1>4. clashed \in BOOLEAN BY Zenon DEF ConsentInit
<1>5. ConsentShape BY <1>1, <1>2, <1>3, <1>4, ConsentAssumption DEF ConsentShape
<1>6. Numbered BY <1>1, <1>3 DEF Numbered
<1>7. Standing(<< >>) BY <1>1, <1>3 DEF Standing
<1>8. \A v \in Revokers : revoking[v].step = "idle" BY <1>2, <1>3
<1>9. FileStands /\ RewriteStands BY <1>3, <1>7, <1>8 DEF FileStands, RewriteStands, Rewriting
<1> QED BY <1>3, <1>5, <1>6, <1>9 DEF ConsentInv

(* Recording a consent keeps the invariant: while the file is being revised  *)
(* it counts as a clash.                                                     *)
LEMMA RecordConsentStep ==
  ASSUME ConsentInv, NEW s \in Subjects, NEW g \in BOOLEAN, NEW days \in Lifetimes, RecordConsent(s, g, days)
  PROVE  ConsentInv'
<1> DEFINE d == [id |-> Len(decided) + 1, subject |-> s, granted |-> g,
                 expires |-> consentTime + days, revoked |-> FALSE]
           lines == consentFile.lines
<1>1. /\ Len(decided) < MaxDecisions /\ consentFile' = [consentFile EXCEPT !.lines = Append(@, d)]
      /\ decided' = Append(decided, d)
      /\ UNCHANGED <<revoking, consentTime, withdrawn, revocations>>
  BY DEF RecordConsent
<1>2. clashed' \in BOOLEAN /\ (clashed => clashed') /\ (InProgress # {} => clashed')
  BY Zenon DEF RecordConsent
<1>3. decided \in Seq(Decisions) /\ consentFile \in [whole : BOOLEAN, lines : Seq(Decisions)]
      /\ consentTime \in Nat /\ days \in Nat /\ MaxDecisions \in Nat
  BY ConsentAssumption DEF ConsentInv, ConsentShape
<1>4. d \in Decisions
  <2>1. Len(decided) + 1 \in 1 .. MaxDecisions BY <1>1, <1>3
  <2>2. consentTime + days \in Nat BY <1>3
  <2> QED BY <2>1, <2>2 DEF Decisions
<1>5. d.id = Len(decided) + 1 /\ d.subject = s /\ d.granted = g /\ d.expires = consentTime + days /\ ~d.revoked
  OBVIOUS
<1> HIDE DEF d
<1>6. /\ decided' \in Seq(Decisions) /\ Len(decided') = Len(decided) + 1
      /\ DOMAIN decided' = DOMAIN decided \cup {Len(decided) + 1}
      /\ decided'[Len(decided) + 1] = d
      /\ \A n \in DOMAIN decided : n # Len(decided) + 1 /\ decided'[n] = decided[n]
  BY <1>1, <1>3, <1>4, AppendIs
<1>7. consentFile' \in [whole : BOOLEAN, lines : Seq(Decisions)] /\ consentFile'.lines = Append(lines, d)
      /\ consentFile'.whole = consentFile.whole
  <2>1. Append(lines, d) \in Seq(Decisions) BY <1>3, <1>4
  <2> QED BY <2>1, <1>1, <1>3
<1>8. ConsentShape'
  <2>1. Len(decided') <= MaxDecisions BY <1>1, <1>3, <1>6
  <2> QED BY <2>1, <1>1, <1>2, <1>6, <1>7 DEF ConsentInv, ConsentShape
<1>9. Numbered' BY <1>5, <1>6 DEF ConsentInv, Numbered
<1>10. ASSUME ~clashed' PROVE withdrawn' \subseteq DOMAIN decided' /\ FileStands' /\ RewriteStands'
  <2>1. InProgress = {} /\ ~clashed BY <1>2, <1>10
  <2>2. Rewriting = {} /\ \A v \in Revokers : revoking[v].step = "idle"
    BY <2>1 DEF Rewriting, InProgress
  <2>3. consentFile.whole /\ Standing(lines) /\ withdrawn \subseteq DOMAIN decided
    BY <2>1, <2>2 DEF ConsentInv, FileStands
  <2>4. DOMAIN lines = DOMAIN decided /\ lines \in Seq(Decisions) BY <2>3, <1>3 DEF Standing
  <2>5. Len(lines) = Len(decided) BY <2>4, <1>3
  <2>6. /\ DOMAIN consentFile'.lines = DOMAIN decided' /\ consentFile'.lines[Len(decided) + 1] = d
        /\ \A n \in DOMAIN decided : consentFile'.lines[n] = lines[n]
    BY <2>4, <2>5, <1>3, <1>4, <1>6, <1>7, AppendIs
  <2>7. Len(decided) + 1 \notin withdrawn BY <2>3, <1>6
  <2> HIDE DEF lines
  <2>8. Standing(lines)' BY <2>3, <2>6, <2>7, <1>1, <1>5, <1>6 DEF Standing, lines
  <2>9. consentFile'.whole BY <2>3, <1>7
  <2>10. FileStands' BY <2>2, <2>8, <2>9, <1>1 DEF FileStands, lines
  <2>11. RewriteStands' BY <2>2, <1>1 DEF RewriteStands, Rewriting
  <2> QED BY <2>3, <2>10, <2>11, <1>1, <1>6
<1> QED BY <1>8, <1>9, <1>10 DEF ConsentInv

(* Beginning a revocation keeps the invariant: it holds the lines of the     *)
(* file.                                                                     *)
LEMMA RevokeConsentStep ==
  ASSUME ConsentInv, NEW v \in Revokers, NEW id \in 1 .. MaxDecisions, RevokeConsent(v, id)
  PROVE  ConsentInv'
<1> DEFINE r == [id |-> id, step |-> "truncate", lines |-> consentFile.lines]
<1>1. revoking[v].step = "idle" /\ revocations < MaxRevocations /\ consentFile.whole
      /\ revocations' = revocations + 1 /\ revoking' = [revoking EXCEPT ![v] = r]
      /\ UNCHANGED <<consentFile, consentTime, decided, withdrawn, clashed>>
  BY DEF RevokeConsent
<1>2. r \in Revocation BY DEF ConsentInv, ConsentShape, Revocation
<1>3. r.step = "truncate" /\ r.lines = consentFile.lines OBVIOUS
<1> HIDE DEF r
<1>4. /\ revoking' \in [Revokers -> Revocation] /\ revoking'[v] = r
      /\ \A u \in Revokers : u # v => revoking'[u] = revoking[u]
  BY <1>1, <1>2 DEF ConsentInv, ConsentShape
<1>5. revocations' \in 0 .. MaxRevocations
  BY <1>1, ConsentAssumption DEF ConsentInv, ConsentShape
<1>6. ConsentShape' BY <1>1, <1>4, <1>5 DEF ConsentInv, ConsentShape
<1>7. Rewriting' = Rewriting BY <1>1, <1>3, <1>4 DEF Rewriting
<1>8. Numbered' BY <1>1 DEF ConsentInv, Numbered
<1>9. \A lines : Standing(lines)' <=> Standing(lines) BY <1>1 DEF Standing
<1>10. FileStands => FileStands' BY <1>1, <1>3, <1>4, <1>7, <1>9 DEF FileStands, Standing
<1>11. RewriteStands => RewriteStands'
  <2> SUFFICES ASSUME RewriteStands, NEW u \in Rewriting'
               PROVE  Rewriting' = {u} /\ Standing(revoking[u].lines)'
    BY DEF RewriteStands
  <2>1. u \in Rewriting /\ u \in Revokers /\ u # v BY <1>1, <1>7 DEF Rewriting
  <2>2. Rewriting = {u} /\ Standing(revoking[u].lines) BY <2>1 DEF RewriteStands
  <2>3. revoking'[u] = revoking[u] BY <2>1, <1>4
  <2> QED BY <2>2, <2>3, <1>1, <1>7 DEF Standing
<1> QED BY <1>1, <1>6, <1>8, <1>10, <1>11 DEF ConsentInv

(* Truncating the file keeps the invariant: whoever is at it beside is a     *)
(* clash.                                                                    *)
LEMMA TruncateConsentsStep ==
  ASSUME ConsentInv, NEW v \in Revokers, TruncateConsents(v)
  PROVE  ConsentInv'
<1> DEFINE r == [revoking[v] EXCEPT !.step = "write"]
<1>1. revoking[v].step = "truncate" /\ revoking' = [revoking EXCEPT ![v].step = "write"]
      /\ consentFile' = [whole |-> TRUE, lines |-> << >>]
      /\ UNCHANGED <<consentTime, decided, withdrawn, revocations>>
  BY DEF TruncateConsents
<1>2. clashed' \in BOOLEAN /\ (clashed => clashed') /\ (InProgress # {v} => clashed')
  BY Zenon DEF TruncateConsents
<1>3. revoking \in [Revokers -> Revocation] BY DEF ConsentInv, ConsentShape
<1>4. r \in Revocation /\ r.step = "write" /\ r.lines = revoking[v].lines BY <1>3 DEF Revocation
<1>5. revoking' = [revoking EXCEPT ![v] = r] BY <1>1, <1>3
<1> HIDE DEF r
<1>6. /\ revoking' \in [Revokers -> Revocation] /\ revoking'[v] = r
      /\ \A u \in Revokers : u # v => revoking'[u] = revoking[u]
  BY <1>3, <1>4, <1>5
<1>7. ConsentShape'
  <2>1. << >> \in Seq(Decisions) OBVIOUS
  <2> QED BY <2>1, <1>1, <1>2, <1>6 DEF ConsentInv, ConsentShape
<1>8. Numbered' BY <1>1 DEF ConsentInv, Numbered
<1>9. \A lines : Standing(lines)' <=> Standing(lines) BY <1>1 DEF Standing
<1>10. ASSUME ~clashed' PROVE withdrawn' \subseteq DOMAIN decided' /\ FileStands' /\ RewriteStands'
  <2>1. InProgress = {v} /\ ~clashed BY <1>2, <1>10
  <2>2. Rewriting = {} BY <2>1, <1>1 DEF Rewriting, InProgress
  <2>3. withdrawn \subseteq DOMAIN decided /\ Standing(revoking[v].lines)
    BY <2>1, <2>2, <1>1 DEF ConsentInv, FileStands
  <2>4. Rewriting' = {v} BY <2>2, <1>4, <1>6 DEF Rewriting
  <2>5. Standing(revoking[v].lines)' BY <2>3, <1>1, <1>4, <1>6 DEF Standing
  <2>6. RewriteStands' BY <2>4, <2>5 DEF RewriteStands
  <2> QED BY <2>3, <2>4, <2>6, <1>1 DEF FileStands
<1> QED BY <1>7, <1>8, <1>10 DEF ConsentInv

(* Marking a consent as revoked changes that mark of it alone. *)
LEMMA MarkedIs ==
  ASSUME NEW lines \in Seq(Decisions), NEW id
  PROVE  /\ Marked(lines, id) \in Seq(Decisions) /\ DOMAIN Marked(lines, id) = DOMAIN lines
         /\ \A n \in DOMAIN lines :
              /\ Marked(lines, id)[n].id = lines[n].id /\ Marked(lines, id)[n].subject = lines[n].subject
              /\ Marked(lines, id)[n].granted = lines[n].granted
              /\ Marked(lines, id)[n].expires = lines[n].expires
              /\ Marked(lines, id)[n].revoked <=> lines[n].revoked \/ lines[n].id = id
<1> DEFINE after == Marked(lines, id)
<1>1. DOMAIN lines = 1 .. Len(lines) /\ Len(lines) \in Nat OBVIOUS
<1>2. DOMAIN after = DOMAIN lines BY DEF Marked
<1>3. ASSUME NEW n \in DOMAIN lines
      PROVE  /\ after[n] \in Decisions
             /\ after[n].id = lines[n].id /\ after[n].subject = lines[n].subject
             /\ after[n].granted = lines[n].granted /\ after[n].expires = lines[n].expires
             /\ after[n].revoked <=> lines[n].revoked \/ lines[n].id = id
  <2>1. lines[n] \in Decisions BY <1>1
  <2>2. CASE lines[n].id = id
    <3>1. after[n] = [lines[n] EXCEPT !.revoked = TRUE] BY <2>2 DEF Marked
    <3> QED BY <3>1, <2>1, <2>2 DEF Decisions
  <2>3. CASE lines[n].id # id
    <3>1. after[n] = lines[n] BY <2>3 DEF Marked
    <3> QED BY <3>1, <2>1, <2>3 DEF Decisions
  <2> QED BY <2>2, <2>3
<1>4. after = [n \in 1 .. Len(lines) |-> after[n]] BY <1>1 DEF Marked
<1> HIDE DEF after
<1>5. after \in [1 .. Len(lines) -> Decisions] BY <1>1, <1>3, <1>4
<1>6. after \in Seq(Decisions) BY <1>1, <1>5
<1> QED BY <1>2, <1>3, <1>6 DEF after

(* Writing the lines back keeps the invariant: the consent counts as         *)
(* withdrawn from then on.                                                   *)
LEMMA WriteConsentsStep ==
  ASSUME ConsentInv, NEW v \in Revokers, WriteConsents(v)
  PROVE  ConsentInv'
<1> DEFINE lines == revoking[v].lines
           id == revoking[v].id
           after == Marked(lines, id)
<1>1. revoking[v].step = "write" /\ revoking' = [revoking EXCEPT ![v] = NoRevocation]
      /\ UNCHANGED <<consentTime, decided, revocations>>
  BY DEF WriteConsents
<1>2. \/ consentFile' = [whole |-> TRUE, lines |-> after]
      \/ clashed /\ consentFile' = [whole |-> FALSE, lines |-> << >>]
  BY DEF WriteConsents
<1>3. withdrawn' = IF \E n \in DOMAIN lines : lines[n].id = id THEN withdrawn \cup {id} ELSE withdrawn
  BY DEF WriteConsents
<1>4. clashed' \in BOOLEAN /\ (clashed => clashed') /\ (InProgress # {v} => clashed')
  BY Zenon DEF WriteConsents
<1>5. revoking \in [Revokers -> Revocation] BY DEF ConsentInv, ConsentShape
<1>6. lines \in Seq(Decisions) /\ id \in 0 .. MaxDecisions BY <1>5 DEF Revocation
<1>7. NoRevocation \in Revocation /\ NoRevocation.step = "idle"
  BY ConsentAssumption DEF NoRevocation, Revocation
<1>8. /\ revoking' \in [Revokers -> Revocation] /\ revoking'[v] = NoRevocation
      /\ \A u \in Revokers : u # v => revoking'[u] = revoking[u]
  BY <1>1, <1>5, <1>7
<1>9. after \in Seq(Decisions) /\ DOMAIN after = DOMAIN lines
      /\ \A n \in DOMAIN lines :
           /\ after[n].id = lines[n].id /\ after[n].subject = lines[n].subject
           /\ after[n].granted = lines[n].granted /\ after[n].expires = lines[n].expires
           /\ after[n].revoked <=> (lines[n].revoked \/ lines[n].id = id)
  BY <1>6, MarkedIs
<1>r. withdrawn \subseteq 1 .. MaxDecisions BY DEF ConsentInv, ConsentShape
<1> HIDE DEF lines, id, after
<1>s. \A n \in DOMAIN lines : lines[n] \in Decisions BY <1>6, DecisionsOf
<1>t. \A n \in DOMAIN lines : lines[n].id \in 1 .. MaxDecisions BY <1>s DEF Decisions
<1>10. ConsentShape'
  <2>1. consentFile' \in [whole : BOOLEAN, lines : Seq(Decisions)]
    <3>1. [whole |-> FALSE, lines |-> << >>] \in [whole : BOOLEAN, lines : Seq(Decisions)] OBVIOUS
    <3>2. [whole |-> TRUE, lines |-> after] \in [whole : BOOLEAN, lines : Seq(Decisions)] BY <1>9
    <3> QED BY <3>1, <3>2, <1>2
  <2>2. withdrawn' \subseteq 1 .. MaxDecisions BY <1>3, <1>r, <1>t
  <2> QED BY <2>1, <2>2, <1>1, <1>4, <1>8 DEF ConsentInv, ConsentShape
<1>11. Numbered' BY <1>1 DEF ConsentInv, Numbered
<1>12. ASSUME ~clashed' PROVE withdrawn' \subseteq DOMAIN decided' /\ FileStands' /\ RewriteStands'
  <2>1. InProgress = {v} /\ ~clashed BY <1>4, <1>12
  <2>2. v \in Rewriting BY <1>1 DEF Rewriting
  <2>3. Standing(lines) /\ withdrawn \subseteq DOMAIN decided BY <2>1, <2>2 DEF ConsentInv, RewriteStands, lines
  <2>4. DOMAIN lines = DOMAIN decided /\ \A n \in DOMAIN decided : lines[n].id = n BY <2>3 DEF Standing
  <2>5. withdrawn' \subseteq DOMAIN decided /\ \A n \in DOMAIN decided : n \in withdrawn' <=> n \in withdrawn \/ n = id
    BY <2>3, <2>4, <1>3
  <2>7. consentFile' = [whole |-> TRUE, lines |-> after] BY <2>1, <1>2
  <2>8. \A u \in Revokers : revoking'[u].step = "idle" BY <2>1, <1>7, <1>8 DEF InProgress
  <2>6. \A n \in DOMAIN decided : /\ after[n].id = n /\ after[n].subject = decided[n].subject
                                  /\ after[n].expires = decided[n].expires
                                  /\ after[n].granted <=> decided[n].granted
                                  /\ after[n].revoked <=> n \in withdrawn'
    BY <2>3, <2>4, <2>5, <1>9 DEF Standing
  <2>9. Standing(consentFile.lines)' BY <2>4, <2>6, <2>7, <1>1, <1>9 DEF Standing
  <2>10. FileStands' BY <2>7, <2>8, <2>9 DEF FileStands
  <2>11. RewriteStands' BY <2>8 DEF RewriteStands, Rewriting
  <2> QED BY <2>5, <2>10, <2>11, <1>1
<1> QED BY <1>10, <1>11, <1>12 DEF ConsentInv

(* A kill between truncating and writing is a clash; before, it has no       *)
(* effect.                                                                   *)
LEMMA KillRevokerStep ==
  ASSUME ConsentInv, NEW v \in Revokers, KillRevoker(v)
  PROVE  ConsentInv'
<1>1. revoking' = [revoking EXCEPT ![v] = NoRevocation]
      /\ UNCHANGED <<consentFile, consentTime, decided, withdrawn, revocations>>
  BY DEF KillRevoker
<1>2. clashed' \in BOOLEAN /\ (clashed => clashed') /\ (revoking[v].step = "write" => clashed')
  BY Zenon DEF KillRevoker
<1>3. NoRevocation \in Revocation /\ NoRevocation.step = "idle"
  BY ConsentAssumption DEF NoRevocation, Revocation
<1>4. /\ revoking' \in [Revokers -> Revocation] /\ revoking'[v] = NoRevocation
      /\ \A u \in Revokers : u # v => revoking'[u] = revoking[u]
  BY <1>1, <1>3 DEF ConsentInv, ConsentShape
<1>5. ConsentShape' BY <1>1, <1>2, <1>4 DEF ConsentInv, ConsentShape
<1>6. Numbered' BY <1>1 DEF ConsentInv, Numbered
<1>7. ASSUME ~clashed' PROVE withdrawn' \subseteq DOMAIN decided' /\ FileStands' /\ RewriteStands'
  <2>1. ~clashed /\ revoking[v].step # "write" BY <1>2, <1>7
  <2>2. FileStands /\ RewriteStands /\ withdrawn \subseteq DOMAIN decided BY <2>1 DEF ConsentInv
  <2>3. Rewriting' = Rewriting BY <2>1, <1>3, <1>4 DEF Rewriting
  <2>4. \A lines : Standing(lines)' <=> Standing(lines) BY <1>1 DEF Standing
  <2>5. FileStands' BY <2>2, <2>3, <1>1, <1>3, <1>4 DEF FileStands, Standing
  <2>6. RewriteStands'
    <3> SUFFICES ASSUME NEW u \in Rewriting'
                 PROVE  Rewriting' = {u} /\ Standing(revoking[u].lines)'
      BY DEF RewriteStands
    <3>1. u \in Rewriting /\ u \in Revokers /\ u # v BY <2>1, <2>3 DEF Rewriting
    <3>2. Rewriting = {u} /\ Standing(revoking[u].lines) BY <2>2, <3>1 DEF RewriteStands
    <3>3. revoking'[u] = revoking[u] BY <3>1, <1>4
    <3> QED BY <3>2, <3>3, <2>3, <1>1 DEF Standing
  <2> QED BY <2>2, <2>5, <2>6, <1>1
<1> QED BY <1>5, <1>6, <1>7 DEF ConsentInv

(* Every step of the register keeps the invariant. *)
LEMMA ConsentStep == ConsentInv /\ [ConsentNext]_consentVars => ConsentInv'
<1> SUFFICES ASSUME ConsentInv, [ConsentNext]_consentVars PROVE ConsentInv' OBVIOUS
<1>1. ASSUME UNCHANGED <<consentFile, revoking, decided, withdrawn, revocations, clashed>>,
             consentTime' \in 0 .. MaxConsentTime
      PROVE  ConsentInv'
  <2>1. ConsentShape' BY <1>1 DEF ConsentInv, ConsentShape
  <2>2. Rewriting' = Rewriting BY <1>1 DEF Rewriting
  <2>3. \A lines : Standing(lines)' <=> Standing(lines) BY <1>1 DEF Standing
  <2>4. FileStands => FileStands' BY <2>2, <1>1 DEF FileStands, Standing
  <2>5. RewriteStands => RewriteStands' BY <2>2, <1>1 DEF RewriteStands, Standing
  <2> QED BY <2>1, <2>4, <2>5, <1>1 DEF ConsentInv, Numbered
<1>2. CASE ConsentTick
  <2>1. consentTime' \in 0 .. MaxConsentTime
    BY <1>2, ConsentAssumption DEF ConsentTick, ConsentInv, ConsentShape
  <2> QED BY <1>1, <1>2, <2>1 DEF ConsentTick
<1>3. CASE UNCHANGED consentVars
  BY <1>1, <1>3 DEF consentVars, ConsentInv, ConsentShape
<1> QED
  BY <1>2, <1>3, RecordConsentStep, RevokeConsentStep, TruncateConsentsStep, WriteConsentsStep, KillRevokerStep
  DEF ConsentNext

(* A set of line numbers that is not empty has a greatest member. *)
LEMMA GreatestOf ==
  ASSUME NEW n \in Nat, NEW T \in SUBSET (1 .. n), T # {}
  PROVE  \E x \in T : \A y \in T : y <= x
<1> DEFINE S == {j \in 0 .. n : n - j \in T}
           R == OpToRel(<, Nat)
<1>1. S \subseteq Nat OBVIOUS
<1>2. S # {}
  <2>1. PICK x \in T : TRUE OBVIOUS
  <2>2. n - x \in 0 .. n /\ n - (n - x) = x BY <2>1
  <2>3. n - x \in S BY <2>1, <2>2
  <2> QED BY <2>3
<1>3. \E x \in S : \A y \in S : <<y, x>> \notin R
  <2> HIDE DEF S, R
  <2>1. IsWellFoundedOn(R, Nat) BY NatLessThanWellFounded DEF R
  <2> QED BY <1>1, <1>2, <2>1, WFMin
<1>4. \A x, y \in Nat : x < y => <<x, y>> \in R BY DEF OpToRel
<1>5. PICK j \in S : \A i \in S : ~(i < j)
  <2> HIDE DEF S, R
  <2> QED BY <1>1, <1>3, <1>4
<1>6. ASSUME NEW y \in T PROVE y <= n - j
  <2>1. n - y \in 0 .. n /\ n - (n - y) = y OBVIOUS
  <2>2. n - y \in S BY <2>1
  <2>3. ~(n - y < j) /\ j \in 0 .. n BY <2>2, <1>5
  <2> QED BY <2>3
<1>7. n - j \in T BY <1>5
<1> QED BY <1>6, <1>7

(* Without clashing calls, a subject has a consent if and only if one was    *)
(* given that has neither expired nor been withdrawn, and no later decision  *)
(* was withdrawn or has expired, after any number of decisions and           *)
(* revocations: the consent register of consent_manager.py.                  *)
THEOREM RevocationsStick == ConsentSpec => []RevocationSticks
<1>1. ConsentInv => RevocationSticks
  <2> SUFFICES ASSUME ConsentInv, ~clashed, \A v \in Revokers : revoking[v].step # "write", NEW s \in Subjects
               PROVE  HasConsent(consentFile.lines, s) <=>
                        \E n \in DOMAIN decided :
                          LET d == decided[n] IN
                          /\ d.subject = s /\ d.granted /\ consentTime <= d.expires /\ d.id \notin withdrawn
                          /\ \A m \in DOMAIN decided :
                               m > n /\ decided[m].subject = s =>
                                 ~decided[m].granted /\ consentTime <= decided[m].expires
                                 /\ decided[m].id \notin withdrawn
    BY DEF RevocationSticks
  <2> DEFINE lines == consentFile.lines
             T == DecisiveLines(lines, s)
             Open(n) == ~(n \in withdrawn \/ consentTime > decided[n].expires \/ decided[n].granted)
  <2>1. FileStands /\ Numbered /\ ConsentShape BY DEF ConsentInv
  <2>2. Rewriting = {} BY DEF Rewriting
  <2>3. Standing(lines) BY <2>1, <2>2 DEF FileStands
  <2>4. decided \in Seq(Decisions) /\ consentTime \in Nat BY <2>1 DEF ConsentShape
  <2>5. DOMAIN decided = 1 .. Len(decided) /\ Len(decided) \in Nat
        /\ \A n \in DOMAIN decided : decided[n] \in Decisions
    BY <2>4, DecisionsOf
  <2>6. \A n \in DOMAIN decided : decided[n].expires \in Nat /\ n \in Nat BY <2>5 DEF Decisions
  <2>7. \A n \in DOMAIN decided : decided[n].id = n BY <2>1 DEF Numbered
  <2>8. \A n : n \in T <=> n \in DOMAIN decided /\ decided[n].subject = s /\ ~Open(n)
    BY <2>3 DEF Standing, DecisiveLines, Decisive
  <2>9. T \in SUBSET (1 .. Len(decided)) BY <2>5, <2>8
  <2>10. \A n \in T : /\ lines[n].revoked <=> n \in withdrawn
                      /\ lines[n].expires = decided[n].expires
                      /\ lines[n].granted <=> decided[n].granted
    BY <2>3, <2>8 DEF Standing
  <2>11. HasConsent(lines, s) <=>
           T # {} /\ ~lines[LastDecides(lines, s)].revoked
                  /\ consentTime <= lines[LastDecides(lines, s)].expires /\ lines[LastDecides(lines, s)].granted
    BY DEF HasConsent
  <2>12. LastDecides(lines, s) = CHOOSE n \in T : \A m \in T : m <= n BY DEF LastDecides
  <2>13. (\E n \in T : \A m \in T : m <= n) => LastDecides(lines, s) \in T /\ \A m \in T : m <= LastDecides(lines, s)
    BY <2>12
  <2>14. T # {} => LastDecides(lines, s) \in T /\ \A m \in T : m <= LastDecides(lines, s)
    <3> HIDE DEF T
    <3> QED BY <2>5, <2>9, <2>13, GreatestOf
  <2> DEFINE x == LastDecides(lines, s)
             Stands(n) == n \notin withdrawn /\ consentTime <= decided[n].expires /\ decided[n].granted
             Latest(n) == \A m \in DOMAIN decided : m > n /\ decided[m].subject = s => Open(m)
  <2> HIDE DEF T, x, lines
  <2>15. HasConsent(lines, s) <=> T # {} /\ Stands(x)
    BY <2>10, <2>11, <2>14 DEF x
  <2>16. T # {} => x \in T /\ \A m \in T : m <= x BY <2>14 DEF x
  <2>17. ASSUME T # {}, Stands(x) PROVE \E n \in DOMAIN decided : decided[n].subject = s /\ Stands(n) /\ Latest(n)
    <3>1. x \in DOMAIN decided /\ decided[x].subject = s BY <2>8, <2>16, <2>17
    <3>2. ASSUME NEW m \in DOMAIN decided, m > x, decided[m].subject = s PROVE Open(m)
      <4>1. ~(m <= x) BY <3>1, <3>2, <2>6
      <4>2. m \notin T BY <4>1, <2>16, <2>17
      <4> QED BY <4>2, <3>2, <2>8
    <3> QED BY <3>1, <3>2, <2>17
  <2>18. ASSUME NEW n \in DOMAIN decided, decided[n].subject = s, Stands(n), Latest(n) PROVE T # {} /\ Stands(x)
    <3>1. n \in T BY <2>8, <2>18
    <3>2. x \in T /\ n <= x BY <3>1, <2>16
    <3>3. x \in DOMAIN decided /\ decided[x].subject = s /\ ~Open(x) BY <3>2, <2>8
    <3>4. ~(x > n) BY <3>3, <2>18
    <3>5. x = n BY <3>2, <3>3, <3>4, <2>6
    <3> QED BY <3>1, <3>5, <2>18
  <2>19. \A m \in DOMAIN decided : Open(m) <=>
           ~decided[m].granted /\ consentTime <= decided[m].expires /\ decided[m].id \notin withdrawn
    BY <2>4, <2>6, <2>7
  <2>20. HasConsent(lines, s) <=> \E n \in DOMAIN decided : decided[n].subject = s /\ Stands(n) /\ Latest(n)
    <3> HIDE DEF Stands, Latest
    <3> QED BY <2>15, <2>17, <2>18
  <2> QED BY <2>7, <2>19, <2>20 DEF lines
<1> QED BY <1>1, ConsentInitOK, ConsentStep, PTL DEF ConsentSpec

-----------------------------------------------------------------------------
ScanRecord == [step : {"none", "probe", "log", "sleep"}, server : Servers,
               left : SUBSET AiDomains, entry : 0 .. MaxDetections]
CountRecord == [found : 0 .. MaxDetections, starts : 0 .. MaxStarts, faults : 0 .. MaxDetectorFaults]

(* The detections that a scanner of the process is about to log. *)
BeingLogged(s) == {scan[x].entry : x \in {y \in Scanners : scan[y].server = s /\ scan[y].step = "log"}}

(* A thread that starts the monitoring does so in one process, which is up. *)
StartersApart ==
  \A c \in Starters : \A s \in starter[c] : starter[c] = {s} /\ s \in detectorUp

(* Unless two threads tested the flag at once, a process has one loop at     *)
(* most, or one thread that will start it.                                   *)
OneLoop ==
  \A s \in Servers : s \notin doubled =>
    /\ \A l, m \in LoopsOf(s) : l = m
    /\ \A b, c \in Starters : starter[b] = {s} /\ starter[c] = {s} => b = c
    /\ \A c \in Starters : starter[c] = {s} => LoopsOf(s) = {}

(* Only in a process that is up is anything scanned. *)
RunningUp == \A x \in Scanners : scan[x].step # "none" => scan[x].server \in detectorUp

(* In a process that is up and has met no fault, the flag tells of a loop,   *)
(* and a detection that is not on the ledger is being logged; in one that is *)
(* down the flag is off.                                                     *)
FlagsTold ==
  \A s \in Servers :
    IF s \in detectorUp
    THEN s \notin failed => /\ monitoring[s] => LoopsOf(s) # {}
                            /\ detections[s] \ shadowLog \subseteq BeingLogged(s)
    ELSE ~monitoring[s]

(* What is being logged is a detection. *)
Logging == \A x \in Scanners : scan[x].step = "log" => scan[x].entry \in Entries

(* The inductive invariant of the detector. *)
DetectorInv == DetectorTypeOK /\ StartersApart /\ OneLoop /\ RunningUp /\ FlagsTold /\ Logging

(* A scanner at rest has the type of its record. *)
LEMMA NoScanIs == NoScan \in ScanRecord /\ NoScan.step = "none"
<1>1. AnyServer \in Servers BY DetectorAssumption DEF AnyServer
<1> QED BY <1>1, DetectorAssumption DEF NoScan, ScanRecord

(* The type invariant, with names for its records. *)
LEMMA DetectorShape ==
  ASSUME DetectorTypeOK
  PROVE  /\ detectorUp \subseteq Servers /\ doubled \subseteq Servers /\ failed \subseteq Servers
         /\ monitoring \in [Servers -> BOOLEAN] /\ starter \in [Starters -> SUBSET Servers]
         /\ scan \in [Scanners -> ScanRecord] /\ detections \in [Servers -> SUBSET Entries]
         /\ shadowLog \subseteq Entries /\ shadowCount \in CountRecord
BY DEF DetectorTypeOK, ScanRecord, CountRecord

(* Initially every process is up and none monitors. *)
LEMMA DetectorInitOK == DetectorInit => DetectorInv
<1> SUFFICES ASSUME DetectorInit PROVE DetectorInv OBVIOUS
<1>1. detectorUp = Servers /\ starter = [c \in Starters |-> {}] /\ scan = [x \in Scanners |-> NoScan]
      /\ detections = [s \in Servers |-> {}] /\ shadowLog = {}
      /\ shadowCount = [found |-> 0, starts |-> 0, faults |-> 0] /\ doubled = {} /\ failed = {}
  BY DEF DetectorInit
<1>2. monitoring \in [Servers -> BOOLEAN] /\ \A s \in Servers : ~monitoring[s]
  BY Zenon DEF DetectorInit
<1>3. shadowCount \in CountRecord BY <1>1, DetectorAssumption DEF CountRecord
<1>4. DetectorTypeOK
  BY <1>1, <1>2, <1>3, NoScanIs DEF DetectorTypeOK, ScanRecord, CountRecord
<1>5. \A s : LoopsOf(s) = {} BY <1>1, NoScanIs DEF LoopsOf, Scanners
<1> QED BY <1>1, <1>2, <1>4, <1>5, NoScanIs DEF DetectorInv, StartersApart, OneLoop, RunningUp, FlagsTold, Logging

(* A step of one scanner leaves the others, and the loops of every process   *)
(* but for its own, as they are.                                             *)
LEMMA ScanIs ==
  ASSUME DetectorInv, NEW x \in Scanners, NEW r \in ScanRecord, scan' = [scan EXCEPT ![x] = r]
  PROVE  /\ scan' \in [Scanners -> ScanRecord] /\ scan'[x] = r
         /\ \A y \in Scanners : y # x => scan'[y] = scan[y]
         /\ \A s : \A y : y # x => (y \in LoopsOf(s)' <=> y \in LoopsOf(s))
         /\ \A s : x \in LoopsOf(s)' <=> x \in Loops /\ r.step # "none" /\ r.server = s
<1>1. scan \in [Scanners -> ScanRecord] BY DetectorShape DEF DetectorInv
<1>2. /\ scan' \in [Scanners -> ScanRecord] /\ scan'[x] = r
      /\ \A y \in Scanners : y # x => scan'[y] = scan[y]
  BY <1>1
<1>3. \A y \in Loops : y \in Scanners BY DEF Scanners
<1> QED BY <1>2, <1>3 DEF LoopsOf

(* A scanner that moves on keeps the invariant, given what becomes of the    *)
(* detections of its process.                                                *)
LEMMA PassMoves ==
  ASSUME DetectorInv, NEW x \in Scanners, NEW r \in ScanRecord, scan' = [scan EXCEPT ![x] = r],
         UNCHANGED <<detectorUp, monitoring, starter, doubled>>,
         scan[x].step # "none", r.step # "none" => r.server = scan[x].server,
         r.step = "log" => r.entry \in Entries,
         shadowCount' \in CountRecord, shadowLog' \subseteq Entries, detections' \in [Servers -> SUBSET Entries],
         failed' \subseteq Servers, failed \subseteq failed',
         x \in Loops /\ r.step = "none" /\ monitoring[scan[x].server] => scan[x].server \in failed',
         \A s \in Servers \ failed' : \A e \in detections'[s] \ shadowLog' :
           \/ s = r.server /\ r.step = "log" /\ e = r.entry
           \/ e \in detections[s] \ shadowLog /\ ~(s = scan[x].server /\ scan[x].step = "log" /\ e = scan[x].entry)
  PROVE  DetectorInv'
<1>1. /\ scan' \in [Scanners -> ScanRecord] /\ scan'[x] = r
      /\ \A y \in Scanners : y # x => scan'[y] = scan[y]
      /\ \A s : \A y : y # x => (y \in LoopsOf(s)' <=> y \in LoopsOf(s))
      /\ \A s : x \in LoopsOf(s)' <=> x \in Loops /\ r.step # "none" /\ r.server = s
  BY ScanIs
<1>2. \A s : x \in LoopsOf(s) <=> x \in Loops /\ scan[x].server = s BY DEF LoopsOf
<1>3. \A s : LoopsOf(s)' \subseteq LoopsOf(s) BY <1>1, <1>2
<1>4. DetectorTypeOK' BY <1>1, DetectorShape DEF DetectorInv, DetectorTypeOK, ScanRecord, CountRecord
<1>5. StartersApart' BY DEF DetectorInv, StartersApart
<1>6. OneLoop'
  <2> SUFFICES ASSUME NEW s \in Servers, s \notin doubled
               PROVE  /\ \A l, m \in LoopsOf(s)' : l = m
                      /\ \A b, c \in Starters : starter[b] = {s} /\ starter[c] = {s} => b = c
                      /\ \A c \in Starters : starter[c] = {s} => LoopsOf(s)' = {}
    BY DEF OneLoop
  <2> QED BY <1>3 DEF DetectorInv, OneLoop
<1>7. RunningUp' BY <1>1 DEF DetectorInv, RunningUp
<1>8. FlagsTold'
  <2> SUFFICES ASSUME NEW s \in Servers
               PROVE  IF s \in detectorUp
                      THEN s \notin failed' => /\ monitoring[s] => LoopsOf(s)' # {}
                                               /\ detections'[s] \ shadowLog' \subseteq BeingLogged(s)'
                      ELSE ~monitoring[s]
    BY DEF FlagsTold
  <2>1. CASE s \notin detectorUp BY <2>1 DEF DetectorInv, FlagsTold
  <2>2. CASE s \in detectorUp
    <3> SUFFICES ASSUME s \notin failed'
                 PROVE  /\ monitoring[s] => LoopsOf(s)' # {}
                        /\ detections'[s] \ shadowLog' \subseteq BeingLogged(s)'
      BY <2>2
    <3>1. /\ monitoring[s] => LoopsOf(s) # {}
          /\ detections[s] \ shadowLog \subseteq BeingLogged(s)
      BY <2>2 DEF DetectorInv, FlagsTold
    <3>2. ASSUME monitoring[s] PROVE LoopsOf(s)' # {}
      <4>1. PICK l : l \in LoopsOf(s) BY <3>1, <3>2
      <4> QED BY <4>1, <3>2, <1>1, <1>2
    <3>3. ASSUME NEW e \in detections'[s] \ shadowLog' PROVE e \in BeingLogged(s)'
      <4>1. CASE s = r.server /\ r.step = "log" /\ e = r.entry BY <4>1, <1>1 DEF BeingLogged
      <4>2. CASE e \in detections[s] \ shadowLog /\ ~(s = scan[x].server /\ scan[x].step = "log" /\ e = scan[x].entry)
        <5>1. PICK y \in Scanners : scan[y].server = s /\ scan[y].step = "log" /\ scan[y].entry = e
          BY <4>2, <3>1 DEF BeingLogged
        <5>2. y # x BY <5>1, <4>2
        <5>3. scan'[y] = scan[y] BY <5>2, <1>1
        <5> QED BY <5>1, <5>3 DEF BeingLogged
      <4> QED BY <4>1, <4>2, <3>3
    <3> QED BY <3>2, <3>3
  <2> QED BY <2>1, <2>2
<1>9. Logging' BY <1>1 DEF DetectorInv, Logging
<1> QED BY <1>4, <1>5, <1>6, <1>7, <1>8, <1>9 DEF DetectorInv

(* The counts of detections, starts and faults, and how one of them is       *)
(* replaced.                                                                 *)
LEMMA CountIs ==
  ASSUME shadowCount \in CountRecord
  PROVE  /\ shadowCount.found \in 0 .. MaxDetections /\ shadowCount.starts \in 0 .. MaxStarts
         /\ shadowCount.faults \in 0 .. MaxDetectorFaults
         /\ \A n \in 0 .. MaxDetections : [shadowCount EXCEPT !.found = n] \in CountRecord
         /\ \A n \in 0 .. MaxStarts : [shadowCount EXCEPT !.starts = n] \in CountRecord
         /\ \A n \in 0 .. MaxDetectorFaults : [shadowCount EXCEPT !.faults = n] \in CountRecord
BY DEF CountRecord

(* Probing a domain keeps the invariant: what it detects it is about to log. *)
LEMMA ProbeStep ==
  ASSUME DetectorInv, NEW x \in Scanners, NEW domain \in AiDomains, NEW reachable \in BOOLEAN,
         ProbeDomain(x, domain, reachable)
  PROVE  DetectorInv'
<1> DEFINE nr == shadowCount.found + 1
           s == scan[x].server
           shorter == [scan[x] EXCEPT !.left = @ \ {domain}]
<1>1. scan[x].step = "probe" /\ UNCHANGED <<detectorUp, monitoring, starter, shadowLog, doubled, failed>>
  BY DEF ProbeDomain
<1>2. /\ failed \subseteq Servers /\ scan \in [Scanners -> ScanRecord] /\ detections \in [Servers -> SUBSET Entries]
      /\ shadowLog \subseteq Entries /\ shadowCount \in CountRecord
  BY DetectorShape DEF DetectorInv
<1>3. shorter \in ScanRecord /\ shorter.step = "probe" /\ shorter.server = s /\ s \in Servers
  BY <1>1, <1>2 DEF ScanRecord
<1>4. CASE reachable
  <2> DEFINE found == [shorter EXCEPT !.step = "log"]
             r == [found EXCEPT !.entry = nr]
  <2>1. /\ nr <= MaxDetections /\ shadowCount' = [shadowCount EXCEPT !.found = nr]
        /\ detections' = [detections EXCEPT ![s] = @ \cup {nr}]
        /\ scan' = [scan EXCEPT ![x].left = @ \ {domain}, ![x].step = "log", ![x].entry = nr]
    BY <1>4 DEF ProbeDomain
  <2>2. nr \in 1 .. MaxDetections /\ nr \in 0 .. MaxDetections /\ nr \in Entries
    BY <2>1, <1>2, CountIs, DetectorAssumption DEF Entries
  <2>3. scan' = [scan EXCEPT ![x] = r] BY <2>1, <1>2
  <2> HIDE DEF nr, shorter
  <2>4. found \in ScanRecord /\ found.step = "log" /\ found.server = s BY <1>3 DEF ScanRecord
  <2> HIDE DEF found
  <2>5. r \in ScanRecord /\ r.step = "log" /\ r.server = s /\ r.entry = nr BY <2>2, <2>4 DEF ScanRecord
  <2> HIDE DEF r, s
  <2>6. detections' \in [Servers -> SUBSET Entries] /\ shadowCount' \in CountRecord
    BY <2>1, <2>2, <1>2, <1>3, CountIs
  <2>7. ASSUME NEW t \in Servers \ failed', NEW e \in detections'[t] \ shadowLog'
        PROVE  \/ t = r.server /\ r.step = "log" /\ e = r.entry
               \/ e \in detections[t] \ shadowLog
    BY <2>1, <2>5, <2>7, <1>1, <1>2, <1>3
  <2>8. r.entry \in Entries /\ failed' \subseteq Servers /\ failed \subseteq failed' /\ shadowLog' \subseteq Entries
    BY <2>2, <2>5, <1>1, <1>2
  <2>9. scan[x].step # "none" /\ scan[x].step # "log" /\ r.step # "none" /\ r.server = scan[x].server
    BY <2>5, <1>1 DEF s
  <2> QED BY <2>3, <2>5, <2>6, <2>7, <2>8, <2>9, <1>1, PassMoves
<1>5. CASE ~reachable
  <2>1. scan' = [scan EXCEPT ![x].left = @ \ {domain}] /\ UNCHANGED <<shadowCount, detections>>
    BY <1>5 DEF ProbeDomain
  <2>2. scan' = [scan EXCEPT ![x] = shorter] BY <2>1, <1>2
  <2>3. ASSUME NEW t \in Servers \ failed', NEW e \in detections'[t] \ shadowLog'
        PROVE  e \in detections[t] \ shadowLog /\ scan[x].step # "log"
    BY <2>1, <2>3, <1>1
  <2> HIDE DEF shorter
  <2> QED BY <2>1, <2>2, <2>3, <1>1, <1>2, <1>3, PassMoves
<1> QED BY <1>4, <1>5

(* Logging a detection keeps the invariant: it is on the ledger. *)
LEMMA LogStep ==
  ASSUME DetectorInv, NEW x \in Scanners, LogDetection(x)
  PROVE  DetectorInv'
<1> DEFINE probing == [scan[x] EXCEPT !.step = "probe"]
           r == [probing EXCEPT !.entry = 0]
<1>1. /\ scan[x].step = "log" /\ shadowLog' = shadowLog \cup {scan[x].entry}
      /\ scan' = [scan EXCEPT ![x].step = "probe", ![x].entry = 0]
      /\ UNCHANGED <<detectorUp, monitoring, starter, detections, shadowCount, doubled, failed>>
  BY DEF LogDetection
<1>2. /\ failed \subseteq Servers /\ scan \in [Scanners -> ScanRecord] /\ detections \in [Servers -> SUBSET Entries]
      /\ shadowLog \subseteq Entries /\ shadowCount \in CountRecord
  BY DetectorShape DEF DetectorInv
<1>3. scan' = [scan EXCEPT ![x] = r] BY <1>1, <1>2
<1>4. probing \in ScanRecord /\ probing.step = "probe" /\ probing.server = scan[x].server
  BY <1>2 DEF ScanRecord
<1> HIDE DEF probing
<1>5. r \in ScanRecord /\ r.step = "probe" /\ r.server = scan[x].server
  BY <1>4, DetectorAssumption DEF ScanRecord
<1> HIDE DEF r
<1>6. scan[x].entry \in Entries BY <1>1 DEF DetectorInv, Logging
<1>7. ASSUME NEW t \in Servers \ failed', NEW e \in detections'[t] \ shadowLog'
      PROVE  e \in detections[t] \ shadowLog /\ e # scan[x].entry
  BY <1>1, <1>7
<1>8. shadowLog' \subseteq Entries BY <1>1, <1>2, <1>6
<1> QED BY <1>1, <1>2, <1>3, <1>5, <1>7, <1>8, PassMoves

(* An error of the ledger keeps the invariant: the process has met a fault. *)
LEMMA LogErrorStep ==
  ASSUME DetectorInv, NEW x \in Scanners, LogError(x)
  PROVE  DetectorInv'
<1>1. /\ scan[x].step = "log" /\ shadowCount.faults < MaxDetectorFaults
      /\ shadowCount' = [shadowCount EXCEPT !.faults = @ + 1]
      /\ scan' = [scan EXCEPT ![x] = NoScan] /\ failed' = failed \cup {scan[x].server}
      /\ UNCHANGED <<detectorUp, monitoring, starter, detections, shadowLog, doubled>>
  BY DEF LogError
<1>2. /\ failed \subseteq Servers /\ scan \in [Scanners -> ScanRecord] /\ detections \in [Servers -> SUBSET Entries]
      /\ shadowLog \subseteq Entries /\ shadowCount \in CountRecord
  BY DetectorShape DEF DetectorInv
<1>3. scan[x].server \in Servers BY <1>2 DEF ScanRecord
<1>4. shadowCount' \in CountRecord
  <2>1. shadowCount.faults + 1 \in 0 .. MaxDetectorFaults BY <1>1, <1>2, CountIs, DetectorAssumption
  <2> QED BY <2>1, <1>1, <1>2, CountIs
<1>5. ASSUME NEW t \in Servers \ failed', NEW e \in detections'[t] \ shadowLog'
      PROVE  e \in detections[t] \ shadowLog /\ t # scan[x].server
  BY <1>1, <1>5
<1>6. failed' \subseteq Servers /\ failed \subseteq failed' /\ scan[x].server \in failed'
      /\ shadowLog' \subseteq Entries /\ detections' \in [Servers -> SUBSET Entries]
  BY <1>1, <1>2, <1>3
<1>7. scan[x].step # "none" /\ NoScan.step = "none" /\ NoScan.step # "log" /\ NoScan \in ScanRecord
  BY <1>1, NoScanIs
<1> QED BY <1>1, <1>4, <1>5, <1>6, <1>7, PassMoves

(* The end of a pass keeps the invariant. *)
LEMMA EndPassStep ==
  ASSUME DetectorInv, NEW x \in Scanners, EndPass(x)
  PROVE  DetectorInv'
<1> DEFINE sleeping == [scan[x] EXCEPT !.step = "sleep"]
           r == IF x \in Loops THEN sleeping ELSE NoScan
<1>1. /\ scan[x].step = "probe"
      /\ scan' = [scan EXCEPT ![x] = IF x \in Loops THEN [@ EXCEPT !.step = "sleep"] ELSE NoScan]
      /\ UNCHANGED <<detectorUp, monitoring, starter, detections, shadowLog, shadowCount, doubled, failed>>
  BY DEF EndPass
<1>2. /\ failed \subseteq Servers /\ scan \in [Scanners -> ScanRecord] /\ detections \in [Servers -> SUBSET Entries]
      /\ shadowLog \subseteq Entries /\ shadowCount \in CountRecord
  BY DetectorShape DEF DetectorInv
<1>3. scan' = [scan EXCEPT ![x] = r] BY <1>1, <1>2
<1>4. sleeping \in ScanRecord /\ sleeping.step = "sleep" /\ sleeping.server = scan[x].server
  BY <1>2 DEF ScanRecord
<1> HIDE DEF sleeping
<1>5. /\ r \in ScanRecord /\ (r.step # "none" => r.server = scan[x].server) /\ r.step # "log"
      /\ ~(x \in Loops /\ r.step = "none")
  BY <1>4, NoScanIs
<1> HIDE DEF r
<1>6. ASSUME NEW t \in Servers \ failed', NEW e \in detections'[t] \ shadowLog'
      PROVE  e \in detections[t] \ shadowLog /\ scan[x].step # "log"
  BY <1>1, <1>6
<1> QED BY <1>1, <1>2, <1>3, <1>5, <1>6, PassMoves

(* A loop that wakes up goes on, or ends with the flag that was taken down. *)
LEMMA WakeUpStep ==
  ASSUME DetectorInv, NEW l \in Loops, WakeUp(l)
  PROVE  DetectorInv'
<1> DEFINE awake == [scan[l] EXCEPT !.step = "probe"]
           again == [awake EXCEPT !.left = AiDomains]
           r == IF monitoring[scan[l].server] THEN again ELSE NoScan
<1>1. /\ scan[l].step = "sleep"
      /\ scan' = [scan EXCEPT ![l] =
           IF monitoring[scan[l].server] THEN [@ EXCEPT !.step = "probe", !.left = AiDomains] ELSE NoScan]
      /\ UNCHANGED <<detectorUp, monitoring, starter, detections, shadowLog, shadowCount, doubled, failed>>
  BY DEF WakeUp
<1>2. /\ failed \subseteq Servers /\ scan \in [Scanners -> ScanRecord] /\ detections \in [Servers -> SUBSET Entries]
      /\ shadowLog \subseteq Entries /\ shadowCount \in CountRecord /\ l \in Scanners
  BY DetectorShape DEF DetectorInv, Scanners
<1>3. scan' = [scan EXCEPT ![l] = r] BY <1>1, <1>2
<1>4. awake \in ScanRecord /\ awake.step = "probe" /\ awake.server = scan[l].server
  BY <1>2 DEF ScanRecord
<1> HIDE DEF awake
<1>5. again \in ScanRecord /\ again.step = "probe" /\ again.server = scan[l].server
  BY <1>4 DEF ScanRecord
<1> HIDE DEF again
<1>6. /\ r \in ScanRecord /\ (r.step # "none" => r.server = scan[l].server) /\ r.step # "log"
      /\ ~(r.step = "none" /\ monitoring[scan[l].server])
  BY <1>5, NoScanIs
<1> HIDE DEF r
<1>7. ASSUME NEW t \in Servers \ failed', NEW e \in detections'[t] \ shadowLog'
      PROVE  e \in detections[t] \ shadowLog /\ scan[l].step # "log"
  BY <1>1, <1>7
<1> QED BY <1>1, <1>2, <1>3, <1>6, <1>7, PassMoves

(* A thread that finds the flag down keeps the invariant: a second one that  *)
(* finds it down counts the process as doubled.                              *)
LEMMA TestFlagStep ==
  ASSUME DetectorInv, NEW c \in Starters, NEW s \in Servers, TestFlag(c, s)
  PROVE  DetectorInv'
<1>1. /\ starter[c] = {} /\ s \in detectorUp /\ ~monitoring[s] /\ shadowCount.starts < MaxStarts
      /\ starter' = [starter EXCEPT ![c] = {s}] /\ shadowCount' = [shadowCount EXCEPT !.starts = @ + 1]
      /\ UNCHANGED <<detectorUp, monitoring, scan, detections, shadowLog, failed>>
  BY DEF TestFlag, MayStart
<1>2. doubled' = IF ~monitoring[s] /\ (LoopsOf(s) # {} \/ \E b \in Starters : starter[b] = {s})
                 THEN doubled \cup {s} ELSE doubled
  BY DEF TestFlag
<1>3. /\ doubled \subseteq Servers /\ starter \in [Starters -> SUBSET Servers] /\ shadowCount \in CountRecord
  BY DetectorShape DEF DetectorInv
<1>4. shadowCount' \in CountRecord
  <2>1. shadowCount.starts + 1 \in 0 .. MaxStarts BY <1>1, <1>3, CountIs, DetectorAssumption
  <2> QED BY <2>1, <1>1, <1>3, CountIs
<1>5. starter' \in [Starters -> SUBSET Servers] /\ starter'[c] = {s}
      /\ \A b \in Starters : b # c => starter'[b] = starter[b]
  BY <1>1, <1>3
<1>6. DetectorTypeOK'
  <2>1. doubled' \subseteq Servers BY <1>2, <1>3
  <2> QED BY <2>1, <1>1, <1>4, <1>5 DEF DetectorInv, DetectorTypeOK, CountRecord
<1>7. StartersApart' BY <1>1, <1>5 DEF DetectorInv, StartersApart
<1>8. \A t : LoopsOf(t)' = LoopsOf(t) BY <1>1 DEF LoopsOf
<1>9. OneLoop'
  <2> SUFFICES ASSUME NEW t \in Servers, t \notin doubled'
               PROVE  /\ \A l, m \in LoopsOf(t) : l = m
                      /\ \A a, b \in Starters : starter'[a] = {t} /\ starter'[b] = {t} => a = b
                      /\ \A b \in Starters : starter'[b] = {t} => LoopsOf(t) = {}
    BY <1>8 DEF OneLoop
  <2>1. t \notin doubled BY <1>2
  <2>2. /\ \A l, m \in LoopsOf(t) : l = m
        /\ \A a, b \in Starters : starter[a] = {t} /\ starter[b] = {t} => a = b
        /\ \A b \in Starters : starter[b] = {t} => LoopsOf(t) = {}
    BY <2>1 DEF DetectorInv, OneLoop
  <2>3. CASE t # s
    <3>1. \A b \in Starters : starter'[b] = {t} => b # c /\ starter[b] = {t} BY <2>3, <1>5
    <3> QED BY <2>2, <3>1
  <2>4. CASE t = s
    <3>1. LoopsOf(s) = {} /\ \A b \in Starters : starter[b] # {s} BY <2>4, <1>1, <1>2
    <3>2. \A b \in Starters : starter'[b] = {s} => b = c BY <3>1, <1>5
    <3> QED BY <2>4, <3>1, <3>2
  <2> QED BY <2>3, <2>4
<1>10. RunningUp' /\ Logging' BY <1>1 DEF DetectorInv, RunningUp, Logging
<1>11. FlagsTold'
  <2>1. \A t : BeingLogged(t)' = BeingLogged(t) BY <1>1 DEF BeingLogged
  <2> QED BY <2>1, <1>1, <1>8 DEF DetectorInv, FlagsTold
<1> QED BY <1>6, <1>7, <1>9, <1>10, <1>11 DEF DetectorInv

(* A scanner at rest that begins a pass has nothing to log, and adds itself  *)
(* to the loops if it is one.                                                *)
LEMMA BeginScan ==
  ASSUME DetectorInv, NEW x \in Scanners, NEW r \in ScanRecord, scan' = [scan EXCEPT ![x] = r],
         scan[x].step = "none", r.step = "probe", r.server \in detectorUp,
         UNCHANGED <<detectorUp, detections, shadowLog, shadowCount, doubled, failed>>
  PROVE  /\ scan' \in [Scanners -> ScanRecord] /\ RunningUp' /\ Logging'
         /\ \A s : BeingLogged(s) \subseteq BeingLogged(s)'
         /\ \A s : LoopsOf(s)' = IF x \in Loops /\ s = r.server THEN LoopsOf(s) \cup {x} ELSE LoopsOf(s)
<1>1. /\ scan' \in [Scanners -> ScanRecord] /\ scan'[x] = r
      /\ \A y \in Scanners : y # x => scan'[y] = scan[y]
      /\ \A s : \A y : y # x => (y \in LoopsOf(s)' <=> y \in LoopsOf(s))
      /\ \A s : x \in LoopsOf(s)' <=> x \in Loops /\ r.step # "none" /\ r.server = s
  BY ScanIs
<1>2. RunningUp' /\ Logging' BY <1>1 DEF DetectorInv, RunningUp, Logging
<1>3. \A s : x \notin LoopsOf(s) BY DEF LoopsOf
<1>4. ASSUME NEW s PROVE BeingLogged(s) \subseteq BeingLogged(s)'
  <2> SUFFICES ASSUME NEW e \in BeingLogged(s) PROVE e \in BeingLogged(s)' OBVIOUS
  <2>1. PICK y \in Scanners : scan[y].server = s /\ scan[y].step = "log" /\ scan[y].entry = e
    BY DEF BeingLogged
  <2>2. scan'[y] = scan[y] BY <2>1, <1>1
  <2> QED BY <2>1, <2>2 DEF BeingLogged
<1>5. ASSUME NEW s PROVE LoopsOf(s)' = IF x \in Loops /\ s = r.server THEN LoopsOf(s) \cup {x} ELSE LoopsOf(s)
  <2>1. \A y : y \in LoopsOf(s)' <=> y \in LoopsOf(s) \/ (y = x /\ x \in Loops /\ s = r.server)
    BY <1>1, <1>3
  <2> QED BY <2>1
<1> QED BY <1>1, <1>2, <1>4, <1>5

(* Starting the loop keeps the invariant: a process that had one, or has     *)
(* another starter, was counted as doubled.                                  *)
LEMMA StartMonitoringStep ==
  ASSUME DetectorInv, NEW c \in Starters, NEW s \in Servers, NEW l \in Loops, StartMonitoring(c, s, l)
  PROVE  DetectorInv'
<1> DEFINE r == [step |-> "probe", server |-> s, left |-> AiDomains, entry |-> 0]
<1>1. /\ starter[c] = {s} /\ scan[l].step = "none"
      /\ starter' = [starter EXCEPT ![c] = {}] /\ monitoring' = [monitoring EXCEPT ![s] = TRUE]
      /\ scan' = [scan EXCEPT ![l] = r]
      /\ UNCHANGED <<detectorUp, detections, shadowLog, shadowCount, doubled, failed>>
  BY DEF StartMonitoring
<1>2. r \in ScanRecord /\ r.step = "probe" /\ r.server = s BY DetectorAssumption DEF ScanRecord
<1> HIDE DEF r
<1>3. l \in Scanners /\ s \in detectorUp BY <1>1 DEF Scanners, DetectorInv, StartersApart
<1>4. /\ scan' \in [Scanners -> ScanRecord] /\ RunningUp' /\ Logging'
      /\ \A t : BeingLogged(t) \subseteq BeingLogged(t)'
      /\ \A t : LoopsOf(t)' = IF l \in Loops /\ t = r.server THEN LoopsOf(t) \cup {l} ELSE LoopsOf(t)
  BY <1>1, <1>2, <1>3, BeginScan
<1>5. /\ monitoring \in [Servers -> BOOLEAN] /\ starter \in [Starters -> SUBSET Servers]
  BY DetectorShape DEF DetectorInv
<1>6. starter' \in [Starters -> SUBSET Servers] /\ starter'[c] = {}
      /\ \A b \in Starters : b # c => starter'[b] = starter[b]
  BY <1>1, <1>5
<1>7. monitoring' \in [Servers -> BOOLEAN] /\ \A t \in Servers : t # s => monitoring'[t] = monitoring[t]
  BY <1>1, <1>5
<1>8. DetectorTypeOK' BY <1>1, <1>4, <1>6, <1>7 DEF DetectorInv, DetectorTypeOK, ScanRecord
<1>9. StartersApart' BY <1>1, <1>6 DEF DetectorInv, StartersApart
<1>10. LoopsOf(s)' = LoopsOf(s) \cup {l} /\ \A t : t # s => LoopsOf(t)' = LoopsOf(t) BY <1>2, <1>4
<1>11. OneLoop'
  <2> SUFFICES ASSUME NEW t \in Servers, t \notin doubled
               PROVE  /\ \A k, m \in LoopsOf(t)' : k = m
                      /\ \A a, b \in Starters : starter'[a] = {t} /\ starter'[b] = {t} => a = b
                      /\ \A b \in Starters : starter'[b] = {t} => LoopsOf(t)' = {}
    BY <1>1 DEF OneLoop
  <2>1. /\ \A k, m \in LoopsOf(t) : k = m
        /\ \A a, b \in Starters : starter[a] = {t} /\ starter[b] = {t} => a = b
        /\ \A b \in Starters : starter[b] = {t} => LoopsOf(t) = {}
    BY DEF DetectorInv, OneLoop
  <2>2. \A b \in Starters : starter'[b] = {t} => b # c /\ starter[b] = {t} BY <1>6
  <2>3. CASE t # s BY <2>1, <2>2, <2>3, <1>10
  <2>4. CASE t = s
    <3>1. LoopsOf(t)' = {l} BY <2>1, <2>4, <1>1, <1>10
    <3>2. \A b \in Starters : starter'[b] # {t} BY <2>1, <2>2, <2>4, <1>1
    <3> QED BY <3>1, <3>2
  <2> QED BY <2>3, <2>4
<1>12. FlagsTold'
  <2> SUFFICES ASSUME NEW t \in Servers
               PROVE  IF t \in detectorUp
                      THEN t \notin failed => /\ monitoring'[t] => LoopsOf(t)' # {}
                                              /\ detections[t] \ shadowLog \subseteq BeingLogged(t)'
                      ELSE ~monitoring'[t]
    BY <1>1 DEF FlagsTold
  <2>1. IF t \in detectorUp
        THEN t \notin failed => /\ monitoring[t] => LoopsOf(t) # {}
                                /\ detections[t] \ shadowLog \subseteq BeingLogged(t)
        ELSE ~monitoring[t]
    BY DEF DetectorInv, FlagsTold
  <2>2. CASE t # s BY <2>1, <2>2, <1>4, <1>7, <1>10
  <2>3. CASE t = s BY <2>1, <2>3, <1>3, <1>4, <1>10
  <2> QED BY <2>2, <2>3
<1> QED BY <1>4, <1>8, <1>9, <1>11, <1>12 DEF DetectorInv

(* A scan on request keeps the invariant: it is no loop. *)
LEMMA ScanOnceStep ==
  ASSUME DetectorInv, NEW j \in ScanJobs, NEW s \in Servers, ScanOnce(j, s)
  PROVE  DetectorInv'
<1> DEFINE r == [step |-> "probe", server |-> s, left |-> AiDomains, entry |-> 0]
<1>1. /\ scan[j].step = "none" /\ s \in detectorUp /\ scan' = [scan EXCEPT ![j] = r]
      /\ UNCHANGED <<detectorUp, monitoring, starter, detections, shadowLog, shadowCount, doubled, failed>>
  BY DEF ScanOnce
<1>2. r \in ScanRecord /\ r.step = "probe" /\ r.server = s BY DetectorAssumption DEF ScanRecord
<1> HIDE DEF r
<1>3. j \in Scanners /\ j \notin Loops BY DetectorAssumption DEF Scanners
<1>4. /\ scan' \in [Scanners -> ScanRecord] /\ RunningUp' /\ Logging'
      /\ \A t : BeingLogged(t) \subseteq BeingLogged(t)'
      /\ \A t : LoopsOf(t)' = IF j \in Loops /\ t = r.server THEN LoopsOf(t) \cup {j} ELSE LoopsOf(t)
  BY <1>1, <1>2, <1>3, BeginScan
<1>5. \A t : LoopsOf(t)' = LoopsOf(t) BY <1>3, <1>4
<1>6. DetectorTypeOK' BY <1>1, <1>4 DEF DetectorInv, DetectorTypeOK, ScanRecord
<1>7. StartersApart' BY <1>1 DEF DetectorInv, StartersApart
<1>8. OneLoop' BY <1>1, <1>5 DEF DetectorInv, OneLoop
<1>9. FlagsTold'
  <2> SUFFICES ASSUME NEW t \in Servers
               PROVE  IF t \in detectorUp
                      THEN t \notin failed => /\ monitoring[t] => LoopsOf(t) # {}
                                              /\ detections[t] \ shadowLog \subseteq BeingLogged(t)'
                      ELSE ~monitoring[t]
    BY <1>1, <1>5 DEF FlagsTold
  <2> QED BY <1>4 DEF DetectorInv, FlagsTold
<1> QED BY <1>4, <1>6, <1>7, <1>8, <1>9 DEF DetectorInv

(* Taking the flag down keeps the invariant: a loop that has not seen it yet *)
(* makes the process count as doubled once it is put up again.               *)
LEMMA StopMonitoringStep ==
  ASSUME DetectorInv, NEW s \in Servers, StopMonitoring(s)
  PROVE  DetectorInv'
<1>1. /\ monitoring' = [monitoring EXCEPT ![s] = FALSE]
      /\ UNCHANGED <<detectorUp, starter, scan, detections, shadowLog, shadowCount, doubled, failed>>
  BY Zenon DEF StopMonitoring
<1>2. monitoring \in [Servers -> BOOLEAN] BY DetectorShape DEF DetectorInv
<1>3. /\ monitoring' \in [Servers -> BOOLEAN] /\ ~monitoring'[s]
      /\ \A t \in Servers : t # s => monitoring'[t] = monitoring[t]
  BY <1>1, <1>2
<1>4. \A t : LoopsOf(t)' = LoopsOf(t) /\ BeingLogged(t)' = BeingLogged(t) BY <1>1 DEF LoopsOf, BeingLogged
<1>5. DetectorTypeOK' BY <1>1, <1>3 DEF DetectorInv, DetectorTypeOK
<1>6. StartersApart' /\ RunningUp' /\ Logging' BY <1>1 DEF DetectorInv, StartersApart, RunningUp, Logging
<1>7. OneLoop' BY <1>1, <1>4 DEF DetectorInv, OneLoop
<1>8. FlagsTold'
  <2> SUFFICES ASSUME NEW t \in Servers
               PROVE  IF t \in detectorUp
                      THEN t \notin failed => /\ monitoring'[t] => LoopsOf(t) # {}
                                              /\ detections[t] \ shadowLog \subseteq BeingLogged(t)
                      ELSE ~monitoring'[t]
    BY <1>1, <1>4 DEF FlagsTold
  <2> QED BY <1>3 DEF DetectorInv, FlagsTold
<1> QED BY <1>5, <1>6, <1>7, <1>8 DEF DetectorInv

(* A kill ends all that ran in the process. *)
LEMMA KillDetectorStep ==
  ASSUME DetectorInv, NEW s \in Servers, KillDetector(s)
  PROVE  DetectorInv'
<1>1. /\ s \in detectorUp /\ shadowCount.faults < MaxDetectorFaults
      /\ shadowCount' = [shadowCount EXCEPT !.faults = @ + 1] /\ detectorUp' = detectorUp \ {s}
      /\ starter' = [c \in Starters |-> starter[c] \ {s}]
      /\ scan' = [x \in Scanners |-> IF scan[x].server = s THEN NoScan ELSE scan[x]]
      /\ doubled' = doubled \ {s} /\ failed' = failed \ {s} /\ UNCHANGED <<detections, shadowLog>>
  BY DEF KillDetector
<1>2. monitoring' = [monitoring EXCEPT ![s] = FALSE] BY Zenon DEF KillDetector
<1>3. /\ detectorUp \subseteq Servers /\ doubled \subseteq Servers /\ failed \subseteq Servers
      /\ monitoring \in [Servers -> BOOLEAN] /\ starter \in [Starters -> SUBSET Servers]
      /\ scan \in [Scanners -> ScanRecord] /\ shadowCount \in CountRecord
  BY DetectorShape DEF DetectorInv
<1>4. /\ monitoring' \in [Servers -> BOOLEAN] /\ ~monitoring'[s]
      /\ \A t \in Servers : t # s => monitoring'[t] = monitoring[t]
  BY <1>2, <1>3
<1>5. shadowCount' \in CountRecord
  <2>1. shadowCount.faults + 1 \in 0 .. MaxDetectorFaults BY <1>1, <1>3, CountIs, DetectorAssumption
  <2> QED BY <2>1, <1>1, <1>3, CountIs
<1>6. /\ scan' \in [Scanners -> ScanRecord]
      /\ \A x \in Scanners : scan[x].server = s => scan'[x].step = "none"
      /\ \A x \in Scanners : scan[x].server # s => scan'[x] = scan[x]
  BY <1>1, <1>3, NoScanIs
<1>7. LoopsOf(s)' = {} /\ \A t : t # s => LoopsOf(t)' = LoopsOf(t)
  <2>1. \A x \in Loops : x \in Scanners BY DEF Scanners
  <2>2. \A t : \A x \in Loops : x \in LoopsOf(t)' <=> t # s /\ x \in LoopsOf(t) BY <2>1, <1>6 DEF LoopsOf
  <2>3. \A t : LoopsOf(t) \subseteq Loops /\ LoopsOf(t)' \subseteq Loops BY DEF LoopsOf
  <2> QED BY <2>2, <2>3
<1>8. \A t : t # s => BeingLogged(t) \subseteq BeingLogged(t)'
  <2> SUFFICES ASSUME NEW t, t # s, NEW e \in BeingLogged(t) PROVE e \in BeingLogged(t)' OBVIOUS
  <2>1. PICK y \in Scanners : scan[y].server = t /\ scan[y].step = "log" /\ scan[y].entry = e
    BY DEF BeingLogged
  <2>2. scan'[y] = scan[y] BY <2>1, <1>6
  <2> QED BY <2>1, <2>2 DEF BeingLogged
<1>9. starter' \in [Starters -> SUBSET Servers]
      /\ \A c \in Starters : \A t \in starter'[c] : t # s /\ t \in starter[c] /\ starter'[c] = starter[c] \ {s}
  BY <1>1, <1>3
<1>10. DetectorTypeOK'
  <2>1. detectorUp' \subseteq Servers /\ doubled' \subseteq Servers /\ failed' \subseteq Servers BY <1>1, <1>3
  <2> QED BY <2>1, <1>1, <1>4, <1>5, <1>6, <1>9 DEF DetectorInv, DetectorTypeOK, ScanRecord, CountRecord
<1>11. StartersApart'
  <2> SUFFICES ASSUME NEW c \in Starters, NEW t \in starter'[c] PROVE starter'[c] = {t} /\ t \in detectorUp'
    BY DEF StartersApart
  <2>1. t # s /\ starter[c] = {t} /\ t \in detectorUp BY <1>9 DEF DetectorInv, StartersApart
  <2> QED BY <2>1, <1>1, <1>9
<1>12. OneLoop'
  <2> SUFFICES ASSUME NEW t \in Servers, t \notin doubled'
               PROVE  /\ \A k, m \in LoopsOf(t)' : k = m
                      /\ \A a, b \in Starters : starter'[a] = {t} /\ starter'[b] = {t} => a = b
                      /\ \A b \in Starters : starter'[b] = {t} => LoopsOf(t)' = {}
    BY DEF OneLoop
  <2>1. \A b \in Starters : starter'[b] = {t} => t # s /\ starter[b] = {t}
    BY <1>9 DEF DetectorInv, StartersApart
  <2>2. CASE t = s BY <2>1, <2>2, <1>7
  <2>3. CASE t # s
    <3>1. /\ \A k, m \in LoopsOf(t) : k = m
          /\ \A a, b \in Starters : starter[a] = {t} /\ starter[b] = {t} => a = b
          /\ \A b \in Starters : starter[b] = {t} => LoopsOf(t) = {}
      BY <2>3, <1>1 DEF DetectorInv, OneLoop
    <3> QED BY <3>1, <2>1, <2>3, <1>7
  <2> QED BY <2>2, <2>3
<1>13. RunningUp' /\ Logging' BY <1>1, <1>6, NoScanIs DEF DetectorInv, RunningUp, Logging
<1>14. FlagsTold'
  <2> SUFFICES ASSUME NEW t \in Servers
               PROVE  IF t \in detectorUp'
                      THEN t \notin failed' => /\ monitoring'[t] => LoopsOf(t)' # {}
                                               /\ detections[t] \ shadowLog \subseteq BeingLogged(t)'
                      ELSE ~monitoring'[t]
    BY <1>1 DEF FlagsTold
  <2>1. CASE t = s BY <2>1, <1>1, <1>4
  <2>2. CASE t # s
    <3>1. IF t \in detectorUp
          THEN t \notin failed => /\ monitoring[t] => LoopsOf(t) # {}
                                  /\ detections[t] \ shadowLog \subseteq BeingLogged(t)
          ELSE ~monitoring[t]
      BY DEF DetectorInv, FlagsTold
    <3> QED BY <3>1, <2>2, <1>1, <1>4, <1>7, <1>8
  <2> QED BY <2>1, <2>2
<1> QED BY <1>10, <1>11, <1>12, <1>13, <1>14 DEF DetectorInv

(* A process that starts has no loop and knows no detection. *)
LEMMA StartDetectorStep ==
  ASSUME DetectorInv, NEW s \in Servers, StartDetector(s)
  PROVE  DetectorInv'
<1>1. /\ s \notin detectorUp /\ detectorUp' = detectorUp \cup {s}
      /\ detections' = [detections EXCEPT ![s] = shadowLog]
      /\ UNCHANGED <<monitoring, starter, scan, shadowLog, shadowCount, doubled, failed>>
  BY DEF StartDetector
<1>2. detections \in [Servers -> SUBSET Entries] /\ shadowLog \subseteq Entries
  BY DetectorShape DEF DetectorInv
<1>3. detections' \in [Servers -> SUBSET Entries] /\ detections'[s] = shadowLog
      /\ \A t \in Servers : t # s => detections'[t] = detections[t]
  BY <1>1, <1>2
<1>4. \A t : LoopsOf(t)' = LoopsOf(t) /\ BeingLogged(t)' = BeingLogged(t) BY <1>1 DEF LoopsOf, BeingLogged
<1>5. DetectorTypeOK' BY <1>1, <1>3 DEF DetectorInv, DetectorTypeOK
<1>6. StartersApart' /\ RunningUp' /\ Logging' BY <1>1 DEF DetectorInv, StartersApart, RunningUp, Logging
<1>7. OneLoop' BY <1>1, <1>4 DEF DetectorInv, OneLoop
<1>8. FlagsTold'
  <2> SUFFICES ASSUME NEW t \in Servers
               PROVE  IF t \in detectorUp'
                      THEN t \notin failed => /\ monitoring[t] => LoopsOf(t) # {}
                                              /\ detections'[t] \ shadowLog \subseteq BeingLogged(t)
                      ELSE ~monitoring[t]
    BY <1>1, <1>4 DEF FlagsTold
  <2> QED BY <1>1, <1>3 DEF DetectorInv, FlagsTold
<1> QED BY <1>5, <1>6, <1>7, <1>8 DEF DetectorInv

(* Every step of the detector keeps the invariant. *)
LEMMA DetectorStep == DetectorInv /\ [DetectorNext]_detectorVars => DetectorInv'
<1> SUFFICES ASSUME DetectorInv, [DetectorNext]_detectorVars PROVE DetectorInv' OBVIOUS
<1>1. CASE UNCHANGED detectorVars
  <2>1. \A t : LoopsOf(t)' = LoopsOf(t) /\ BeingLogged(t)' = BeingLogged(t)
    BY <1>1 DEF detectorVars, LoopsOf, BeingLogged
  <2> QED
    BY <2>1, <1>1
    DEF detectorVars, DetectorInv, DetectorTypeOK, StartersApart, OneLoop, RunningUp, FlagsTold, Logging
<1>2. ASSUME NEW l \in Loops PROVE l \in Scanners BY DEF Scanners
<1> QED
  BY <1>1, <1>2, TestFlagStep, StartMonitoringStep, ScanOnceStep, StopMonitoringStep, KillDetectorStep,
     StartDetectorStep, ProbeStep, LogStep, LogErrorStep, EndPassStep, WakeUpStep
  DEF DetectorNext

(* A process runs one monitoring loop at most, unless two starts met or one  *)
(* came before a stopped loop had woken; while its flag is set a loop runs,  *)
(* and what it found is in the log or about to be, unless an append failed,  *)
(* for any number of processes, starters and domains: the shadow AI          *)
(* detector.                                                                 *)
THEOREM LoopsAreBounded == DetectorSpec => []LoopsBounded
<1>1. DetectorInv => LoopsBounded
  <2> SUFFICES ASSUME DetectorInv, NEW s \in detectorUp
               PROVE  /\ s \notin doubled => Cardinality(LoopsOf(s)) <= 1
                      /\ s \notin failed =>
                           /\ monitoring[s] => LoopsOf(s) # {}
                           /\ detections[s] \ shadowLog \subseteq BeingLogged(s)
    BY DEF LoopsBounded, BeingLogged
  <2>1. s \in Servers BY DetectorShape DEF DetectorInv
  <2>2. ASSUME s \notin doubled PROVE Cardinality(LoopsOf(s)) <= 1
    <3>1. CASE LoopsOf(s) = {} BY <3>1, FS_EmptySet
    <3>2. CASE LoopsOf(s) # {}
      <4>1. PICK l : l \in LoopsOf(s) BY <3>2
      <4>2. LoopsOf(s) = {l} BY <4>1, <2>1, <2>2 DEF DetectorInv, OneLoop
      <4>3. \A x : Cardinality({x}) = 1 BY FS_Singleton
      <4>4. Cardinality(LoopsOf(s)) = 1 BY <4>2, <4>3
      <4> QED BY <4>4
    <3> QED BY <3>1, <3>2
  <2> QED BY <2>1, <2>2 DEF DetectorInv, FlagsTold
<1> QED BY <1>1, DetectorInitOK, DetectorStep, PTL DEF DetectorSpec

-----------------------------------------------------------------------------
LookupRecord == [kind : Kinds \cup {"digest"},
       step : {"idle", "payload", "stat", "expiry", "compute", "store", "storeStat", "storeExpiry",
               "answer"},
       now : 0 .. MaxCacheTime, stat : 0 .. MaxVersions, payload : Payloads, raced : BOOLEAN]
EntryRecord == [full : BOOLEAN, payload : Payloads, stat : 0 .. MaxVersions,
                expires : 0 .. MaxCacheTime + TTL, mixed : BOOLEAN]

(* What an entry says of its payload's age is true of it. *)
Consistent(entry) == entry.expires <= entry.payload.at + TTL /\ entry.stat <= entry.payload.version

(* A lookup has looked at the clock and the file before it reads; what it    *)
(* computed is no older.                                                     *)
LookupOK(r) ==
  /\ r.step # "idle" => r.now <= cacheTime /\ r.stat <= version
  /\ r.step \in {"stat", "storeStat"} => r.kind = "release"
  /\ r.step \in {"expiry", "storeExpiry"} => r.kind \in Kinds
  /\ r.step \in {"store", "storeStat", "storeExpiry"} =>
       r.payload.at >= r.now /\ r.payload.version >= r.stat

(* What a lookup that met no writer has read of an entry is what the entry   *)
(* holds.                                                                    *)
ReadSoFar(r, entry) ==
  r.step \in {"payload", "stat", "expiry"} /\ ~r.raced =>
    /\ Consistent(entry)
    /\ r.step = "stat" => r.payload = entry.payload
    /\ r.step = "expiry" /\ r.kind # "models" => r.payload = entry.payload
    /\ r.step = "expiry" /\ r.kind = "release" => r.stat = entry.stat
    /\ r.step = "payload" /\ r.kind = "models" => entry.expires > r.now

(* What a lookup answers is as fresh as is promised of it. *)
AnswerFresh(r) ==
  r.step = "answer" =>
    /\ r.kind \in Kinds /\ ~r.raced => r.payload.at + TTL > r.now
    /\ r.kind = "release" /\ ~r.raced => r.payload.version >= r.stat
    /\ r.kind = "digest" => r.payload.version >= r.stat

(* Every lookup is in order. *)
CallsOK ==
  \A c \in Callers :
    /\ LookupOK(caller[c]) /\ AnswerFresh(caller[c])
    /\ caller[c].kind \in Kinds => ReadSoFar(caller[c], timed[caller[c].kind])

(* The lookups that have written a part of an entry and not yet all of it. *)
Stored(kind) == {c \in Callers : caller[c].kind = kind /\ caller[c].step \in {"storeStat", "storeExpiry"}}

(* An entry that is not mixed is being written by one lookup at most, whose  *)
(* values are those it has, and is consistent once that is done.             *)
EntriesOK ==
  \A k \in Kinds :
    /\ k # "release" => timed[k].stat = 0
    /\ ~timed[k].mixed =>
         /\ \A c, d \in Stored(k) : c = d
         /\ \A c \in Stored(k) :
              /\ timed[k].payload = caller[c].payload
              /\ k = "release" /\ caller[c].step = "storeExpiry" => timed[k].stat = caller[c].stat
         /\ Stored(k) = {} => Consistent(timed[k])

(* The digest cache is written at once: its payload is of the file it names  *)
(* or a later one.                                                           *)
DigestOK == digest.payload.version >= digest.stat

(* The inductive invariant of the caches. *)
CachesInv == CachesTypeOK /\ CallsOK /\ EntriesOK /\ DigestOK

(* The type invariant, with names for its records. *)
LEMMA CachesShape ==
  CachesTypeOK <=> /\ cacheKind \in Kinds \cup {"digest"} /\ caller \in [Callers -> LookupRecord]
                   /\ timed \in [Kinds -> EntryRecord] /\ digest \in [stat : 0 .. MaxVersions, payload : Payloads]
                   /\ version \in 1 .. MaxVersions /\ cacheTime \in 0 .. MaxCacheTime
                   /\ lookups \in 0 .. MaxLookups
BY DEF CachesTypeOK, LookupRecord, EntryRecord

(* A lookup at rest has the type of its record. *)
LEMMA NoLookupIs == NoPayload \in Payloads /\ NoLookup \in LookupRecord /\ NoLookup.step = "idle"
<1>1. NoPayload \in Payloads BY CachesAssumption DEF NoPayload, Payloads
<1> QED BY <1>1, CachesAssumption DEF NoLookup, LookupRecord

(* Initially the caches are empty and nobody looks anything up. *)
LEMMA CachesInitOK == CachesInit => CachesInv
<1> SUFFICES ASSUME CachesInit PROVE CachesInv OBVIOUS
<1> DEFINE entry == [full |-> FALSE, payload |-> NoPayload, stat |-> 0, expires |-> 0, mixed |-> FALSE]
<1>1. /\ cacheKind \in Kinds \cup {"digest"} /\ caller = [c \in Callers |-> NoLookup]
      /\ timed = [k \in Kinds |-> entry] /\ digest = [stat |-> 0, payload |-> NoPayload]
      /\ version = 1 /\ cacheTime = 0 /\ lookups = 0
  BY DEF CachesInit
<1>2. entry \in EntryRecord /\ Consistent(entry) /\ entry.stat = 0
  BY NoLookupIs, CachesAssumption DEF EntryRecord, Consistent, NoPayload
<1> HIDE DEF entry
<1>3. CachesTypeOK BY <1>1, <1>2, NoLookupIs, CachesAssumption, CachesShape
<1>4. CallsOK BY <1>1, NoLookupIs DEF CallsOK, LookupOK, AnswerFresh, ReadSoFar
<1>5. \A k : Stored(k) = {} BY <1>1, NoLookupIs DEF Stored
<1>6. EntriesOK BY <1>1, <1>2, <1>5 DEF EntriesOK
<1>7. DigestOK BY <1>1 DEF DigestOK, NoPayload
<1> QED BY <1>3, <1>4, <1>6, <1>7 DEF CachesInv

(* What the invariant says of one lookup. *)
LEMMA CallIs ==
  ASSUME CachesInv, NEW c \in Callers
  PROVE  LET r == caller[c] IN
         /\ r \in LookupRecord /\ LookupOK(r) /\ AnswerFresh(r)
         /\ r.kind \in Kinds => ReadSoFar(r, timed[r.kind])
         /\ r.now \in Nat /\ r.stat \in Nat /\ r.payload \in Payloads
         /\ r.payload.at \in Nat /\ r.payload.version \in Nat /\ r.kind \in Kinds \cup {"digest"}
<1>1. caller[c] \in LookupRecord BY CachesShape DEF CachesInv
<1>2. caller[c].payload \in Payloads BY <1>1 DEF LookupRecord
<1>3. caller[c].payload.at \in Nat /\ caller[c].payload.version \in Nat BY <1>2 DEF Payloads
<1>4. caller[c].now \in Nat /\ caller[c].stat \in Nat /\ caller[c].kind \in Kinds \cup {"digest"}
  BY <1>1 DEF LookupRecord
<1> QED BY <1>1, <1>2, <1>3, <1>4 DEF CachesInv, CallsOK

(* A lookup that moves on without writing to a cache keeps the invariant. *)
LEMMA LookupMoves ==
  ASSUME CachesInv, NEW c \in Callers, NEW r \in LookupRecord, caller' = [caller EXCEPT ![c] = r],
         UNCHANGED <<cacheKind, timed, digest, version, cacheTime>>, lookups' \in 0 .. MaxLookups,
         LookupOK(r), AnswerFresh(r), r.kind \in Kinds => ReadSoFar(r, timed[r.kind]),
         r.step \notin {"storeStat", "storeExpiry"}, caller[c].step \notin {"storeStat", "storeExpiry"}
  PROVE  CachesInv'
<1>1. /\ caller' \in [Callers -> LookupRecord] /\ caller'[c] = r
      /\ \A d \in Callers : d # c => caller'[d] = caller[d]
  BY CachesShape DEF CachesInv
<1>2. CachesTypeOK' BY <1>1, CachesShape DEF CachesInv, CachesTypeOK, LookupRecord
<1>3. CallsOK'
  <2> SUFFICES ASSUME NEW d \in Callers
               PROVE  /\ LookupOK(caller[d])' /\ AnswerFresh(caller'[d])
                      /\ caller'[d].kind \in Kinds => ReadSoFar(caller'[d], timed[caller'[d].kind])
    BY DEF CallsOK, AnswerFresh, ReadSoFar, Consistent
  <2>1. CASE d = c BY <2>1, <1>1 DEF LookupOK
  <2>2. CASE d # c BY <2>2, <1>1, CallIs DEF LookupOK
  <2> QED BY <2>1, <2>2
<1>4. \A k : Stored(k)' = Stored(k) BY <1>1 DEF Stored
<1>5. EntriesOK'
  <2>1. \A k : \A d \in Stored(k) : caller'[d] = caller[d] BY <1>1 DEF Stored
  <2> QED BY <2>1, <1>4 DEF CachesInv, EntriesOK, Consistent
<1>6. DigestOK' BY DEF CachesInv, DigestOK
<1> QED BY <1>2, <1>3, <1>5, <1>6 DEF CachesInv

(* Beginning a lookup keeps the invariant. *)
LEMMA BeginLookupStep ==
  ASSUME CachesInv, NEW c \in Callers, NEW kind \in Kinds \cup {"digest"}, BeginLookup(c, kind)
  PROVE  CachesInv'
<1> DEFINE raced == kind \in Kinds /\ (Filling(kind) # {} \/ timed[kind].mixed)
           r == [kind |-> kind, now |-> cacheTime, stat |-> version, payload |-> NoPayload,
                 raced |-> raced, step |-> IF kind = "models" THEN "expiry" ELSE "payload"]
<1>1. /\ caller[c].step = "idle" /\ lookups < MaxLookups /\ lookups' = lookups + 1
      /\ caller' = [caller EXCEPT ![c] = r]
      /\ UNCHANGED <<cacheKind, timed, digest, version, cacheTime>>
  BY Zenon DEF BeginLookup
<1>2. /\ timed \in [Kinds -> EntryRecord] /\ cacheTime \in 0 .. MaxCacheTime /\ version \in 1 .. MaxVersions
      /\ lookups \in 0 .. MaxLookups
  BY CachesShape DEF CachesInv
<1>3. raced \in BOOLEAN BY Zenon
<1>4. ~raced /\ kind \in Kinds => Consistent(timed[kind])
  <2> SUFFICES ASSUME ~raced, kind \in Kinds PROVE Consistent(timed[kind]) OBVIOUS
  <2>1. Filling(kind) = {} /\ ~timed[kind].mixed OBVIOUS
  <2>2. Stored(kind) = {} BY <2>1 DEF Stored, Filling
  <2> QED BY <2>1, <2>2 DEF CachesInv, EntriesOK
<1> HIDE DEF raced
<1>5. version \in 0 .. MaxVersions BY <1>2, CachesAssumption
<1>6. /\ r \in LookupRecord /\ r.kind = kind /\ r.now = cacheTime /\ r.stat = version /\ r.raced = raced
      /\ r.step = IF kind = "models" THEN "expiry" ELSE "payload"
  BY <1>2, <1>3, <1>5, NoLookupIs DEF LookupRecord
<1> HIDE DEF r
<1>7. LookupOK(r) BY <1>2, <1>6 DEF LookupOK, Kinds
<1>8. AnswerFresh(r) BY <1>6 DEF AnswerFresh
<1>9. r.kind \in Kinds => ReadSoFar(r, timed[r.kind]) BY <1>4, <1>6 DEF ReadSoFar
<1>10. lookups' \in 0 .. MaxLookups BY <1>1, <1>2, CachesAssumption
<1> QED BY <1>1, <1>6, <1>7, <1>8, <1>9, <1>10, LookupMoves

(* The parts of an entry have their types. *)
LEMMA EntryIs ==
  ASSUME CachesInv, NEW k \in Kinds
  PROVE  /\ timed[k] \in EntryRecord /\ timed[k].payload \in Payloads /\ timed[k].expires \in Nat
         /\ timed[k].stat \in 0 .. MaxVersions /\ timed[k].full \in BOOLEAN /\ timed[k].mixed \in BOOLEAN
         /\ timed[k].payload.at \in Nat /\ timed[k].payload.version \in Nat
<1>1. timed[k] \in EntryRecord BY CachesShape DEF CachesInv
<1>2. timed[k].payload \in Payloads BY <1>1 DEF EntryRecord
<1>3. timed[k].payload.at \in Nat /\ timed[k].payload.version \in Nat BY <1>2 DEF Payloads
<1>4. timed[k].expires \in Nat /\ timed[k].stat \in 0 .. MaxVersions
  BY <1>1, CachesAssumption DEF EntryRecord
<1>5. timed[k].full \in BOOLEAN /\ timed[k].mixed \in BOOLEAN BY Zenon, <1>1 DEF EntryRecord
<1> QED BY <1>1, <1>2, <1>3, <1>4, <1>5

(* Reading an entry's payload keeps the invariant. *)
LEMMA ReadPayloadStep ==
  ASSUME CachesInv, NEW c \in Callers, ReadPayload(c)
  PROVE  CachesInv'
<1> DEFINE kind == caller[c].kind
           entry == timed[kind]
           next == CASE kind = "models" -> "answer"
                     [] kind # "models" /\ ~entry.full -> "compute"
                     [] kind = "doctor" /\ entry.full -> "expiry"
                     [] kind = "release" /\ entry.full -> "stat"
           took == [caller[c] EXCEPT !.payload = entry.payload]
           r == [took EXCEPT !.step = next]
<1>1. /\ caller[c].step = "payload" /\ kind \in Kinds
      /\ caller' = [caller EXCEPT ![c].payload = entry.payload, ![c].step = next]
      /\ UNCHANGED <<cacheKind, timed, digest, version, cacheTime, lookups>>
  BY DEF ReadPayload
<1>2. /\ caller[c] \in LookupRecord /\ LookupOK(caller[c]) /\ ReadSoFar(caller[c], entry)
      /\ caller[c].now \in Nat /\ caller[c].raced \in BOOLEAN
  BY <1>1, CallIs DEF LookupRecord
<1>3. entry \in EntryRecord /\ entry.payload \in Payloads /\ entry.full \in BOOLEAN /\ entry.expires \in Nat
      /\ entry.payload.at \in Nat
  BY <1>1, EntryIs
<1>4. caller \in [Callers -> LookupRecord] /\ lookups \in 0 .. MaxLookups BY CachesShape DEF CachesInv
<1>6. /\ kind \in {"doctor", "models", "release"} /\ next \in {"answer", "compute", "expiry", "stat"}
      /\ next = "answer" => kind = "models"
      /\ next = "expiry" => kind = "doctor"
      /\ next = "stat" => kind = "release"
  BY <1>1, <1>3 DEF Kinds
<1> HIDE DEF next, entry
<1>5. caller' = [caller EXCEPT ![c] = r] BY <1>1, <1>4
<1>7. /\ took \in LookupRecord /\ took.kind = kind /\ took.now = caller[c].now /\ took.stat = caller[c].stat
      /\ took.raced = caller[c].raced /\ took.payload = entry.payload
  BY <1>2, <1>3 DEF LookupRecord
<1> HIDE DEF took
<1>8. /\ r \in LookupRecord /\ r.kind = kind /\ r.now = caller[c].now /\ r.stat = caller[c].stat
      /\ r.raced = caller[c].raced /\ r.payload = entry.payload /\ r.step = next
  BY <1>6, <1>7 DEF LookupRecord
<1> HIDE DEF r, kind
<1>9. LookupOK(r) BY <1>1, <1>2, <1>6, <1>8 DEF LookupOK
<1>10. ReadSoFar(r, entry) BY <1>1, <1>2, <1>6, <1>8 DEF ReadSoFar, kind
<1>11. AnswerFresh(r)
  <2> SUFFICES ASSUME r.step = "answer", ~r.raced PROVE r.kind = "models" /\ r.payload.at + TTL > r.now
    BY <1>6, <1>8 DEF AnswerFresh, Kinds
  <2>1. r.kind = "models" /\ caller[c].kind = "models" BY <1>6, <1>8 DEF kind
  <2>2. Consistent(entry) /\ entry.expires > caller[c].now BY <2>1, <1>1, <1>2, <1>8 DEF ReadSoFar
  <2> QED BY <2>1, <2>2, <1>2, <1>3, <1>8, CachesAssumption DEF Consistent
<1>12. r.kind \in Kinds => ReadSoFar(r, timed[r.kind]) BY <1>8, <1>10 DEF entry, kind
<1>13. r.step \notin {"storeStat", "storeExpiry"} BY <1>6, <1>8
<1> QED BY <1>1, <1>4, <1>5, <1>8, <1>9, <1>11, <1>12, <1>13, LookupMoves

(* Reading which file an entry is of keeps the invariant. *)
LEMMA ReadStatStep ==
  ASSUME CachesInv, NEW c \in Callers, ReadStat(c)
  PROVE  CachesInv'
<1> DEFINE entry == timed["release"]
           next == IF entry.stat = caller[c].stat THEN "expiry" ELSE "compute"
           r == [caller[c] EXCEPT !.step = next]
<1>1. /\ caller[c].step = "stat" /\ caller' = [caller EXCEPT ![c].step = next]
      /\ UNCHANGED <<cacheKind, timed, digest, version, cacheTime, lookups>>
  BY DEF ReadStat, Move
<1>2. /\ caller[c] \in LookupRecord /\ LookupOK(caller[c]) /\ caller[c].kind = "release"
      /\ ReadSoFar(caller[c], entry)
  BY <1>1, CallIs DEF LookupOK, Kinds
<1>3. caller \in [Callers -> LookupRecord] /\ lookups \in 0 .. MaxLookups BY CachesShape DEF CachesInv
<1>4. next \in {"expiry", "compute"} /\ (next = "expiry" => entry.stat = caller[c].stat) OBVIOUS
<1> HIDE DEF next, entry
<1>5. caller' = [caller EXCEPT ![c] = r] BY <1>1, <1>3
<1>6. /\ r \in LookupRecord /\ r.kind = "release" /\ r.now = caller[c].now /\ r.stat = caller[c].stat
      /\ r.raced = caller[c].raced /\ r.payload = caller[c].payload /\ r.step = next
  BY <1>2, <1>4 DEF LookupRecord
<1> HIDE DEF r
<1>7. LookupOK(r) BY <1>1, <1>2, <1>4, <1>6 DEF LookupOK, Kinds
<1>8. AnswerFresh(r) BY <1>4, <1>6 DEF AnswerFresh
<1>9. ReadSoFar(r, entry) BY <1>1, <1>2, <1>4, <1>6 DEF ReadSoFar
<1>10. r.kind \in Kinds => ReadSoFar(r, timed[r.kind]) BY <1>6, <1>9 DEF entry
<1>11. r.step \notin {"storeStat", "storeExpiry"} BY <1>4, <1>6
<1> QED BY <1>1, <1>3, <1>5, <1>6, <1>7, <1>8, <1>10, <1>11, LookupMoves

(* Reading until when an entry holds keeps the invariant: it is answered     *)
(* only before.                                                              *)
LEMMA ReadExpiryStep ==
  ASSUME CachesInv, NEW c \in Callers, ReadExpiry(c)
  PROVE  CachesInv'
<1> DEFINE kind == caller[c].kind
           entry == timed[kind]
           next == CASE entry.expires <= caller[c].now -> "compute"
                     [] entry.expires > caller[c].now -> IF kind = "models" THEN "payload" ELSE "answer"
           r == [caller[c] EXCEPT !.step = next]
<1>1. /\ caller[c].step = "expiry" /\ caller' = [caller EXCEPT ![c].step = next]
      /\ UNCHANGED <<cacheKind, timed, digest, version, cacheTime, lookups>>
  BY DEF ReadExpiry, Move
<1>2. /\ caller[c] \in LookupRecord /\ LookupOK(caller[c]) /\ kind \in Kinds /\ ReadSoFar(caller[c], entry)
      /\ caller[c].now \in Nat
  BY <1>1, CallIs DEF LookupOK
<1>3. caller \in [Callers -> LookupRecord] /\ lookups \in 0 .. MaxLookups BY CachesShape DEF CachesInv
<1>4. entry.expires \in Nat /\ entry.payload.at \in Nat BY <1>2, EntryIs
<1>5. /\ next \in {"compute", "payload", "answer"}
      /\ next = "payload" => kind = "models" /\ entry.expires > caller[c].now
      /\ next = "answer" => kind # "models" /\ entry.expires > caller[c].now
  BY <1>2, <1>4
<1> HIDE DEF next, entry
<1>6. caller' = [caller EXCEPT ![c] = r] BY <1>1, <1>3
<1>7. /\ r \in LookupRecord /\ r.kind = kind /\ r.now = caller[c].now /\ r.stat = caller[c].stat
      /\ r.raced = caller[c].raced /\ r.payload = caller[c].payload /\ r.step = next
  BY <1>2, <1>5 DEF LookupRecord
<1> HIDE DEF r
<1>8. LookupOK(r) BY <1>1, <1>2, <1>5, <1>7 DEF LookupOK
<1>9. ReadSoFar(r, entry) BY <1>1, <1>2, <1>5, <1>7 DEF ReadSoFar
<1>10. AnswerFresh(r)
  <2> SUFFICES ASSUME r.step = "answer", ~r.raced
               PROVE  /\ r.payload.at + TTL > r.now
                      /\ kind = "release" => r.payload.version >= r.stat
    <3>1. kind # "digest" BY <1>2 DEF Kinds
    <3> QED BY <3>1, <1>7 DEF AnswerFresh
  <2>1. kind # "models" /\ entry.expires > caller[c].now BY <1>5, <1>7
  <2>2. Consistent(entry) /\ caller[c].payload = entry.payload
        /\ (kind = "release" => caller[c].stat = entry.stat)
    BY <2>1, <1>1, <1>2, <1>7 DEF ReadSoFar
  <2>3. r.payload.at + TTL > r.now BY <2>1, <2>2, <1>2, <1>4, <1>7, CachesAssumption DEF Consistent
  <2>4. kind = "release" => r.payload.version >= r.stat BY <2>2, <1>7 DEF Consistent
  <2> QED BY <2>3, <2>4
<1>11. r.kind \in Kinds => ReadSoFar(r, timed[r.kind]) BY <1>7, <1>9 DEF entry
<1>12. r.step \notin {"storeStat", "storeExpiry"} BY <1>5, <1>7
<1> QED BY <1>1, <1>3, <1>6, <1>7, <1>8, <1>10, <1>11, <1>12, LookupMoves

(* Computing the payload anew keeps the invariant: it is of now and of the   *)
(* file as it is.                                                            *)
LEMMA ComputeStep ==
  ASSUME CachesInv, NEW c \in Callers, Compute(c)
  PROVE  CachesInv'
<1> DEFINE got == [at |-> cacheTime, version |-> version]
           done == [caller[c] EXCEPT !.payload = got]
           r == [done EXCEPT !.step = "store"]
<1>1. /\ caller[c].step = "compute"
      /\ caller' = [caller EXCEPT ![c].payload = got, ![c].step = "store"]
      /\ UNCHANGED <<cacheKind, timed, digest, version, cacheTime, lookups>>
  BY DEF Compute
<1>2. caller[c] \in LookupRecord /\ LookupOK(caller[c]) BY CallIs
<1>3. /\ caller \in [Callers -> LookupRecord] /\ lookups \in 0 .. MaxLookups
      /\ cacheTime \in 0 .. MaxCacheTime /\ version \in 1 .. MaxVersions
  BY CachesShape DEF CachesInv
<1>4. caller' = [caller EXCEPT ![c] = r] BY <1>1, <1>3
<1>5. got \in Payloads /\ got.at = cacheTime /\ got.version = version
  BY <1>3, CachesAssumption DEF Payloads
<1> HIDE DEF got
<1>6. /\ done \in LookupRecord /\ done.kind = caller[c].kind /\ done.now = caller[c].now
      /\ done.stat = caller[c].stat /\ done.payload = got
  BY <1>2, <1>5 DEF LookupRecord
<1> HIDE DEF done
<1>7. /\ r \in LookupRecord /\ r.kind = caller[c].kind /\ r.now = caller[c].now
      /\ r.stat = caller[c].stat /\ r.payload = got /\ r.step = "store"
  BY <1>6 DEF LookupRecord
<1> HIDE DEF r
<1>8. caller[c].now <= cacheTime /\ caller[c].stat <= version BY <1>1, <1>2 DEF LookupOK
<1>9. caller[c].now \in Nat /\ caller[c].stat \in Nat /\ cacheTime \in Nat /\ version \in Nat BY <1>3, CallIs
<1>10. LookupOK(r) BY <1>5, <1>7, <1>8, <1>9 DEF LookupOK
<1>11. AnswerFresh(r) /\ (r.kind \in Kinds => ReadSoFar(r, timed[r.kind])) BY <1>7 DEF AnswerFresh, ReadSoFar
<1>12. r.step \notin {"storeStat", "storeExpiry"} BY <1>7
<1> QED BY <1>1, <1>3, <1>4, <1>7, <1>10, <1>11, <1>12, LookupMoves

(* Reading the digest cache keeps the invariant. *)
LEMMA ReadDigestStep ==
  ASSUME CachesInv, NEW c \in Callers, ReadDigest(c)
  PROVE  CachesInv'
<1> DEFINE next == IF digest.stat = caller[c].stat THEN "answer" ELSE "compute"
           took == [caller[c] EXCEPT !.payload = digest.payload]
           r == [took EXCEPT !.step = next]
<1>1. /\ caller[c].step = "payload" /\ caller[c].kind = "digest"
      /\ caller' = [caller EXCEPT ![c].payload = digest.payload, ![c].step = next]
      /\ UNCHANGED <<cacheKind, timed, digest, version, cacheTime, lookups>>
  BY DEF ReadDigest
<1>2. caller[c] \in LookupRecord /\ LookupOK(caller[c]) BY CallIs
<1>3. /\ caller \in [Callers -> LookupRecord] /\ lookups \in 0 .. MaxLookups
      /\ digest \in [stat : 0 .. MaxVersions, payload : Payloads]
  BY CachesShape DEF CachesInv
<1>4. next \in {"answer", "compute"} /\ (next = "answer" => digest.stat = caller[c].stat) OBVIOUS
<1> HIDE DEF next
<1>5. caller' = [caller EXCEPT ![c] = r] BY <1>1, <1>3
<1>6. /\ took \in LookupRecord /\ took.kind = "digest" /\ took.now = caller[c].now
      /\ took.stat = caller[c].stat /\ took.payload = digest.payload
  BY <1>1, <1>2, <1>3 DEF LookupRecord
<1> HIDE DEF took
<1>7. /\ r \in LookupRecord /\ r.kind = "digest" /\ r.now = caller[c].now
      /\ r.stat = caller[c].stat /\ r.payload = digest.payload /\ r.step = next
  BY <1>4, <1>6 DEF LookupRecord
<1> HIDE DEF r
<1>8. LookupOK(r) BY <1>1, <1>2, <1>4, <1>7 DEF LookupOK
<1>9. AnswerFresh(r) BY <1>4, <1>7 DEF AnswerFresh, CachesInv, DigestOK, Kinds
<1>10. r.kind \notin Kinds BY <1>7 DEF Kinds
<1>11. r.step \notin {"storeStat", "storeExpiry"} BY <1>4, <1>7
<1> QED BY <1>1, <1>3, <1>5, <1>7, <1>8, <1>9, <1>10, <1>11, LookupMoves

(* Answering keeps the invariant. *)
LEMMA EndLookupStep ==
  ASSUME CachesInv, NEW c \in Callers, EndLookup(c)
  PROVE  CachesInv'
<1>1. /\ caller[c].step = "answer" /\ caller' = [caller EXCEPT ![c] = NoLookup]
      /\ UNCHANGED <<cacheKind, timed, digest, version, cacheTime, lookups>>
  BY DEF EndLookup
<1>2. lookups \in 0 .. MaxLookups BY CachesShape DEF CachesInv
<1>3. LookupOK(NoLookup) /\ AnswerFresh(NoLookup) /\ NoLookup.kind = "digest"
  BY NoLookupIs DEF LookupOK, AnswerFresh, NoLookup
<1>4. NoLookup.kind \notin Kinds BY <1>3 DEF Kinds
<1> QED BY <1>1, <1>2, <1>3, <1>4, NoLookupIs, LookupMoves

(* Marking the readers of an entry that is being written changes nothing but *)
(* their mark.                                                               *)
LEMMA RacingIs ==
  ASSUME CachesInv, NEW kind \in Kinds
  PROVE  /\ Racing(kind) \in [Callers -> LookupRecord]
         /\ \A d \in Callers :
              LET q == Racing(kind)[d] IN
              /\ q.kind = caller[d].kind /\ q.step = caller[d].step /\ q.now = caller[d].now
              /\ q.stat = caller[d].stat /\ q.payload = caller[d].payload
              /\ q.kind # kind => q = caller[d]
              /\ LookupOK(q) /\ AnswerFresh(q)
              /\ q.kind = kind => \A e : ReadSoFar(q, e)
<1> SUFFICES ASSUME NEW d \in Callers
             PROVE  /\ Racing(kind)[d] \in LookupRecord
                    /\ LET q == Racing(kind)[d] IN
                       /\ q.kind = caller[d].kind /\ q.step = caller[d].step /\ q.now = caller[d].now
                       /\ q.stat = caller[d].stat /\ q.payload = caller[d].payload
                       /\ q.kind # kind => q = caller[d]
                       /\ LookupOK(q) /\ AnswerFresh(q)
                       /\ q.kind = kind => \A e : ReadSoFar(q, e)
  BY DEF Racing
<1> DEFINE q == Racing(kind)[d]
<1>1. caller[d] \in LookupRecord /\ LookupOK(caller[d]) /\ AnswerFresh(caller[d]) BY CallIs
<1>2. CASE d \in Reading(kind)
  <2>1. q = [caller[d] EXCEPT !.raced = TRUE] BY <1>2 DEF Racing
  <2>2. caller[d].kind = kind /\ caller[d].step \in {"payload", "stat", "expiry"} BY <1>2 DEF Reading
  <2> HIDE DEF q
  <2>3. /\ q \in LookupRecord /\ q.kind = caller[d].kind /\ q.step = caller[d].step /\ q.now = caller[d].now
        /\ q.stat = caller[d].stat /\ q.payload = caller[d].payload /\ q.raced
    BY <2>1, <1>1 DEF LookupRecord
  <2>4. LookupOK(q) /\ AnswerFresh(q) /\ \A e : ReadSoFar(q, e)
    BY <2>2, <2>3, <1>1 DEF LookupOK, AnswerFresh, ReadSoFar
  <2> QED BY <2>2, <2>3, <2>4 DEF q
<1>3. CASE d \notin Reading(kind)
  <2>1. q = caller[d] BY <1>3 DEF Racing
  <2> HIDE DEF q
  <2>2. q.kind = kind => q.step \notin {"payload", "stat", "expiry"} BY <2>1, <1>3 DEF Reading
  <2> QED BY <2>1, <2>2, <1>1 DEF ReadSoFar, q
<1> QED BY <1>2, <1>3

(* A lookup that writes one part of an entry keeps the invariant, given what *)
(* it makes of the entry.                                                    *)
LEMMA StoreMoves ==
  ASSUME CachesInv, NEW c \in Callers, NEW kind \in Kinds, NEW r \in LookupRecord, NEW e \in EntryRecord,
         caller' = [Racing(kind) EXCEPT ![c] = r], timed' = [timed EXCEPT ![kind] = e],
         UNCHANGED <<cacheKind, digest, version, cacheTime, lookups>>,
         caller[c].kind = kind, r.kind = kind, LookupOK(r), AnswerFresh(r),
         r.step \in {"storeStat", "storeExpiry", "answer"},
         kind # "release" => e.stat = 0,
         ~e.mixed => Stored(kind) \ {c} = {},
         ~e.mixed /\ r.step # "answer" =>
           e.payload = r.payload /\ (kind = "release" /\ r.step = "storeExpiry" => e.stat = r.stat),
         ~e.mixed /\ r.step = "answer" => Consistent(e)
  PROVE  CachesInv'
<1>1. Racing(kind) \in [Callers -> LookupRecord] /\ timed \in [Kinds -> EntryRecord]
  BY RacingIs, CachesShape DEF CachesInv
<1>2. /\ caller' \in [Callers -> LookupRecord] /\ caller'[c] = r
      /\ \A d \in Callers : d # c => caller'[d] = Racing(kind)[d]
  BY <1>1
<1>3. /\ timed' \in [Kinds -> EntryRecord] /\ timed'[kind] = e
      /\ \A k \in Kinds : k # kind => timed'[k] = timed[k]
  BY <1>1
<1>4. \A d \in Callers : d # c =>
        /\ caller'[d].kind = caller[d].kind /\ caller'[d].step = caller[d].step
        /\ caller'[d].stat = caller[d].stat /\ caller'[d].payload = caller[d].payload
        /\ caller'[d].kind # kind => caller'[d] = caller[d]
        /\ LookupOK(caller'[d]) /\ AnswerFresh(caller'[d])
        /\ caller'[d].kind = kind => \A f : ReadSoFar(caller'[d], f)
  BY <1>2, RacingIs
<1>5. CachesTypeOK'
  <2>1. /\ cacheKind \in Kinds \cup {"digest"} /\ digest \in [stat : 0 .. MaxVersions, payload : Payloads]
        /\ version \in 1 .. MaxVersions /\ cacheTime \in 0 .. MaxCacheTime /\ lookups \in 0 .. MaxLookups
    BY CachesShape DEF CachesInv
  <2> QED BY <2>1, <1>2, <1>3 DEF CachesTypeOK, LookupRecord, EntryRecord
<1>6. CallsOK'
  <2> SUFFICES ASSUME NEW d \in Callers
               PROVE  /\ LookupOK(caller[d])' /\ AnswerFresh(caller'[d])
                      /\ caller'[d].kind \in Kinds => ReadSoFar(caller'[d], timed'[caller'[d].kind])
    BY DEF CallsOK, AnswerFresh, ReadSoFar, Consistent
  <2>1. CASE d = c BY <2>1, <1>2 DEF LookupOK, ReadSoFar
  <2>2. CASE d # c
    <3>1. LookupOK(caller[d])' BY <2>2, <1>4 DEF LookupOK
    <3>2. CASE caller'[d].kind = kind BY <3>1, <3>2, <2>2, <1>4
    <3>3. CASE caller'[d].kind # kind BY <3>1, <3>3, <2>2, <1>3, <1>4, CallIs
    <3> QED BY <3>2, <3>3
  <2> QED BY <2>1, <2>2
<1>7. \A k \in Kinds : k # kind => Stored(k)' = Stored(k) BY <1>2, <1>4 DEF Stored
<1>8. Stored(kind)' = (Stored(kind) \ {c}) \cup (IF r.step = "answer" THEN {} ELSE {c})
  BY <1>2, <1>4 DEF Stored
<1>9. EntriesOK'
  <2> SUFFICES ASSUME NEW k \in Kinds
               PROVE  /\ k # "release" => timed'[k].stat = 0
                      /\ ~timed'[k].mixed =>
                           /\ \A a, b \in Stored(k)' : a = b
                           /\ \A a \in Stored(k)' :
                                /\ timed'[k].payload = caller'[a].payload
                                /\ k = "release" /\ caller'[a].step = "storeExpiry" => timed'[k].stat = caller'[a].stat
                           /\ Stored(k)' = {} => Consistent(timed'[k])
    BY DEF EntriesOK, Consistent
  <2>1. CASE k = kind BY <2>1, <1>2, <1>3, <1>8
  <2>2. CASE k # kind
    <3>1. \A a \in Stored(k) : a \in Callers /\ a # c BY <2>2 DEF Stored
    <3> QED BY <3>1, <2>2, <1>3, <1>4, <1>7 DEF CachesInv, EntriesOK
  <2> QED BY <2>1, <2>2
<1>10. DigestOK' BY DEF CachesInv, DigestOK
<1> QED BY <1>5, <1>6, <1>9, <1>10 DEF CachesInv

(* What a lookup that is about to write holds. *)
LEMMA WriterIs ==
  ASSUME CachesInv, NEW c \in Callers, caller[c].step \in {"store", "storeStat", "storeExpiry"}
  PROVE  /\ caller[c].payload.at >= caller[c].now /\ caller[c].payload.version >= caller[c].stat
         /\ caller[c].payload.at + TTL > caller[c].now
         /\ caller[c].now <= cacheTime /\ caller[c].stat <= version
         /\ \A e : ReadSoFar(caller[c], e)
<1>1. /\ LookupOK(caller[c]) /\ caller[c].now \in Nat /\ caller[c].payload.at \in Nat BY CallIs
<1>2. caller[c].payload.at >= caller[c].now /\ caller[c].payload.version >= caller[c].stat
      /\ caller[c].now <= cacheTime /\ caller[c].stat <= version
  BY <1>1 DEF LookupOK
<1> QED BY <1>1, <1>2, CachesAssumption DEF ReadSoFar

(* A lookup that is about to write, moved on to another step of writing, is  *)
(* still in order.                                                           *)
LEMMA MovedIs ==
  ASSUME CachesInv, NEW c \in Callers, caller[c].step \in {"store", "storeStat", "storeExpiry"},
         NEW next \in {"storeStat", "storeExpiry", "answer"},
         next = "storeStat" => caller[c].kind = "release", next = "storeExpiry" => caller[c].kind \in Kinds
  PROVE  LET r == [caller[c] EXCEPT !.step = next] IN
         /\ r \in LookupRecord /\ r.kind = caller[c].kind /\ r.step = next /\ r.stat = caller[c].stat
         /\ r.now = caller[c].now /\ r.payload = caller[c].payload /\ LookupOK(r) /\ AnswerFresh(r)
<1> DEFINE r == [caller[c] EXCEPT !.step = next]
<1>1. caller[c] \in LookupRecord BY CallIs
<1>2. /\ r \in LookupRecord /\ r.kind = caller[c].kind /\ r.step = next /\ r.stat = caller[c].stat
      /\ r.now = caller[c].now /\ r.payload = caller[c].payload
  BY <1>1 DEF LookupRecord
<1> HIDE DEF r
<1>3. LookupOK(r) BY <1>2, WriterIs DEF LookupOK
<1>4. AnswerFresh(r) BY <1>2, WriterIs DEF AnswerFresh
<1> QED BY <1>2, <1>3, <1>4 DEF r

(* Writing an entry's payload keeps the invariant: beside another writer it  *)
(* mixes the entry.                                                          *)
LEMMA StoreStep ==
  ASSUME CachesInv, NEW c \in Callers, Store(c)
  PROVE  CachesInv'
<1> DEFINE kind == caller[c].kind
           next == IF kind = "release" THEN "storeStat" ELSE "storeExpiry"
           r == [caller[c] EXCEPT !.step = next]
           full == [timed[kind] EXCEPT !.full = TRUE]
           held == [full EXCEPT !.payload = caller[c].payload]
           alone == Filling(kind) # {c}
           e == [held EXCEPT !.mixed = alone]
<1>1. /\ caller[c].step = "store" /\ kind \in Kinds
      /\ caller' = [Racing(kind) EXCEPT ![c].step = next]
      /\ UNCHANGED <<cacheKind, digest, version, cacheTime, lookups>>
  BY DEF Store
<1>2. timed' = [timed EXCEPT ![kind].full = TRUE, ![kind].payload = caller[c].payload, ![kind].mixed = alone]
  BY Zenon DEF Store
<1>3. timed \in [Kinds -> EntryRecord] /\ timed[kind] \in EntryRecord /\ caller[c].payload \in Payloads
  BY <1>1, CachesShape, CallIs DEF CachesInv
<1>4. alone \in BOOLEAN BY Zenon
<1>5. ~alone => Stored(kind) \ {c} = {} BY DEF Stored, Filling
<1> HIDE DEF alone
<1>6. timed' = [timed EXCEPT ![kind] = e] BY <1>1, <1>2, <1>3
<1>7. full \in EntryRecord /\ full.stat = timed[kind].stat BY <1>3 DEF EntryRecord
<1> HIDE DEF full
<1>8. held \in EntryRecord /\ held.stat = timed[kind].stat /\ held.payload = caller[c].payload
  BY <1>3, <1>7 DEF EntryRecord
<1> HIDE DEF held
<1>9. e \in EntryRecord /\ e.stat = timed[kind].stat /\ e.payload = caller[c].payload
  BY <1>4, <1>8 DEF EntryRecord
<1>10. e.mixed <=> alone BY <1>4, <1>8 DEF EntryRecord
<1> HIDE DEF e
<1>11. next \in {"storeStat", "storeExpiry"} /\ (next = "storeStat" <=> kind = "release") OBVIOUS
<1> HIDE DEF next
<1>12. /\ r \in LookupRecord /\ r.kind = kind /\ r.step = next /\ r.stat = caller[c].stat
       /\ r.payload = caller[c].payload /\ LookupOK(r) /\ AnswerFresh(r)
  BY <1>1, <1>11, MovedIs
<1>13. caller' = [Racing(kind) EXCEPT ![c] = r]
  <2>1. Racing(kind)[c] = caller[c] BY <1>1 DEF Racing, Reading
  <2>2. Racing(kind) \in [Callers -> LookupRecord] BY <1>1, RacingIs
  <2> QED BY <2>1, <2>2, <1>1
<1> HIDE DEF r
<1>14. kind # "release" => e.stat = 0 BY <1>1, <1>9 DEF CachesInv, EntriesOK
<1>15. ~e.mixed => Stored(kind) \ {c} = {} BY <1>5, <1>10
<1>16. ~e.mixed /\ r.step # "answer" =>
         e.payload = r.payload /\ (kind = "release" /\ r.step = "storeExpiry" => e.stat = r.stat)
  BY <1>9, <1>11, <1>12
<1>17. r.step # "answer" /\ r.step \in {"storeStat", "storeExpiry", "answer"} BY <1>11, <1>12
<1> QED BY <1>1, <1>6, <1>9, <1>12, <1>13, <1>14, <1>15, <1>16, <1>17, StoreMoves

(* Writing which file an entry is of keeps the invariant. *)
LEMMA StoreStatStep ==
  ASSUME CachesInv, NEW c \in Callers, StoreStat(c)
  PROVE  CachesInv'
<1> DEFINE r == [caller[c] EXCEPT !.step = "storeExpiry"]
           e == [timed["release"] EXCEPT !.stat = caller[c].stat]
<1>1. /\ caller[c].step = "storeStat" /\ timed' = [timed EXCEPT !["release"].stat = caller[c].stat]
      /\ caller' = [Racing("release") EXCEPT ![c].step = "storeExpiry"]
      /\ UNCHANGED <<cacheKind, digest, version, cacheTime, lookups>>
  BY DEF StoreStat
<1>2. "release" \in Kinds /\ caller[c].kind = "release" BY <1>1, CallIs DEF Kinds, LookupOK
<1>3. timed \in [Kinds -> EntryRecord] /\ timed["release"] \in EntryRecord /\ caller[c].stat \in 0 .. MaxVersions
  BY <1>2, CachesShape, CallIs DEF CachesInv, LookupRecord
<1>4. timed' = [timed EXCEPT !["release"] = e] BY <1>1, <1>2, <1>3
<1>5. e \in EntryRecord /\ e.stat = caller[c].stat /\ e.payload = timed["release"].payload BY <1>3 DEF EntryRecord
<1>6. e.mixed <=> timed["release"].mixed BY <1>3 DEF EntryRecord
<1> HIDE DEF e
<1>7. /\ r \in LookupRecord /\ r.kind = "release" /\ r.step = "storeExpiry" /\ r.stat = caller[c].stat
      /\ r.payload = caller[c].payload /\ LookupOK(r) /\ AnswerFresh(r)
  BY <1>1, <1>2, MovedIs
<1>8. caller' = [Racing("release") EXCEPT ![c] = r]
  <2>1. Racing("release")[c] = caller[c] BY <1>1 DEF Racing, Reading
  <2>2. Racing("release") \in [Callers -> LookupRecord] BY <1>2, RacingIs
  <2> QED BY <2>1, <2>2, <1>1
<1> HIDE DEF r
<1>9. c \in Stored("release") BY <1>1, <1>2 DEF Stored
<1>10. ~e.mixed => Stored("release") \ {c} = {} /\ timed["release"].payload = caller[c].payload
  BY <1>2, <1>6, <1>9 DEF CachesInv, EntriesOK
<1> DEFINE k == "release"
<1>11. k \in Kinds /\ caller[c].kind = k /\ r.kind = k BY <1>2, <1>7
<1>12. k # "release" => e.stat = 0 OBVIOUS
<1>13. ~e.mixed => Stored(k) \ {c} = {} BY <1>10
<1>14. ~e.mixed /\ r.step # "answer" =>
         e.payload = r.payload /\ (k = "release" /\ r.step = "storeExpiry" => e.stat = r.stat)
  BY <1>5, <1>7, <1>10
<1>15. r.step # "answer" /\ r.step \in {"storeStat", "storeExpiry", "answer"} BY <1>7
<1>16. caller' = [Racing(k) EXCEPT ![c] = r] /\ timed' = [timed EXCEPT ![k] = e] BY <1>4, <1>8
<1>17. UNCHANGED <<cacheKind, digest, version, cacheTime, lookups>> BY <1>1
<1>18. LookupOK(r) /\ AnswerFresh(r) /\ r \in LookupRecord /\ e \in EntryRecord BY <1>5, <1>7
<1>19. ~e.mixed /\ r.step = "answer" => Consistent(e) BY <1>15
<1> HIDE DEF k
<1> QED BY <1>11, <1>12, <1>13, <1>14, <1>15, <1>16, <1>17, <1>18, <1>19, StoreMoves, ZenonT(60)

(* Writing until when an entry holds keeps the invariant, and makes an entry *)
(* that is not mixed consistent again.                                       *)
LEMMA StoreExpiryStep ==
  ASSUME CachesInv, NEW c \in Callers, StoreExpiry(c)
  PROVE  CachesInv'
<1> DEFINE kind == caller[c].kind
           r == [caller[c] EXCEPT !.step = "answer"]
           e == [timed[kind] EXCEPT !.expires = caller[c].now + TTL]
<1>1. /\ caller[c].step = "storeExpiry" /\ timed' = [timed EXCEPT ![kind].expires = caller[c].now + TTL]
      /\ caller' = [Racing(kind) EXCEPT ![c].step = "answer"]
      /\ UNCHANGED <<cacheKind, digest, version, cacheTime, lookups>>
  BY DEF StoreExpiry, Expiry
<1>2. kind \in Kinds BY <1>1, CallIs DEF LookupOK
<1>3. /\ timed \in [Kinds -> EntryRecord] /\ timed[kind] \in EntryRecord
      /\ caller[c].now \in 0 .. MaxCacheTime
  BY <1>2, CachesShape, CallIs DEF CachesInv, LookupRecord
<1>4. caller[c].now + TTL \in 0 .. MaxCacheTime + TTL BY <1>3, CachesAssumption
<1>5. timed' = [timed EXCEPT ![kind] = e] BY <1>1, <1>2, <1>3
<1>6. /\ e \in EntryRecord /\ e.stat = timed[kind].stat /\ e.payload = timed[kind].payload
      /\ e.expires = caller[c].now + TTL
  BY <1>3, <1>4 DEF EntryRecord
<1>7. e.mixed <=> timed[kind].mixed BY <1>3 DEF EntryRecord
<1> HIDE DEF e
<1>8. /\ r \in LookupRecord /\ r.kind = kind /\ r.step = "answer" /\ LookupOK(r) /\ AnswerFresh(r)
  BY <1>1, MovedIs
<1>9. caller' = [Racing(kind) EXCEPT ![c] = r]
  <2>1. Racing(kind)[c] = caller[c] BY <1>1 DEF Racing, Reading
  <2>2. Racing(kind) \in [Callers -> LookupRecord] BY <1>2, RacingIs
  <2> QED BY <2>1, <2>2, <1>1
<1> HIDE DEF r
<1>10. c \in Stored(kind) BY <1>1 DEF Stored
<1>11. kind # "release" => e.stat = 0 BY <1>2, <1>6 DEF CachesInv, EntriesOK
<1>12. ASSUME ~e.mixed PROVE Stored(kind) \ {c} = {} /\ Consistent(e)
  <2>1. /\ Stored(kind) \ {c} = {} /\ timed[kind].payload = caller[c].payload
        /\ kind = "release" => timed[kind].stat = caller[c].stat
    BY <1>1, <1>2, <1>7, <1>10, <1>12 DEF CachesInv, EntriesOK
  <2>2. caller[c].payload.at >= caller[c].now /\ caller[c].payload.version >= caller[c].stat
        /\ caller[c].payload.at \in Nat /\ caller[c].payload.version \in Nat /\ caller[c].now \in Nat
    BY <1>1, WriterIs, CallIs
  <2>3. e.expires <= e.payload.at + TTL BY <2>1, <2>2, <1>6, CachesAssumption
  <2>4. e.stat <= e.payload.version BY <2>1, <2>2, <1>6, <1>11
  <2> QED BY <2>1, <2>3, <2>4 DEF Consistent
<1>13. ~e.mixed => Stored(kind) \ {c} = {} BY <1>12
<1>14. ~e.mixed /\ r.step = "answer" => Consistent(e) BY <1>12
<1>15. ~e.mixed /\ r.step # "answer" =>
         e.payload = r.payload /\ (kind = "release" /\ r.step = "storeExpiry" => e.stat = r.stat)
  BY <1>8
<1>16. r.step \in {"storeStat", "storeExpiry", "answer"} BY <1>8
<1>17. UNCHANGED <<cacheKind, digest, version, cacheTime, lookups>> BY <1>1
<1>18. LookupOK(r) /\ AnswerFresh(r) /\ r \in LookupRecord /\ e \in EntryRecord BY <1>6, <1>8
<1>19. kind \in Kinds /\ caller[c].kind = kind /\ r.kind = kind BY <1>2, <1>8
<1> HIDE DEF kind
<1> QED BY <1>5, <1>9, <1>11, <1>13, <1>14, <1>15, <1>16, <1>17, <1>18, <1>19, StoreMoves, ZenonT(60)

(* Writing the digest cache keeps the invariant. *)
LEMMA StoreDigestStep ==
  ASSUME CachesInv, NEW c \in Callers, StoreDigest(c)
  PROVE  CachesInv'
<1> DEFINE r == [caller[c] EXCEPT !.step = "answer"]
<1>1. /\ caller[c].step = "store" /\ caller[c].kind = "digest"
      /\ digest' = [stat |-> caller[c].stat, payload |-> caller[c].payload]
      /\ caller' = [caller EXCEPT ![c].step = "answer"]
      /\ UNCHANGED <<cacheKind, timed, version, cacheTime, lookups>>
  BY DEF StoreDigest, Move
<1>2. caller \in [Callers -> LookupRecord] /\ caller[c] \in LookupRecord BY CachesShape DEF CachesInv
<1>3. caller' = [caller EXCEPT ![c] = r] BY <1>1, <1>2
<1>4. /\ r \in LookupRecord /\ r.kind = "digest" /\ r.step = "answer" /\ LookupOK(r) /\ AnswerFresh(r)
  BY <1>1, MovedIs
<1> HIDE DEF r
<1>5. /\ caller' \in [Callers -> LookupRecord] /\ caller'[c] = r
      /\ \A d \in Callers : d # c => caller'[d] = caller[d]
  BY <1>2, <1>3, <1>4
<1>6. CachesTypeOK'
  <2>1. caller[c].stat \in 0 .. MaxVersions /\ caller[c].payload \in Payloads BY <1>2 DEF LookupRecord
  <2> QED BY <2>1, <1>1, <1>5 DEF CachesInv, CachesTypeOK, LookupRecord
<1>7. "digest" \notin Kinds BY DEF Kinds
<1>8. CallsOK'
  <2> SUFFICES ASSUME NEW d \in Callers
               PROVE  /\ LookupOK(caller[d])' /\ AnswerFresh(caller'[d])
                      /\ caller'[d].kind \in Kinds => ReadSoFar(caller'[d], timed[caller'[d].kind])
    BY <1>1 DEF CallsOK, AnswerFresh, ReadSoFar, Consistent
  <2>1. CASE d = c BY <2>1, <1>1, <1>4, <1>5, <1>7 DEF LookupOK
  <2>2. CASE d # c BY <2>2, <1>1, <1>5, CallIs DEF LookupOK
  <2> QED BY <2>1, <2>2
<1>9. \A k \in Kinds : Stored(k)' = Stored(k) BY <1>1, <1>4, <1>5, <1>7 DEF Stored
<1>10. EntriesOK'
  <2>1. \A k \in Kinds : \A d \in Stored(k) : caller'[d] = caller[d] BY <1>1, <1>5, <1>7 DEF Stored
  <2> QED BY <2>1, <1>1, <1>9 DEF CachesInv, EntriesOK, Consistent
<1>11. DigestOK' BY <1>1, WriterIs DEF DigestOK
<1> QED BY <1>6, <1>8, <1>10, <1>11 DEF CachesInv

(* Every step of the caches keeps the invariant. *)
LEMMA CachesStep == CachesInv /\ [CachesNext]_cacheVars => CachesInv'
<1> SUFFICES ASSUME CachesInv, [CachesNext]_cacheVars PROVE CachesInv' OBVIOUS
<1>1. ASSUME UNCHANGED <<cacheKind, caller, timed, digest, lookups>>, version' \in 1 .. MaxVersions,
             cacheTime' \in 0 .. MaxCacheTime, version <= version', cacheTime <= cacheTime'
      PROVE  CachesInv'
  <2>1. CachesTypeOK' BY <1>1 DEF CachesInv, CachesTypeOK
  <2>2. CallsOK'
    <3> SUFFICES ASSUME NEW d \in Callers
                 PROVE  /\ LookupOK(caller[d])' /\ AnswerFresh(caller[d])
                        /\ caller[d].kind \in Kinds => ReadSoFar(caller[d], timed[caller[d].kind])
      BY <1>1 DEF CallsOK, AnswerFresh, ReadSoFar, Consistent
    <3>1. LookupOK(caller[d]) /\ caller[d].now \in Nat /\ caller[d].stat \in Nat BY CallIs
    <3>2. cacheTime \in Nat /\ version \in Nat BY CachesShape DEF CachesInv
    <3>3. LookupOK(caller[d])' BY <3>1, <3>2, <1>1, CachesAssumption DEF LookupOK
    <3> QED BY <3>3, CallIs
  <2>3. \A k : Stored(k)' = Stored(k) BY <1>1 DEF Stored
  <2>4. EntriesOK' BY <2>3, <1>1 DEF CachesInv, EntriesOK, Consistent
  <2>5. DigestOK' BY <1>1 DEF CachesInv, DigestOK
  <2> QED BY <2>1, <2>2, <2>4, <2>5 DEF CachesInv
<1>2. cacheTime \in 0 .. MaxCacheTime /\ version \in 1 .. MaxVersions BY CachesShape DEF CachesInv
<1>3. CASE NewVersion
  <2>1. version' \in 1 .. MaxVersions /\ version <= version' BY <1>2, <1>3, CachesAssumption DEF NewVersion
  <2> QED BY <2>1, <1>1, <1>2, <1>3 DEF NewVersion
<1>4. CASE CacheTick
  <2>1. cacheTime' \in 0 .. MaxCacheTime /\ cacheTime <= cacheTime'
    BY <1>2, <1>4, CachesAssumption DEF CacheTick
  <2> QED BY <2>1, <1>1, <1>2, <1>4 DEF CacheTick
<1>5. CASE UNCHANGED cacheVars BY <1>1, <1>2, <1>5 DEF cacheVars
<1> QED
  BY <1>3, <1>4, <1>5, BeginLookupStep, ReadPayloadStep, ReadStatStep, ReadExpiryStep, ComputeStep,
     StoreStep, StoreStatStep, StoreExpiryStep, ReadDigestStep, StoreDigestStep, EndLookupStep
  DEF CachesNext

(* A lookup that met no half-written entry answers nothing older than the    *)
(* time to live and, of the release, nothing older than the file it looked   *)
(* at; the digest of a file is never older than the file it looked at, for   *)
(* any number of callers: the caches of backend/app.py.                      *)
THEOREM CachesStayFresh == CachesSpec => []CachesFresh
<1>1. CachesInv => CachesFresh BY DEF CachesInv, CallsOK, AnswerFresh, CachesFresh
<1> QED BY <1>1, CachesInitOK, CachesStep, PTL DEF CachesSpec

-----------------------------------------------------------------------------
(* What the risk engine of a process is: its list, and the save it is in. *)
EngineRecord == [up : BOOLEAN, events : SUBSET RiskEvents,
                 stage : {"idle", "redis", "truncate", "write"}, actor : RiskActors, review : BOOLEAN]

(* A list that holds what was recorded within the week, and nothing that was not recorded. *)
Agrees(events) == events \subseteq recorded /\ Recent(recorded) \subseteq events

(* What a single process that saves everything keeps of the interceptions. *)
SavedOK(s) ==
  /\ Agrees(engine[s].events) \/ ~engine[s].up
  /\ engine[s].stage = "idle" => riskFile.whole /\ Agrees(riskFile.events)
  /\ engine[s].stage = "write" => ~riskFile.whole
  /\ engine[s].stage # "redis" /\ riskRedis.used => Agrees(riskRedis.events)
  /\ ~engine[s].up => engine[s].stage = "idle"

(* Types, and only processes that serve run an engine. *)
EnginesOK ==
  /\ RiskTypeOK /\ IsFiniteSet(recorded)
  /\ \A s \in Servers : engine[s].up \/ engine[s].stage # "idle" => s \in serving
  /\ riskRedis.up => riskRedis.used
  /\ MaxRiskFaults[Cardinality(serving)] \in Nat

(* Inductive: with one process serving and no save excused, its list, and    *)
(* the copies it would load the list from, agree with what was recorded.     *)
RiskInv ==
  /\ EnginesOK
  /\ ~excused => \A s \in Servers : serving = {s} => SavedOK(s)

(* A list that agrees counts for each actor what the recorded interceptions  *)
(* count.                                                                    *)
LEMMA AgreesMeans ==
  ASSUME EnginesOK, NEW events, Agrees(events), NEW a
  PROVE  Attempts(events, a) = Attempts(recorded, a)
<1>1. \A e \in recorded : e.at \in Nat BY DEF EnginesOK, RiskTypeOK, RiskEvents
<1>2. \A e \in recorded : e.at + Hour >= riskTime => e.at + Week >= riskTime
  BY <1>1, WindowsAssumption DEF EnginesOK, RiskTypeOK
<1> QED BY <1>2 DEF Agrees, Attempts, Recent

(* The invariant gives the property. *)
LEMMA RiskSays == RiskInv => ReviewsExact
<1> SUFFICES ASSUME RiskInv, Cardinality(serving) = 1, ~excused, NEW s \in Servers, engine[s].up
             PROVE  ReviewUsers(s) = {a \in RiskActors : OverThreshold(recorded, a)}
  BY DEF ReviewsExact
<1>1. IsFiniteSet(serving)
  BY DeploymentAssumption, FS_Subset DEF RiskInv, EnginesOK, RiskTypeOK
<1>2. PICK x : serving = {x} BY <1>1, FS_Singleton
<1>3. serving = {s} BY <1>2 DEF RiskInv, EnginesOK
<1>4. Agrees(engine[s].events) BY <1>3 DEF RiskInv, SavedOK
<1>5. \A a : Attempts(engine[s].events, a) = Attempts(recorded, a)
  BY <1>4, AgreesMeans DEF RiskInv
<1> QED BY <1>5 DEF ReviewUsers, OverThreshold

(* A finite set has a subset of every size up to its own. *)
LEMMA SubsetOfSize ==
  ASSUME NEW S, IsFiniteSet(S), NEW n \in 1 .. Cardinality(S)
  PROVE  \E w \in SUBSET S : Cardinality(w) = n
<1>1. Cardinality(S) \in Nat BY FS_CardinalityType
<1>2. PICK f \in Bijection(1 .. Cardinality(S), S) : TRUE BY FS_CardinalityType DEF ExistsBijection
<1> DEFINE w == {f[i] : i \in 1 .. n}
           g == [i \in 1 .. n |-> f[i]]
<1>3. 1 .. n \subseteq 1 .. Cardinality(S) BY <1>1
<1>4. f \in [1 .. Cardinality(S) -> S] /\ IsInjective(f) BY <1>2 DEF Bijection, Injection
<1>5. g \in Bijection(1 .. n, w)
  <2>1. g \in Injection(1 .. n, w) BY <1>3, <1>4 DEF Injection, IsInjective
  <2>2. g \in Surjection(1 .. n, w) BY <2>1 DEF Injection, Surjection
  <2> QED BY <2>1, <2>2 DEF Bijection
<1>6. ExistsBijection(1 .. n, w) BY <1>5 DEF ExistsBijection
<1>7. Cardinality(w) = n BY <1>1, <1>6, FS_CountingElements
<1>8. w \in SUBSET S BY <1>3, <1>4
<1> QED BY <1>7, <1>8

(* It holds at the start, with any number of processes, and with or without  *)
(* Redis.                                                                    *)
LEMMA RiskStarts == RiskInit => RiskInv
<1> SUFFICES ASSUME RiskInit PROVE RiskInv OBVIOUS
<1>1. Cardinality(Servers) \in Nat BY DeploymentAssumption, FS_CardinalityType
<1>2. PICK n \in 1 .. Cardinality(Servers) : serving = CHOOSE w \in SUBSET Servers : Cardinality(w) = n
  BY DEF RiskInit
<1>3. \E w \in SUBSET Servers : Cardinality(w) = n BY DeploymentAssumption, SubsetOfSize
<1>4. serving \in SUBSET Servers /\ Cardinality(serving) = n BY <1>2, <1>3
<1>5. (CHOOSE a \in RiskActors : TRUE) \in RiskActors BY RiskAssumption
<1>6. MaxRiskFaults[Cardinality(serving)] \in Nat BY <1>1, <1>4, RiskAssumption
<1>7. PICK redis \in BOOLEAN : riskRedis = [up |-> redis, used |-> redis, events |-> {}]
  BY DEF RiskInit
<1>8. riskRedis \in [up : BOOLEAN, used : BOOLEAN, events : SUBSET RiskEvents]
      /\ (riskRedis.up => riskRedis.used)
  BY <1>7
<1>9. engine \in [Servers -> EngineRecord]
  <2>1. [s \in Servers |-> [up |-> s \in serving, events |-> {}, stage |-> "idle",
              actor |-> CHOOSE a \in RiskActors : TRUE, review |-> FALSE]] \in [Servers -> EngineRecord]
    BY <1>5 DEF EngineRecord
  <2> QED BY <2>1 DEF RiskInit
<1>10. RiskTypeOK
  <2>1. riskFile \in [whole : BOOLEAN, events : SUBSET RiskEvents] BY DEF RiskInit
  <2>2. recorded \subseteq RiskEvents /\ excused \in BOOLEAN BY Zenon DEF RiskInit
  <2>3. riskTime \in 0 .. MaxRiskTime BY RiskAssumption DEF RiskInit
  <2>4. riskFaults \in 0 .. MaxRiskFaults[Cardinality(serving)] BY <1>6 DEF RiskInit
  <2> QED BY <1>4, <1>8, <1>9, <2>1, <2>2, <2>3, <2>4 DEF RiskTypeOK, EngineRecord
<1>11. IsFiniteSet(recorded) BY FS_EmptySet DEF RiskInit
<1>12. \A s \in Servers : engine[s].up \/ engine[s].stage # "idle" => s \in serving BY DEF RiskInit
<1>13. EnginesOK BY <1>6, <1>8, <1>10, <1>11, <1>12 DEF EnginesOK
<1>14. \A s \in Servers : SavedOK(s) BY DEF RiskInit, SavedOK, Agrees, Recent
<1> QED BY <1>13, <1>14 DEF RiskInv

(* The types of the engines, of Redis, of the file and of the clock, one by  *)
(* one.                                                                      *)
LEMMA EnginesParts ==
  EnginesOK <=>
    /\ serving \in SUBSET Servers /\ engine \in [Servers -> EngineRecord]
    /\ riskRedis \in [up : BOOLEAN, used : BOOLEAN, events : SUBSET RiskEvents]
    /\ riskFile \in [whole : BOOLEAN, events : SUBSET RiskEvents]
    /\ riskTime \in 0 .. MaxRiskTime /\ recorded \in SUBSET RiskEvents /\ IsFiniteSet(recorded)
    /\ riskFaults \in 0 .. MaxRiskFaults[Cardinality(serving)] /\ excused \in BOOLEAN
    /\ \A s \in Servers : engine[s].up \/ engine[s].stage # "idle" => s \in serving
    /\ riskRedis.up => riskRedis.used
    /\ MaxRiskFaults[Cardinality(serving)] \in Nat
BY DEF EnginesOK, RiskTypeOK, EngineRecord

(* What a start loads is a list of interceptions. *)
LEMMA LoadedTypes ==
  ASSUME EnginesOK
  PROVE  Loaded \in SUBSET RiskEvents
BY EnginesParts DEF Loaded

(* Every step keeps the types. *)
LEMMA EnginesStep == EnginesOK /\ [RiskNext]_riskVars => EnginesOK'
<1> SUFFICES ASSUME EnginesOK, [RiskNext]_riskVars PROVE EnginesOK' OBVIOUS
<1>1. /\ serving \in SUBSET Servers /\ engine \in [Servers -> EngineRecord]
      /\ riskRedis \in [up : BOOLEAN, used : BOOLEAN, events : SUBSET RiskEvents]
      /\ riskFile \in [whole : BOOLEAN, events : SUBSET RiskEvents]
      /\ riskTime \in 0 .. MaxRiskTime /\ recorded \in SUBSET RiskEvents /\ IsFiniteSet(recorded)
      /\ riskFaults \in 0 .. MaxRiskFaults[Cardinality(serving)] /\ excused \in BOOLEAN
      /\ \A s \in Servers : engine[s].up \/ engine[s].stage # "idle" => s \in serving
      /\ riskRedis.up => riskRedis.used
      /\ MaxRiskFaults[Cardinality(serving)] \in Nat
  BY EnginesParts
<1>2. ASSUME serving' \in SUBSET Servers, engine' \in [Servers -> EngineRecord],
              riskRedis' \in [up : BOOLEAN, used : BOOLEAN, events : SUBSET RiskEvents],
              riskFile' \in [whole : BOOLEAN, events : SUBSET RiskEvents],
              riskTime' \in 0 .. MaxRiskTime, recorded' \in SUBSET RiskEvents, IsFiniteSet(recorded'),
              riskFaults' \in 0 .. MaxRiskFaults[Cardinality(serving')], excused' \in BOOLEAN,
              \A s \in Servers : engine'[s].up \/ engine'[s].stage # "idle" => s \in serving',
              riskRedis'.up => riskRedis'.used, serving' = serving
       PROVE  EnginesOK'
  BY <1>2, <1>1 DEF EnginesOK, RiskTypeOK, EngineRecord
<1>3. Cardinality(recorded) \in Nat BY <1>1, FS_CardinalityType
<1>4. ASSUME NEW s \in Servers, serving' = serving, engine'[s] \in EngineRecord,
             engine' = [engine EXCEPT ![s] = engine'[s]],
             engine'[s].up \/ engine'[s].stage # "idle" => s \in serving
      PROVE  /\ serving' \in SUBSET Servers /\ engine' \in [Servers -> EngineRecord]
             /\ \A r \in Servers : engine'[r].up \/ engine'[r].stage # "idle" => r \in serving'
  <2>1. engine' \in [Servers -> EngineRecord] BY <1>1, <1>4
  <2>2. \A r \in Servers \ {s} : engine'[r] = engine[r] BY <1>1, <1>4
  <2> QED BY <1>1, <1>4, <2>1, <2>2
<1>5. CASE UNCHANGED riskVars BY <1>1, <1>5, <1>2 DEF riskVars
<1>6. ASSUME NEW s \in Servers, NEW a \in RiskActors, NEW pii \in BOOLEAN, Intercept(s, a, pii)
      PROVE  EnginesOK'
  <2> DEFINE e == [nr |-> Cardinality(recorded) + 1, actor |-> a, at |-> riskTime, pii |-> pii]
             b == [engine[s] EXCEPT !.events = WithNew(@, e), !.stage = "redis", !.actor = a]
  <2>1. e \in RiskEvents BY <1>1, <1>3 DEF RiskEvents
  <2>2. recorded' = recorded \cup {e} BY <1>6 DEF Intercept
  <2>3. engine' = [engine EXCEPT ![s].events = WithNew(@, e), ![s].stage = "redis", ![s].actor = a]
        /\ engine[s].up /\ UNCHANGED <<serving, riskRedis, riskFile, riskTime, riskFaults, excused>>
    BY <1>6, Zenon DEF Intercept
  <2> HIDE DEF e
  <2>4. engine' = [engine EXCEPT ![s] = b] BY <2>3, Zenon
  <2>5. WithNew(engine[s].events, e) \in SUBSET RiskEvents BY <1>1, <2>1 DEF WithNew, Recent, EngineRecord
  <2>6. b \in EngineRecord BY <1>1, <2>5 DEF EngineRecord
  <2> HIDE DEF b
  <2>7. engine'[s] = b BY <1>1, <2>4
  <2>8. IsFiniteSet(recorded') BY <1>1, <2>2, FS_AddElement
  <2>9. s \in serving BY <1>1, <2>3
  <2>10. /\ serving' \in SUBSET Servers /\ engine' \in [Servers -> EngineRecord]
         /\ \A r \in Servers : engine'[r].up \/ engine'[r].stage # "idle" => r \in serving'
    BY <1>4, <2>3, <2>4, <2>6, <2>7, <2>9
  <2> QED BY <1>1, <2>1, <2>2, <2>3, <2>8, <2>10, <1>2
<1>7. ASSUME NEW s \in Servers, SaveToRedis(s) PROVE EnginesOK'
  <2> DEFINE b == [engine[s] EXCEPT !.stage = "truncate"]
  <2>1. engine' = [engine EXCEPT ![s] = b] /\ serving' = serving /\ s \in serving
    BY <1>1, <1>7 DEF SaveToRedis
  <2>2. b \in EngineRecord BY <1>1 DEF EngineRecord
  <2> HIDE DEF b
  <2>3. engine'[s] = b BY <1>1, <2>1
  <2>4. /\ serving' \in SUBSET Servers /\ engine' \in [Servers -> EngineRecord]
        /\ \A r \in Servers : engine'[r].up \/ engine'[r].stage # "idle" => r \in serving'
    BY <1>4, <2>1, <2>2, <2>3
  <2>5. engine[s].events \in SUBSET RiskEvents BY <1>1 DEF EngineRecord
  <2>6. riskRedis' = riskRedis \/ riskRedis' = [riskRedis EXCEPT !.events = engine[s].events]
    BY <1>7 DEF SaveToRedis
  <2>7. riskRedis' \in [up : BOOLEAN, used : BOOLEAN, events : SUBSET RiskEvents]
        /\ (riskRedis'.up => riskRedis'.used)
    BY <1>1, <2>5, <2>6
  <2>8. excused' \in BOOLEAN BY <1>7 DEF SaveToRedis
  <2> QED BY <1>1, <1>7, <2>1, <2>4, <2>7, <2>8, <1>2 DEF SaveToRedis
<1>8. ASSUME NEW s \in Servers, TruncateFile(s) PROVE EnginesOK'
  <2> DEFINE b == [engine[s] EXCEPT !.stage = "write"]
  <2>1. engine' = [engine EXCEPT ![s] = b] /\ serving' = serving /\ s \in serving
    BY <1>1, <1>8 DEF TruncateFile
  <2>2. b \in EngineRecord BY <1>1 DEF EngineRecord
  <2> HIDE DEF b
  <2>3. engine'[s] = b BY <1>1, <2>1
  <2>4. /\ serving' \in SUBSET Servers /\ engine' \in [Servers -> EngineRecord]
        /\ \A r \in Servers : engine'[r].up \/ engine'[r].stage # "idle" => r \in serving'
    BY <1>4, <2>1, <2>2, <2>3
  <2>5. riskFile' \in [whole : BOOLEAN, events : SUBSET RiskEvents] BY <1>8 DEF TruncateFile
  <2> QED BY <1>1, <1>8, <2>4, <2>5, <1>2 DEF TruncateFile
<1>9. ASSUME NEW s \in Servers, WriteFile(s) PROVE EnginesOK'
  <2> DEFINE b == [engine[s] EXCEPT !.stage = "idle",
                                    !.review = OverThreshold(engine[s].events, engine[s].actor)]
  <2>1. engine' = [engine EXCEPT ![s] = b] /\ serving' = serving /\ s \in serving
    BY <1>1, <1>9 DEF WriteFile
  <2>2. OverThreshold(engine[s].events, engine[s].actor) \in BOOLEAN BY DEF OverThreshold
  <2>3. b \in EngineRecord BY <1>1, <2>2 DEF EngineRecord
  <2> HIDE DEF b
  <2>4. engine'[s] = b BY <1>1, <2>1
  <2>5. /\ serving' \in SUBSET Servers /\ engine' \in [Servers -> EngineRecord]
        /\ \A r \in Servers : engine'[r].up \/ engine'[r].stage # "idle" => r \in serving'
    BY <1>4, <2>1, <2>3, <2>4
  <2>6. riskFile' \in [whole : BOOLEAN, events : SUBSET RiskEvents]
    <3>1. engine[s].events \in SUBSET RiskEvents BY <1>1 DEF EngineRecord
    <3>2. PICK whole \in BOOLEAN, events \in SUBSET RiskEvents : riskFile' = [whole |-> whole, events |-> events]
      BY <1>9, <3>1 DEF WriteFile
    <3> QED BY <3>1, <3>2
  <2> QED BY <1>1, <1>9, <2>5, <2>6, <1>2 DEF WriteFile
<1>10. ASSUME NEW s \in Servers, KillEngine(s) PROVE EnginesOK'
  <2> DEFINE b == [engine[s] EXCEPT !.up = FALSE, !.stage = "idle"]
  <2>1. engine' = [engine EXCEPT ![s] = b] /\ serving' = serving /\ s \in serving
    BY <1>1, <1>10 DEF KillEngine
  <2>2. b \in EngineRecord BY <1>1 DEF EngineRecord
  <2> HIDE DEF b
  <2>3. engine'[s] = b BY <1>1, <2>1
  <2>4. /\ serving' \in SUBSET Servers /\ engine' \in [Servers -> EngineRecord]
        /\ \A r \in Servers : engine'[r].up \/ engine'[r].stage # "idle" => r \in serving'
    BY <1>4, <2>1, <2>2, <2>3
  <2>5. riskFaults' \in 0 .. MaxRiskFaults[Cardinality(serving)] /\ excused' \in BOOLEAN
    <3>1. riskFaults < MaxRiskFaults[Cardinality(serving)] /\ riskFaults' = riskFaults + 1
      BY <1>10 DEF KillEngine
    <3>2. excused' \in BOOLEAN BY <1>10, Zenon DEF KillEngine
    <3> QED BY <1>1, <3>1, <3>2
  <2> QED BY <1>1, <1>10, <2>1, <2>4, <2>5, <1>2 DEF KillEngine
<1>11. ASSUME NEW s \in Servers, StartEngine(s) PROVE EnginesOK'
  <2> DEFINE b == [engine[s] EXCEPT !.up = TRUE, !.events = Loaded, !.review = FALSE]
  <2>1. engine' = [engine EXCEPT ![s] = b] /\ serving' = serving /\ s \in serving
    BY <1>1, <1>11 DEF StartEngine
  <2>2. b \in EngineRecord BY <1>1, LoadedTypes DEF EngineRecord
  <2> HIDE DEF b
  <2>3. engine'[s] = b BY <1>1, <2>1
  <2>4. /\ serving' \in SUBSET Servers /\ engine' \in [Servers -> EngineRecord]
        /\ \A r \in Servers : engine'[r].up \/ engine'[r].stage # "idle" => r \in serving'
    BY <1>4, <2>1, <2>2, <2>3
  <2> QED BY <1>1, <1>11, <2>4, <1>2 DEF StartEngine
<1>12. CASE RedisOutage
  <2>1. riskFaults' \in 0 .. MaxRiskFaults[Cardinality(serving)]
    <3>1. \/ riskFaults' = riskFaults
          \/ riskFaults < MaxRiskFaults[Cardinality(serving)] /\ riskFaults' = riskFaults + 1
      BY <1>12, Zenon DEF RedisOutage
    <3> QED BY <1>1, <3>1
  <2>2. riskRedis' \in [up : BOOLEAN, used : BOOLEAN, events : SUBSET RiskEvents]
        /\ (riskRedis'.up => riskRedis'.used)
    BY <1>1, <1>12 DEF RedisOutage
  <2> QED BY <1>1, <1>12, <2>1, <2>2, <1>2 DEF RedisOutage
<1>13. CASE RiskTick
  <2>1. riskTime' \in 0 .. MaxRiskTime BY <1>1, <1>13, RiskAssumption DEF RiskTick
  <2> QED BY <1>1, <1>13, <2>1, <1>2 DEF RiskTick
<1> QED
  BY <1>5, <1>6, <1>7, <1>8, <1>9, <1>10, <1>11, <1>12, <1>13 DEF RiskNext

(* Time that passes, and records nothing, leaves a list that agrees in       *)
(* agreement: what it dropped stays out of the week.                         *)
LEMMA StaysAgreed ==
  ASSUME EnginesOK, NEW events, Agrees(events), recorded' = recorded, riskTime' \in Nat,
         riskTime' >= riskTime
  PROVE  Agrees(events)'
<1>1. \A e \in recorded : e.at \in Nat BY DEF EnginesOK, RiskTypeOK, RiskEvents
<1>2. \A e \in recorded : e.at + Week >= riskTime' => e.at + Week >= riskTime
  BY <1>1, WindowsAssumption DEF EnginesOK, RiskTypeOK
<1> QED BY <1>2 DEF Agrees, Recent

(* Where one process serves, the others run no engine. *)
LEMMA AloneServes ==
  ASSUME EnginesOK, NEW s \in Servers, serving = {s}, NEW r \in Servers, r # s
  PROVE  ~engine[r].up /\ engine[r].stage = "idle"
BY DEF EnginesOK

(* Every step keeps the list and its copies in agreement. *)
LEMMA SavedStep ==
  ASSUME RiskInv, [RiskNext]_riskVars, ~excused', NEW s \in Servers, serving' = {s}
  PROVE  SavedOK(s)'
<1>1. /\ EnginesOK /\ engine \in [Servers -> EngineRecord] /\ riskTime \in Nat
      /\ riskRedis \in [up : BOOLEAN, used : BOOLEAN, events : SUBSET RiskEvents]
      /\ riskFile \in [whole : BOOLEAN, events : SUBSET RiskEvents]
      /\ riskRedis.up => riskRedis.used
  BY EnginesParts DEF RiskInv
<1>2. serving' = serving /\ (excused => excused')
  <2>1. serving' = serving
    BY DEF RiskNext, riskVars, Intercept, SaveToRedis, TruncateFile, WriteFile, KillEngine, StartEngine,
       RedisOutage, RiskTick
  <2>2. excused' = excused \/ \E s1 \in Servers : SaveToRedis(s1) \/ KillEngine(s1)
    BY DEF RiskNext, riskVars, Intercept, TruncateFile, WriteFile, StartEngine, RedisOutage, RiskTick
  <2>3. excused => excused' BY <2>2, Zenon DEF SaveToRedis, KillEngine
  <2> QED BY <2>1, <2>3
<1>3. SavedOK(s) BY <1>2 DEF RiskInv
<1>4. \A r \in Servers \ {s} : ~engine[r].up /\ engine[r].stage = "idle" /\ r \notin serving
  BY <1>1, <1>2, AloneServes
<1>5. CASE UNCHANGED riskVars
  BY <1>3, <1>5 DEF riskVars, SavedOK, Agrees, Recent
<1>6. ASSUME NEW a \in RiskActors, NEW pii \in BOOLEAN, Intercept(s, a, pii)
      PROVE  SavedOK(s)'
  <2> DEFINE e == [nr |-> Cardinality(recorded) + 1, actor |-> a, at |-> riskTime, pii |-> pii]
  <2>1. recorded' = recorded \cup {e} /\ engine[s].up /\ riskTime' = riskTime
    BY <1>6 DEF Intercept
  <2>2. engine' = [engine EXCEPT ![s].events = WithNew(@, e), ![s].stage = "redis", ![s].actor = a]
    BY <1>6, Zenon DEF Intercept
  <2> HIDE DEF e
  <2>3. engine'[s].events = WithNew(engine[s].events, e) /\ engine'[s].stage = "redis"
        /\ engine'[s].up = engine[s].up
    BY <1>1, <2>2 DEF EngineRecord
  <2>4. Agrees(engine[s].events) BY <1>3, <2>1 DEF SavedOK
  <2>5. engine'[s].events \subseteq recorded' /\ Recent(recorded)' \subseteq engine'[s].events
    BY <2>1, <2>3, <2>4 DEF Agrees, WithNew, Recent
  <2> QED BY <2>1, <2>3, <2>5 DEF SavedOK, Agrees
<1>7. CASE SaveToRedis(s)
  <2>1. engine'[s].events = engine[s].events /\ engine'[s].stage = "truncate"
        /\ engine'[s].up = engine[s].up /\ engine[s].stage = "redis"
    BY <1>1, <1>7 DEF SaveToRedis, EngineRecord
  <2>2. UNCHANGED <<recorded, riskTime>> /\ riskRedis'.used = riskRedis.used
    BY <1>1, <1>7 DEF SaveToRedis
  <2>3. riskRedis.used => riskRedis'.events = engine[s].events
    BY <1>1, <1>7 DEF SaveToRedis
  <2>4. engine[s].up /\ Agrees(engine[s].events) BY <1>3, <2>1 DEF SavedOK
  <2>5. Agrees(engine[s].events)' BY <1>1, <2>1, <2>2, <2>4 DEF Agrees, Recent
  <2> QED BY <2>1, <2>2, <2>3, <2>4, <2>5 DEF SavedOK, Agrees, Recent
<1>8. CASE TruncateFile(s)
  <2>1. engine'[s].events = engine[s].events /\ engine'[s].stage = "write"
        /\ engine'[s].up = engine[s].up /\ engine[s].stage = "truncate"
    BY <1>1, <1>8 DEF TruncateFile, EngineRecord
  <2>2. UNCHANGED <<recorded, riskTime, riskRedis>> /\ ~riskFile'.whole BY <1>8 DEF TruncateFile
  <2> QED BY <1>3, <2>1, <2>2 DEF SavedOK, Agrees, Recent
<1>9. CASE WriteFile(s)
  <2>1. engine'[s].events = engine[s].events /\ engine'[s].stage = "idle"
        /\ engine'[s].up = engine[s].up /\ engine[s].stage = "write"
    BY <1>1, <1>9 DEF WriteFile, EngineRecord
  <2>2. UNCHANGED <<recorded, riskTime, riskRedis>> BY <1>9 DEF WriteFile
  <2>3. riskFile' = [whole |-> TRUE, events |-> engine[s].events]
    BY <1>3, <1>9, <2>1 DEF WriteFile, SavedOK
  <2>4. engine[s].up BY <1>3, <2>1 DEF SavedOK
  <2> QED BY <1>3, <2>1, <2>2, <2>3, <2>4 DEF SavedOK, Agrees, Recent
<1>10. CASE KillEngine(s)
  <2>1. engine[s].stage = "idle" BY <1>10 DEF KillEngine
  <2>2. engine'[s].stage = "idle" /\ ~engine'[s].up BY <1>1, <1>10 DEF KillEngine, EngineRecord
  <2>3. UNCHANGED <<recorded, riskTime, riskRedis, riskFile>> BY <1>10 DEF KillEngine
  <2> QED BY <1>3, <2>1, <2>2, <2>3 DEF SavedOK, Agrees, Recent
<1>11. CASE StartEngine(s)
  <2>1. ~engine[s].up /\ UNCHANGED <<recorded, riskTime, riskRedis, riskFile>>
    BY <1>11 DEF StartEngine
  <2>2. engine[s].stage = "idle" BY <1>3, <2>1 DEF SavedOK
  <2>3. engine'[s].stage = "idle" /\ engine'[s].up /\ engine'[s].events = Loaded
    BY <1>1, <1>11, <2>2 DEF StartEngine, EngineRecord
  <2>4. Agrees(Loaded) BY <1>1, <1>3, <2>2 DEF SavedOK, Loaded
  <2> QED BY <1>3, <2>1, <2>2, <2>3, <2>4 DEF SavedOK, Agrees, Recent
<1>12. CASE RedisOutage
  <2>1. UNCHANGED <<recorded, riskTime, engine, riskFile>> BY <1>12 DEF RedisOutage
  <2>2. riskRedis'.used = riskRedis.used /\ riskRedis'.events = riskRedis.events
    BY <1>1, <1>12 DEF RedisOutage
  <2> QED BY <1>3, <2>1, <2>2 DEF SavedOK, Agrees, Recent
<1>13. CASE RiskTick
  <2>1. UNCHANGED <<recorded, engine, riskFile, riskRedis>> /\ riskTime' \in Nat /\ riskTime' >= riskTime
    BY <1>1, <1>13 DEF RiskTick
  <2>2. \A events : Agrees(events) => Agrees(events)' BY <1>1, <2>1, StaysAgreed
  <2> QED BY <1>3, <2>1, <2>2 DEF SavedOK
<1>14. ASSUME NEW r \in Servers, r # s
       PROVE  /\ \A a, pii : ~Intercept(r, a, pii)
              /\ ~SaveToRedis(r) /\ ~TruncateFile(r) /\ ~WriteFile(r) /\ ~KillEngine(r) /\ ~StartEngine(r)
  BY <1>4, <1>14 DEF Intercept, SaveToRedis, TruncateFile, WriteFile, KillEngine, StartEngine
<1> QED
  BY <1>5, <1>6, <1>7, <1>8, <1>9, <1>10, <1>11, <1>12, <1>13, <1>14 DEF RiskNext

(* Every step keeps the invariant. *)
LEMMA RiskStep == RiskInv /\ [RiskNext]_riskVars => RiskInv'
BY EnginesStep, SavedStep DEF RiskInv

(* The invariant holds of every behaviour. *)
LEMMA RiskInvariant == RiskSpec => []RiskInv
BY RiskStarts, RiskStep, PTL DEF RiskSpec

(* The engines keep their types. *)
LEMMA RiskTypes == RiskSpec => []RiskTypeOK
<1>1. RiskInv => RiskTypeOK BY DEF RiskInv, EnginesOK
<1> QED BY <1>1, RiskInvariant, PTL

(* With one process that loses no save, exactly the users over the threshold *)
(* of the week are put up for review (risk_engine.py), through restarts and  *)
(* outages of Redis.                                                         *)
THEOREM ReviewsAreExact == RiskSpec => []ReviewsExact
BY RiskSays, RiskInvariant, PTL
=============================================================================
