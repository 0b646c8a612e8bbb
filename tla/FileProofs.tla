----------------------------- MODULE FileProofs -----------------------------
(***************************************************************************)
(* Theorems about the services that keep what they know in files they      *)
(* rewrite whole and without a lock: the registry of outbound hooks and    *)
(* the queue of their deliveries (Webhooks), and the vault monitor's       *)
(* archive and the state its mails are throttled by (VaultMonitor), for    *)
(* any number of processes, threads, hooks, events, documents and kills.   *)
(***************************************************************************)
EXTENDS Webhooks, VaultMonitor, FiniteSetTheorems, WellFoundedInduction, SequenceTheorems, TLAPS

-----------------------------------------------------------------------------
(* What the filter of a list keeps. *)

(* A set of numbers that is not empty has a least one. *)
LEMMA LeastOf ==
  ASSUME NEW T, T \subseteq Nat, T # {}
  PROVE  \E x \in T : \A y \in T : ~(y < x)
  <1> DEFINE R == OpToRel(<, Nat)
  <1>1. \E x \in T : \A y \in T : <<y, x>> \notin R
    <2> HIDE DEF R
    <2>1. IsWellFoundedOn(R, Nat)
      BY NatLessThanWellFounded DEF R
    <2> QED
      BY <2>1, WFMin
  <1>2. \A x, y \in Nat : x < y => <<x, y>> \in R
    BY DEF OpToRel
  <1> QED
    BY <1>1, <1>2

(* A list short holds what the first n of a list have in common with a set:  *)
(* each of its entries comes from one of them, two entries from two places,  *)
(* and none that is in the set is missing.                                   *)
Origins(short, list, set, n) ==
  /\ \A i \in DOMAIN short : \E p \in 1 .. n : short[i] = list[p] /\ list[p] \in set
  /\ \A p \in 1 .. n : list[p] \in set => \E i \in DOMAIN short : short[i] = list[p]
  /\ \A i, k \in DOMAIN short : i # k =>
       \E p, q \in 1 .. n : p # q /\ short[i] = list[p] /\ short[k] = list[q]

(* So it stays if one more of the list is looked at. *)
LEMMA OriginsGrow ==
  ASSUME NEW X, NEW list \in Seq(X), NEW set, NEW short \in Seq(X), NEW n \in Nat,
         n + 1 <= Len(list), Origins(short, list, set, n)
  PROVE  LET next == IF list[n + 1] \in set THEN Append(short, list[n + 1]) ELSE short IN
         next \in Seq(X) /\ Origins(next, list, set, n + 1)
  <1> DEFINE e == list[n + 1]
  <1>1. e \in X /\ n + 1 \in 1 .. n + 1 /\ \A p \in 1 .. n : p \in 1 .. n + 1 /\ p # n + 1
    OBVIOUS
  <1>2. CASE e \notin set
    <2>1. \A p \in 1 .. n + 1 : p \in 1 .. n \/ p = n + 1
      OBVIOUS
    <2> QED
      BY <1>1, <1>2, <2>1 DEF Origins
  <1>3. CASE e \in set
    <2> DEFINE s == Append(short, e)
    <2>1. /\ s \in Seq(X) /\ Len(s) = Len(short) + 1 /\ Len(short) \in Nat
          /\ \A i \in 1 .. Len(short) : s[i] = short[i]
          /\ s[Len(short) + 1] = e
      BY <1>1, AppendProperties
    <2>2. DOMAIN s = 1 .. Len(s) /\ DOMAIN short = 1 .. Len(short)
      BY <2>1
    <2> HIDE DEF s
    <2>3. \A i \in DOMAIN s : i \in DOMAIN short \/ i = Len(short) + 1
      BY <2>1, <2>2
    <2>4. \A i \in DOMAIN short : i \in DOMAIN s /\ s[i] = short[i]
      BY <2>1, <2>2
    <2>5. Len(short) + 1 \in DOMAIN s
      BY <2>1, <2>2
    <2>6. \A p \in 1 .. n + 1 : p \in 1 .. n \/ p = n + 1
      OBVIOUS
    <2> HIDE DEF e
    <2>7. e = list[n + 1]
      BY DEF e
    <2>8. \A i \in DOMAIN s : \E p \in 1 .. n + 1 : s[i] = list[p] /\ list[p] \in set
      <3> TAKE i \in DOMAIN s
      <3>1. CASE i \in DOMAIN short
        <4>1. PICK p \in 1 .. n : short[i] = list[p] /\ list[p] \in set
          BY <3>1 DEF Origins
        <4> QED
          BY <1>1, <2>4, <3>1, <4>1
      <3>2. CASE i = Len(short) + 1
        BY <1>1, <1>3, <2>1, <2>7, <3>2
      <3> QED
        BY <2>3, <3>1, <3>2
    <2>9. \A p \in 1 .. n + 1 : list[p] \in set => \E i \in DOMAIN s : s[i] = list[p]
      BY <2>1, <2>4, <2>5, <2>6, <2>7 DEF Origins
    <2>10. ASSUME NEW i \in DOMAIN s, NEW k \in DOMAIN s, i # k
           PROVE  \E p, q \in 1 .. n + 1 : p # q /\ s[i] = list[p] /\ s[k] = list[q]
      <3>1. CASE i \in DOMAIN short /\ k \in DOMAIN short
        <4>1. PICK p, q \in 1 .. n : p # q /\ short[i] = list[p] /\ short[k] = list[q]
          BY <2>10, <3>1 DEF Origins
        <4> QED
          BY <1>1, <2>4, <3>1, <4>1
      <3>2. CASE i \in DOMAIN short /\ k = Len(short) + 1
        <4>1. PICK p \in 1 .. n : short[i] = list[p]
          BY <3>2 DEF Origins
        <4> QED
          BY <1>1, <2>1, <2>4, <2>7, <3>2, <4>1
      <3>3. CASE k \in DOMAIN short /\ i = Len(short) + 1
        <4>1. PICK p \in 1 .. n : short[k] = list[p]
          BY <3>3 DEF Origins
        <4> QED
          BY <1>1, <2>1, <2>4, <2>7, <3>3, <4>1
      <3> QED
        BY <2>3, <2>10, <3>1, <3>2, <3>3
    <2>11. Origins(s, list, set, n + 1)
      BY <2>8, <2>9, <2>10 DEF Origins
    <2> QED
      BY <1>3, <2>1, <2>7, <2>11 DEF s
  <1> QED
    BY <1>2, <1>3

(* That is what Sifted returns, of any list. *)
LEMMA SiftedIs ==
  ASSUME NEW X, NEW list \in Seq(X), NEW set
  PROVE  Sifted(list, set) \in Seq(X) /\ Origins(Sifted(list, set), list, set, Len(list))
  <1> DEFINE Next1(short, n) == IF list[n] \in set THEN Append(short, list[n]) ELSE short
             Steps(f, k) == /\ f \in [0 .. k -> Seq(X)] /\ f[0] = << >>
                            /\ \A n \in 1 .. k : f[n] = Next1(f[n - 1], n)
             Good(s, n) == s \in Seq(X) /\ Origins(s, list, set, n)
             upTo[n \in 0 .. Len(list)] ==
               IF n = 0 THEN << >>
               ELSE IF list[n] \in set THEN Append(upTo[n - 1], list[n]) ELSE upTo[n - 1]
  <1>1. Len(list) \in Nat
    OBVIOUS
  <1>2. Good(<< >>, 0)
    BY DEF Origins
  <1>3. ASSUME NEW s, NEW n \in Nat, n + 1 <= Len(list), Good(s, n)
        PROVE  Good(Next1(s, n + 1), n + 1)
    BY <1>3, OriginsGrow
  <1> HIDE DEF Next1, Good
  <1>4. \E f : Steps(f, Len(list)) /\ \A n \in 0 .. Len(list) : Good(f[n], n)
    <2> DEFINE None == {k \in 0 .. Len(list) : ~\E f : Steps(f, k) /\ \A n \in 0 .. k : Good(f[n], n)}
    <2>1. None = {}
      <3> SUFFICES ASSUME None # {} PROVE FALSE
        OBVIOUS
      <3>1. PICK k \in None : \A y \in None : ~(y < k)
        <4>1. None \subseteq Nat
          BY <1>1
        <4> HIDE DEF None
        <4> QED
          BY <4>1, LeastOf
      <3>2. CASE k = 0
        <4> DEFINE f == [n \in 0 .. 0 |-> << >>]
        <4>1. Steps(f, 0) /\ \A n \in 0 .. 0 : Good(f[n], n)
          BY <1>2
        <4> QED
          BY <3>1, <3>2, <4>1
      <3>3. CASE k # 0
        <4>1. k \in 1 .. Len(list) /\ k - 1 \in 0 .. Len(list) /\ k - 1 < k
          BY <1>1, <3>1, <3>3
        <4>2. k - 1 \notin None
          BY <3>1, <4>1
        <4>3. PICK f : Steps(f, k - 1) /\ \A n \in 0 .. k - 1 : Good(f[n], n)
          BY <4>1, <4>2
        <4> DEFINE g == [n \in 0 .. k |-> IF n = k THEN Next1(f[k - 1], k) ELSE f[n]]
        <4>4. Good(Next1(f[k - 1], k), k)
          <5>1. k - 1 \in Nat /\ (k - 1) + 1 = k /\ k <= Len(list) /\ k - 1 \in 0 .. k - 1
            BY <4>1
          <5> QED
            BY <1>3, <4>3, <5>1
        <4>5. \A n \in 0 .. k : Good(g[n], n)
          BY <4>1, <4>3, <4>4
        <4>6. \A n \in 0 .. k : g[n] \in Seq(X)
          BY <4>5 DEF Good
        <4>7. g[0] = << >>
          BY <4>1, <4>3
        <4>8. \A n \in 1 .. k : g[n] = Next1(g[n - 1], n)
          <5> TAKE n \in 1 .. k
          <5>1. CASE n = k
            <6>1. g[k] = Next1(f[k - 1], k) /\ g[k - 1] = f[k - 1]
              BY <4>1
            <6> QED
              BY <5>1, <6>1
          <5>2. CASE n # k
            <6>1. n \in 1 .. k - 1 /\ n - 1 \in 0 .. k /\ n - 1 # k /\ n \in 0 .. k
              BY <4>1, <5>2
            <6>2. g[n] = f[n] /\ g[n - 1] = f[n - 1]
              BY <5>2, <6>1
            <6> QED
              BY <4>3, <6>1, <6>2
          <5> QED
            BY <5>1, <5>2
        <4>9. Steps(g, k)
          BY <4>6, <4>7, <4>8
        <4> HIDE DEF g
        <4> QED
          BY <3>1, <4>5, <4>9
      <3> QED
        BY <3>2, <3>3
    <2>2. Len(list) \in 0 .. Len(list)
      BY <1>1
    <2> HIDE DEF Steps
    <2> QED
      BY <2>1, <2>2
  <1>5. PICK f : Steps(f, Len(list)) /\ \A n \in 0 .. Len(list) : Good(f[n], n)
    BY <1>4
  <1>6. f = [n \in 0 .. Len(list) |->
               IF n = 0 THEN << >>
               ELSE IF list[n] \in set THEN Append(f[n - 1], list[n]) ELSE f[n - 1]]
    <2>1. \A n \in 0 .. Len(list) : n = 0 \/ n \in 1 .. Len(list)
      BY <1>1
    <2>2. \A n \in 0 .. Len(list) :
            f[n] = IF n = 0 THEN << >>
                   ELSE IF list[n] \in set THEN Append(f[n - 1], list[n]) ELSE f[n - 1]
      BY <1>5, <2>1 DEF Next1
    <2>3. f = [n \in 0 .. Len(list) |-> f[n]]
      BY <1>5
    <2> QED
      BY <2>2, <2>3
  <1>7. upTo = [n \in 0 .. Len(list) |->
                  IF n = 0 THEN << >>
                  ELSE IF list[n] \in set THEN Append(upTo[n - 1], list[n]) ELSE upTo[n - 1]]
    BY <1>6
  <1>8. Sifted(list, set) = upTo[Len(list)]
    BY DEF Sifted
  <1> HIDE DEF upTo
  <1>9. upTo[0] = << >> /\ \A n \in 1 .. Len(list) : upTo[n] = Next1(upTo[n - 1], n)
    <2>1. 0 \in 0 .. Len(list) /\ \A n \in 1 .. Len(list) : n \in 0 .. Len(list) /\ n # 0
      BY <1>1
    <2> DEFINE h == upTo
    <2>2. \A n \in 0 .. Len(list) :
            h[n] = IF n = 0 THEN << >>
                   ELSE IF list[n] \in set THEN Append(h[n - 1], list[n]) ELSE h[n - 1]
      BY <1>7
    <2> QED
      BY <2>1, <2>2 DEF Next1
  <1>10. \A n \in 0 .. Len(list) : upTo[n] = f[n]
    <2> DEFINE Off == {n \in 0 .. Len(list) : upTo[n] # f[n]}
    <2> SUFFICES ASSUME Off # {} PROVE FALSE
      OBVIOUS
    <2>1. PICK n \in Off : \A y \in Off : ~(y < n)
      <3>1. Off \subseteq Nat
        BY <1>1
      <3> HIDE DEF Off
      <3> QED
        BY <3>1, LeastOf
    <2>2. n # 0
      BY <1>5, <1>9, <2>1
    <2>3. n \in 1 .. Len(list) /\ n - 1 \in 0 .. Len(list) /\ n - 1 < n
      BY <1>1, <2>1, <2>2
    <2>4. upTo[n - 1] = f[n - 1]
      BY <2>1, <2>3
    <2>5. upTo[n] = f[n]
      BY <1>5, <1>9, <2>3, <2>4
    <2> QED
      BY <2>1, <2>5
  <1>11. Good(f[Len(list)], Len(list)) /\ Sifted(list, set) = f[Len(list)]
    BY <1>1, <1>5, <1>8, <1>10
  <1> QED
    BY <1>11 DEF Good

-----------------------------------------------------------------------------
(* The registry of hooks. *)

(* A registry call, with its type. *)
AdminCalls ==
  [stage : {"idle", "assign", "append", "truncate", "write"}, server : Servers,
   hook : [id : HookIds, events : Subscriptions \cup {{}}], register : BOOLEAN,
   filtered : Seq(Hooks)]

(* The types of the registry, and that a call runs in a process that is up   *)
(* and appends a hook only to register it.                                   *)
HookTypes ==
  /\ workers \in SUBSET Servers
  /\ registry \in [Servers -> Seq(Hooks)]
  /\ hookFile \in [whole : BOOLEAN, hooks : Seq(Hooks)]
  /\ admin \in [HookAdmins -> AdminCalls]
  /\ hooked \in SUBSET Hooks
  /\ clashes \in BOOLEAN
  /\ \A a \in HookAdmins :
       /\ admin[a].stage # "idle" => admin[a].server \in workers
       /\ admin[a].stage = "append" => admin[a].register
       /\ admin[a].register => admin[a].hook \in Hooks

(* No two entries of a list have one id. *)
IdsApart(list) == \A m, n \in DOMAIN list : list[m].id = list[n].id => m = n

(* A list without duplicate ids, and what is in it. *)
Lists(list, set) == IdsApart(list) /\ Range(list) = set

(* What is registered beside the hook of a call, and what will be once the   *)
(* call has ended.                                                           *)
OtherHooks(a) == {h \in hooked : h.id # admin[a].hook.id}
HooksAfter(a) == OtherHooks(a) \cup (IF admin[a].register THEN {admin[a].hook} ELSE {})

(* While nobody writes it, the file is whole and lists what is registered. *)
FileTrue == (\A a \in HookAdmins : admin[a].stage # "write") =>
  hookFile.whole /\ Lists(hookFile.hooks, hooked)

(* What a call has at each of its steps: the list it has filtered, the list  *)
(* of its process once that is assigned, and with the hook appended; while   *)
(* it writes, the file is not whole.                                         *)
CallTrue(a) ==
  LET list == registry[admin[a].server] IN
  /\ admin[a].stage = "assign" => Lists(admin[a].filtered, OtherHooks(a))
  /\ admin[a].stage = "append" => Lists(list, OtherHooks(a))
  /\ admin[a].stage \in {"truncate", "write"} => Lists(list, HooksAfter(a))
  /\ admin[a].stage = "write" => ~hookFile.whole

(* Until registry calls clash, one at most runs, no process lists an id      *)
(* twice, the file is true and so is the call.                               *)
RegistryInv == ~clashes =>
  /\ \A a, b \in BusyAdmins : a = b
  /\ \A s \in Servers : IdsApart(registry[s])
  /\ FileTrue
  /\ \A a \in HookAdmins : CallTrue(a)

(* The invariant of the registry. *)
HookInv == HookTypes /\ RegistryInv

(* What Sifted returns has the entries of the list that are in the set, and  *)
(* no id twice if the list has none twice.                                   *)
LEMMA SiftApart ==
  ASSUME NEW list \in Seq(Hooks), NEW set
  PROVE  /\ Sifted(list, set) \in Seq(Hooks)
         /\ Range(Sifted(list, set)) = Range(list) \cap set
         /\ IdsApart(list) => IdsApart(Sifted(list, set))
  <1> DEFINE s == Sifted(list, set)
  <1>1. s \in Seq(Hooks) /\ Origins(s, list, set, Len(list))
    BY SiftedIs
  <1>2. DOMAIN list = 1 .. Len(list)
    OBVIOUS
  <1> HIDE DEF s
  <1>3. Range(s) \subseteq Range(list) \cap set
    BY <1>1, <1>2 DEF Range, Origins
  <1>4. Range(list) \cap set \subseteq Range(s)
    BY <1>1, <1>2 DEF Range, Origins
  <1>5. ASSUME IdsApart(list), NEW m \in DOMAIN s, NEW n \in DOMAIN s, m # n
        PROVE  s[m].id # s[n].id
    <2>1. PICK p, q \in 1 .. Len(list) : p # q /\ s[m] = list[p] /\ s[n] = list[q]
      BY <1>1, <1>5 DEF Origins
    <2> QED
      BY <1>2, <1>5, <2>1 DEF IdsApart
  <1>6. IdsApart(list) => IdsApart(s)
    BY <1>5 DEF IdsApart
  <1> QED
    BY <1>1, <1>3, <1>4, <1>6 DEF s

(* What Without returns lists all hooks but those of the id. *)
LEMMA WithoutIs ==
  ASSUME NEW list \in Seq(Hooks), NEW id
  PROVE  /\ Without(list, id) \in Seq(Hooks)
         /\ IdsApart(list) => Lists(Without(list, id), {h \in Range(list) : h.id # id})
  <1> DEFINE set == {h \in Range(list) : h.id # id}
  <1>1. Range(list) \cap set = set
    OBVIOUS
  <1>2. Without(list, id) = Sifted(list, set)
    BY DEF Without
  <1> HIDE DEF set
  <1>3. /\ Sifted(list, set) \in Seq(Hooks) /\ Range(Sifted(list, set)) = set
        /\ IdsApart(list) => IdsApart(Sifted(list, set))
    BY <1>1, SiftApart
  <1> QED
    BY <1>2, <1>3 DEF Lists, set

(* A hook appended to a list without its id makes a list of one more. *)
LEMMA AppendApart ==
  ASSUME NEW list \in Seq(Hooks), NEW set, Lists(list, set), NEW hook \in Hooks,
         \A h \in set : h.id # hook.id
  PROVE  Lists(Append(list, hook), set \cup {hook})
  <1> DEFINE s == Append(list, hook)
  <1>1. /\ s \in Seq(Hooks) /\ Len(s) = Len(list) + 1 /\ Len(list) \in Nat
        /\ \A i \in 1 .. Len(list) : s[i] = list[i]
        /\ s[Len(list) + 1] = hook
    BY AppendProperties
  <1>2. DOMAIN s = 1 .. Len(s) /\ DOMAIN list = 1 .. Len(list)
    BY <1>1
  <1> HIDE DEF s
  <1>3. \A i \in DOMAIN s : (i \in DOMAIN list /\ s[i] = list[i]) \/ (i = Len(list) + 1 /\ s[i] = hook)
    BY <1>1, <1>2
  <1>4. \A i \in DOMAIN list : i \in DOMAIN s /\ s[i] = list[i]
    BY <1>1, <1>2
  <1>5. Len(list) + 1 \in DOMAIN s
    BY <1>1, <1>2
  <1>6. \A i \in DOMAIN list : list[i].id # hook.id
    BY DEF Lists, Range
  <1>7. IdsApart(s)
    BY <1>3, <1>6 DEF IdsApart, Lists
  <1>8. Range(s) = set \cup {hook}
    BY <1>1, <1>3, <1>4, <1>5 DEF Range, Lists
  <1> QED
    BY <1>7, <1>8 DEF Lists, s

(* A list without duplicate ids is as long as it has hooks. *)
LEMMA ListsCount ==
  ASSUME NEW list \in Seq(Hooks), NEW set, Lists(list, set)
  PROVE  Len(list) = Cardinality(set)
  <1>1. Len(list) \in Nat /\ DOMAIN list = 1 .. Len(list)
    OBVIOUS
  <1>2. IsFiniteSet(1 .. Len(list)) /\ Cardinality(1 .. Len(list)) = Len(list)
    BY <1>1, FS_Interval
  <1>3. list \in [1 .. Len(list) -> set] /\ \A t \in set : \E n \in 1 .. Len(list) : list[n] = t
    <2>1. \A n \in DOMAIN list : list[n] \in set
      BY DEF Lists, Range
    <2>2. list = [n \in 1 .. Len(list) |-> list[n]]
      BY <1>1
    <2> QED
      BY <1>1, <2>1, <2>2 DEF Lists, Range
  <1>4. list \in Surjection(1 .. Len(list), set)
    BY <1>3 DEF Surjection
  <1>5. list \in Injection(1 .. Len(list), set)
    BY <1>1, <1>3 DEF Injection, IsInjective, Lists, IdsApart
  <1>6. Cardinality(set) = Cardinality(1 .. Len(list))
    <2> DEFINE D == 1 .. Len(list)
    <2> HIDE DEF D
    <2>1. list \in Surjection(D, set) /\ list \in Injection(D, set) /\ IsFiniteSet(D)
      BY <1>2, <1>4, <1>5 DEF D
    <2>2. Cardinality(set) = Cardinality(D)
      BY <2>1, FS_Surjection
    <2> QED
      BY <2>2 DEF D
  <1> QED
    BY <1>2, <1>6

(* There are a server and a hook, and an idle thread is one that has no      *)
(* call.                                                                     *)
LEMMA HooksExist == SomeServer \in Servers /\ SomeHook \in Hooks /\ IdleAdmin \in AdminCalls
  <1>1. SomeServer \in Servers
    BY DeploymentAssumption DEF SomeServer
  <1>2. Hooks # {}
    <2>1. PICK i \in HookIds, e \in Subscriptions : TRUE
      BY HooksAssumption
    <2>2. [id |-> i, events |-> e] \in Hooks
      BY <2>1 DEF Hooks
    <2> QED
      BY <2>2
  <1>3. SomeHook \in Hooks
    BY <1>2 DEF SomeHook
  <1>4. Hooks \subseteq [id : HookIds, events : Subscriptions \cup {{}}]
    BY DEF Hooks
  <1> QED
    BY <1>1, <1>3, <1>4 DEF IdleAdmin, AdminCalls

(* The invariant holds at first. *)
LEMMA HookInit == WebhooksInit => HookInv
  <1> SUFFICES ASSUME WebhooksInit PROVE HookInv
    OBVIOUS
  <1>1. workers \in SUBSET Servers
    <2>1. PICK w \in SUBSET Servers : Cardinality(w) = hookBudget.workers
      BY HookBudgetsAssumption DEF WebhooksInit
    <2> QED
      BY <2>1 DEF WebhooksInit
  <1>2. << >> \in Seq(Hooks) /\ IdsApart(<< >>) /\ Range(<< >>) = {}
    BY DEF IdsApart, Range
  <1>3. \A a \in HookAdmins : admin[a] = IdleAdmin /\ admin[a].stage = "idle" /\ ~admin[a].register
    BY DEF WebhooksInit, IdleAdmin
  <1>4. HookTypes
    BY <1>1, <1>2, <1>3, HooksExist DEF WebhooksInit, HookTypes
  <1>5. /\ \A s \in Servers : registry[s] = << >>
        /\ hookFile = [whole |-> TRUE, hooks |-> << >>] /\ hooked = {}
    BY DEF WebhooksInit
  <1>6. RegistryInv
    BY <1>2, <1>3, <1>5 DEF RegistryInv, BusyAdmins, FileTrue, CallTrue, Lists
  <1> QED
    BY <1>4, <1>6 DEF HookInv

(* The types of one call. *)
LEMMA AdminIs ==
  ASSUME HookTypes, NEW a \in HookAdmins
  PROVE  /\ admin[a] \in AdminCalls
         /\ admin[a].server \in Servers /\ admin[a].filtered \in Seq(Hooks)
         /\ admin[a].hook \in [id : HookIds, events : Subscriptions \cup {{}}]
         /\ admin[a].register \in BOOLEAN
         /\ admin[a].stage \in {"idle", "assign", "append", "truncate", "write"}
  <1>1. admin[a] \in AdminCalls
    BY DEF HookTypes
  <1> QED
    BY <1>1 DEF AdminCalls

(* Until registry calls clash, beside a running one all threads are idle. *)
LEMMA AloneIs ==
  ASSUME RegistryInv, ~clashes, NEW a \in HookAdmins, admin[a].stage # "idle"
  PROVE  \A b \in HookAdmins \ {a} : admin[b].stage = "idle"
  BY DEF RegistryInv, BusyAdmins

(* A step that touches neither the registry nor its file keeps the           *)
(* invariant.                                                                *)
LEMMA HookFrame ==
  ASSUME HookInv, UNCHANGED <<workers, registry, hookFile, admin, hooked, clashes>>
  PROVE  HookInv'
  <1>1. HookTypes'
    BY DEF HookInv, HookTypes
  <1>2. BusyAdmins' = BusyAdmins /\ FileTrue' = FileTrue /\ \A a : CallTrue(a)' = CallTrue(a)
    BY DEF BusyAdmins, FileTrue, CallTrue, OtherHooks, HooksAfter
  <1>3. RegistryInv'
    BY <1>2 DEF HookInv, RegistryInv
  <1> QED
    BY <1>1, <1>3 DEF HookInv

(* A call that begins filters the list of its process; if it is the file's   *)
(* and nobody else is at work, the result is what is registered beside the   *)
(* hook.                                                                     *)
LEMMA BeginHookStep ==
  ASSUME HookInv, NEW a \in HookAdmins, NEW s \in Servers,
         NEW hook \in [id : HookIds, events : Subscriptions \cup {{}}],
         NEW register \in BOOLEAN, register => hook \in Hooks,
         BeginHookCall(a, s, hook, register)
  PROVE  HookInv'
  <1> DEFINE list == Without(registry[s], hook.id)
             c == [stage |-> "assign", server |-> s, hook |-> hook, register |-> register,
                   filtered |-> list]
  <1>1. /\ admin' = [admin EXCEPT ![a] = c] /\ s \in workers /\ admin[a].stage = "idle"
        /\ clashes' = (clashes \/ BusyAdmins # {} \/ registry[s] # hookFile.hooks)
        /\ UNCHANGED <<workers, registry, hookFile, hooked>>
    BY DEF BeginHookCall, hookVars
  <1>2. HookTypes /\ registry[s] \in Seq(Hooks) /\ admin \in [HookAdmins -> AdminCalls]
    BY DEF HookInv, HookTypes
  <1>3. list \in Seq(Hooks) /\ (IdsApart(registry[s]) =>
                                  Lists(list, {h \in Range(registry[s]) : h.id # hook.id}))
    BY <1>2, WithoutIs
  <1> HIDE DEF list
  <1>4. c \in AdminCalls
    BY <1>3 DEF AdminCalls
  <1>5. /\ c.stage = "assign" /\ c.server = s /\ c.hook = hook /\ c.register = register
        /\ c.filtered = list
    OBVIOUS
  <1> HIDE DEF c
  <1>6. admin'[a] = c /\ \A b \in HookAdmins \ {a} : admin'[b] = admin[b]
    BY <1>1, <1>2
  <1>7. admin' \in [HookAdmins -> AdminCalls]
    BY <1>1, <1>2, <1>4
  <1>8. clashes' \in BOOLEAN
    BY <1>1
  <1>9. HookTypes'
    BY <1>1, <1>2, <1>5, <1>6, <1>7, <1>8 DEF HookTypes
  <1>10. ASSUME ~clashes'
         PROVE  /\ \A x, y \in BusyAdmins' : x = y
                /\ \A t \in Servers : IdsApart(registry'[t])
                /\ FileTrue'
                /\ \A b \in HookAdmins : CallTrue(b)'
    <2>1. ~clashes /\ BusyAdmins = {} /\ registry[s] = hookFile.hooks
      BY <1>1, <1>10
    <2>2. \A b \in HookAdmins : admin[b].stage = "idle"
      BY <2>1 DEF BusyAdmins
    <2>3. \A x, y \in BusyAdmins' : x = y
      BY <1>6, <2>2 DEF BusyAdmins
    <2>4. FileTrue /\ \A t \in Servers : IdsApart(registry[t])
      BY <2>1 DEF HookInv, RegistryInv
    <2>5. hookFile.whole /\ Lists(hookFile.hooks, hooked)
      BY <2>2, <2>4 DEF FileTrue
    <2>6. FileTrue'
      BY <1>1, <2>5 DEF FileTrue
    <2>7. Lists(list, {h \in hooked : h.id # hook.id})
      BY <1>3, <2>1, <2>4, <2>5 DEF Lists
    <2>8. CallTrue(a)'
      BY <1>1, <1>5, <1>6, <2>7 DEF CallTrue, OtherHooks
    <2>9. \A b \in HookAdmins \ {a} : CallTrue(b)'
      BY <1>6, <2>2 DEF CallTrue
    <2> QED
      BY <1>1, <2>3, <2>4, <2>6, <2>8, <2>9
  <1> QED
    BY <1>9, <1>10 DEF HookInv, RegistryInv

(* The filtered list becomes the process's. *)
LEMMA AssignStep ==
  ASSUME HookInv, NEW a \in HookAdmins, AssignRegistry(a)
  PROVE  HookInv'
  <1> DEFINE s == admin[a].server
             c == [admin[a] EXCEPT !.stage = IF admin[a].register THEN "append" ELSE "truncate"]
  <1>1. /\ admin' = [admin EXCEPT ![a].stage = IF admin[a].register THEN "append" ELSE "truncate"]
        /\ registry' = [registry EXCEPT ![s] = admin[a].filtered] /\ admin[a].stage = "assign"
        /\ UNCHANGED <<workers, hookFile, hooked, clashes>>
    BY DEF AssignRegistry
  <1>2. /\ HookTypes /\ registry \in [Servers -> Seq(Hooks)] /\ admin \in [HookAdmins -> AdminCalls]
        /\ s \in Servers /\ admin[a].filtered \in Seq(Hooks) /\ admin[a] \in AdminCalls
    BY AdminIs DEF HookInv, HookTypes
  <1>3. /\ c \in AdminCalls
        /\ c.stage = (IF admin[a].register THEN "append" ELSE "truncate")
        /\ c.server = s /\ c.hook = admin[a].hook /\ c.register = admin[a].register
        /\ c.filtered = admin[a].filtered
    BY <1>2 DEF AdminCalls
  <1>4. admin'[a] = c /\ \A b \in HookAdmins \ {a} : admin'[b] = admin[b]
    BY <1>1, <1>2
  <1>5. admin' = [admin EXCEPT ![a] = c]
    BY <1>1, <1>2
  <1> HIDE DEF c
  <1>6. admin' \in [HookAdmins -> AdminCalls]
    BY <1>2, <1>3, <1>5
  <1>7. registry' \in [Servers -> Seq(Hooks)] /\ registry'[s] = admin[a].filtered
        /\ \A t \in Servers \ {s} : registry'[t] = registry[t]
    BY <1>1, <1>2
  <1>8. HookTypes'
    BY <1>1, <1>2, <1>3, <1>4, <1>6, <1>7 DEF HookTypes
  <1>9. ASSUME ~clashes'
        PROVE  /\ \A x, y \in BusyAdmins' : x = y
               /\ \A t \in Servers : IdsApart(registry'[t])
               /\ FileTrue'
               /\ \A b \in HookAdmins : CallTrue(b)'
    <2>1. ~clashes /\ RegistryInv
      BY <1>1, <1>9 DEF HookInv
    <2>2. \A b \in HookAdmins \ {a} : admin[b].stage = "idle"
      BY <1>1, <2>1, AloneIs
    <2>3. \A x, y \in BusyAdmins' : x = y
      BY <1>4, <2>2 DEF BusyAdmins
    <2>4. FileTrue /\ CallTrue(a) /\ \A t \in Servers : IdsApart(registry[t])
      BY <2>1 DEF RegistryInv
    <2>5. Lists(admin[a].filtered, OtherHooks(a))
      BY <1>1, <2>4 DEF CallTrue
    <2>6. \A t \in Servers : IdsApart(registry'[t])
      BY <1>7, <2>4, <2>5 DEF Lists
    <2>7. FileTrue'
      BY <1>1, <2>2, <2>4 DEF FileTrue
    <2>8. OtherHooks(a)' = OtherHooks(a)
      BY <1>1, <1>3, <1>4 DEF OtherHooks
    <2>9. CallTrue(a)'
      BY <1>3, <1>4, <1>7, <2>5, <2>8 DEF CallTrue, HooksAfter
    <2>10. \A b \in HookAdmins \ {a} : CallTrue(b)'
      BY <1>4, <2>2 DEF CallTrue
    <2> QED
      BY <2>3, <2>6, <2>7, <2>9, <2>10
  <1> QED
    BY <1>8, <1>9 DEF HookInv, RegistryInv

(* The new hook joins it. *)
LEMMA AppendHookStep ==
  ASSUME HookInv, NEW a \in HookAdmins, AppendHook(a)
  PROVE  HookInv'
  <1> DEFINE s == admin[a].server
             hook == admin[a].hook
             c == [admin[a] EXCEPT !.stage = "truncate"]
  <1>1. /\ admin' = [admin EXCEPT ![a].stage = "truncate"]
        /\ registry' = [registry EXCEPT ![s] = Append(registry[s], hook)]
        /\ admin[a].stage = "append"
        /\ UNCHANGED <<workers, hookFile, hooked, clashes>>
    BY DEF AppendHook
  <1>2. /\ HookTypes /\ registry \in [Servers -> Seq(Hooks)] /\ admin \in [HookAdmins -> AdminCalls]
        /\ s \in Servers /\ admin[a] \in AdminCalls /\ admin[a].register /\ hook \in Hooks
    BY <1>1, AdminIs DEF HookInv, HookTypes
  <1>3. /\ c \in AdminCalls /\ c.stage = "truncate"
        /\ c.server = s /\ c.hook = hook /\ c.register = admin[a].register
        /\ c.filtered = admin[a].filtered
    BY <1>2 DEF AdminCalls
  <1>4. admin'[a] = c /\ \A b \in HookAdmins \ {a} : admin'[b] = admin[b]
    BY <1>1, <1>2
  <1>5. admin' = [admin EXCEPT ![a] = c]
    BY <1>1, <1>2
  <1> HIDE DEF c
  <1>6. admin' \in [HookAdmins -> AdminCalls]
    BY <1>2, <1>3, <1>5
  <1>7. /\ Append(registry[s], hook) \in Seq(Hooks)
        /\ registry' \in [Servers -> Seq(Hooks)] /\ registry'[s] = Append(registry[s], hook)
        /\ \A t \in Servers \ {s} : registry'[t] = registry[t]
    <2>1. registry[s] \in Seq(Hooks)
      BY <1>2
    <2>2. Append(registry[s], hook) \in Seq(Hooks)
      BY <1>2, <2>1, AppendProperties
    <2> QED
      BY <1>1, <1>2, <2>2
  <1>8. HookTypes'
    BY <1>1, <1>2, <1>3, <1>4, <1>6, <1>7 DEF HookTypes
  <1>9. ASSUME ~clashes'
        PROVE  /\ \A x, y \in BusyAdmins' : x = y
               /\ \A t \in Servers : IdsApart(registry'[t])
               /\ FileTrue'
               /\ \A b \in HookAdmins : CallTrue(b)'
    <2>1. ~clashes /\ RegistryInv
      BY <1>1, <1>9 DEF HookInv
    <2>2. \A b \in HookAdmins \ {a} : admin[b].stage = "idle"
      BY <1>1, <2>1, AloneIs
    <2>3. \A x, y \in BusyAdmins' : x = y
      BY <1>4, <2>2 DEF BusyAdmins
    <2>4. FileTrue /\ CallTrue(a) /\ \A t \in Servers : IdsApart(registry[t])
      BY <2>1 DEF RegistryInv
    <2>5. Lists(registry[s], OtherHooks(a))
      BY <1>1, <2>4 DEF CallTrue
    <2>6. Lists(Append(registry[s], hook), OtherHooks(a) \cup {hook})
      <3>1. registry[s] \in Seq(Hooks) /\ \A h \in OtherHooks(a) : h.id # hook.id
        BY <1>2 DEF OtherHooks
      <3> HIDE DEF s, hook
      <3>2. hook \in Hooks
        BY <1>2
      <3> QED
        BY <2>5, <3>1, <3>2, AppendApart
    <2>7. \A t \in Servers : IdsApart(registry'[t])
      BY <1>7, <2>4, <2>6 DEF Lists
    <2>8. FileTrue'
      BY <1>1, <2>2, <2>4 DEF FileTrue
    <2>9. OtherHooks(a)' = OtherHooks(a)
      BY <1>1, <1>3, <1>4 DEF OtherHooks
    <2>10. HooksAfter(a)' = OtherHooks(a) \cup {hook}
      BY <1>2, <1>3, <1>4, <2>9 DEF HooksAfter
    <2>11. CallTrue(a)'
      BY <1>3, <1>4, <1>7, <2>6, <2>10 DEF CallTrue
    <2>12. \A b \in HookAdmins \ {a} : CallTrue(b)'
      BY <1>4, <2>2 DEF CallTrue
    <2> QED
      BY <2>3, <2>7, <2>8, <2>11, <2>12
  <1> QED
    BY <1>8, <1>9 DEF HookInv, RegistryInv

(* The file is emptied; until the call ends it is not whole. *)
LEMMA TruncateHooksStep ==
  ASSUME HookInv, NEW a \in HookAdmins, TruncateHookFile(a)
  PROVE  HookInv'
  <1> DEFINE s == admin[a].server
             c == [admin[a] EXCEPT !.stage = "write"]
  <1>1. /\ admin' = [admin EXCEPT ![a].stage = "write"]
        /\ hookFile' = [whole |-> FALSE, hooks |-> << >>]
        /\ admin[a].stage = "truncate"
        /\ UNCHANGED <<workers, registry, hooked, clashes>>
    BY DEF TruncateHookFile
  <1>2. HookTypes /\ admin \in [HookAdmins -> AdminCalls] /\ admin[a] \in AdminCalls
    BY AdminIs DEF HookInv, HookTypes
  <1>3. /\ c \in AdminCalls /\ c.stage = "write"
        /\ c.server = s /\ c.hook = admin[a].hook /\ c.register = admin[a].register
    BY <1>2 DEF AdminCalls
  <1>4. admin'[a] = c /\ \A b \in HookAdmins \ {a} : admin'[b] = admin[b]
    BY <1>1, <1>2
  <1>5. admin' = [admin EXCEPT ![a] = c]
    BY <1>1, <1>2
  <1> HIDE DEF c
  <1>6. admin' \in [HookAdmins -> AdminCalls] /\ << >> \in Seq(Hooks)
    BY <1>2, <1>3, <1>5
  <1>7. HookTypes'
    BY <1>1, <1>2, <1>3, <1>4, <1>6 DEF HookTypes
  <1>8. ASSUME ~clashes'
        PROVE  /\ \A x, y \in BusyAdmins' : x = y
               /\ \A t \in Servers : IdsApart(registry'[t])
               /\ FileTrue'
               /\ \A b \in HookAdmins : CallTrue(b)'
    <2>1. ~clashes /\ RegistryInv
      BY <1>1, <1>8 DEF HookInv
    <2>2. \A b \in HookAdmins \ {a} : admin[b].stage = "idle"
      BY <1>1, <2>1, AloneIs
    <2>3. \A x, y \in BusyAdmins' : x = y
      BY <1>4, <2>2 DEF BusyAdmins
    <2>4. CallTrue(a) /\ \A t \in Servers : IdsApart(registry[t])
      BY <2>1 DEF RegistryInv
    <2>5. Lists(registry[s], HooksAfter(a))
      BY <1>1, <2>4 DEF CallTrue
    <2>6. FileTrue'
      BY <1>3, <1>4 DEF FileTrue
    <2>7. HooksAfter(a)' = HooksAfter(a)
      BY <1>1, <1>3, <1>4 DEF HooksAfter, OtherHooks
    <2>8. CallTrue(a)'
      BY <1>1, <1>3, <1>4, <2>5, <2>7 DEF CallTrue
    <2>9. \A b \in HookAdmins \ {a} : CallTrue(b)'
      BY <1>4, <2>2 DEF CallTrue
    <2> QED
      BY <1>1, <2>3, <2>4, <2>6, <2>8, <2>9
  <1> QED
    BY <1>7, <1>8 DEF HookInv, RegistryInv

(* What is written is what is registered from then on. *)
LEMMA WriteHooksStep ==
  ASSUME HookInv, NEW a \in HookAdmins, WriteHookFile(a)
  PROVE  HookInv'
  <1> DEFINE s == admin[a].server
  <1>1. /\ admin' = [admin EXCEPT ![a] = IdleAdmin] /\ admin[a].stage = "write"
        /\ \/ hookFile' = [whole |-> TRUE, hooks |-> registry[s]]
           \/ hookFile.whole /\ hookFile' = [whole |-> FALSE, hooks |-> << >>]
        /\ UNCHANGED <<workers, registry, clashes>>
        /\ hooked' = HooksAfter(a)
    BY DEF WriteHookFile, HooksAfter, OtherHooks
  <1>2. /\ HookTypes /\ admin \in [HookAdmins -> AdminCalls] /\ admin[a] \in AdminCalls
        /\ s \in Servers /\ registry[s] \in Seq(Hooks) /\ << >> \in Seq(Hooks)
        /\ admin[a].register => admin[a].hook \in Hooks
    BY AdminIs DEF HookInv, HookTypes
  <1>3. IdleAdmin \in AdminCalls /\ IdleAdmin.stage = "idle" /\ ~IdleAdmin.register
    BY HooksExist DEF IdleAdmin
  <1>4. admin'[a] = IdleAdmin /\ \A b \in HookAdmins \ {a} : admin'[b] = admin[b]
    BY <1>1, <1>2
  <1>5. admin' \in [HookAdmins -> AdminCalls]
    BY <1>1, <1>2, <1>3
  <1>6. HooksAfter(a) \in SUBSET Hooks
    BY <1>2 DEF HooksAfter, OtherHooks, HookTypes
  <1>7. hookFile' \in [whole : BOOLEAN, hooks : Seq(Hooks)]
    <2>1. \A list \in Seq(Hooks), w \in BOOLEAN :
            [whole |-> w, hooks |-> list] \in [whole : BOOLEAN, hooks : Seq(Hooks)]
      OBVIOUS
    <2>2. PICK list \in Seq(Hooks), w \in BOOLEAN : hookFile' = [whole |-> w, hooks |-> list]
      BY <1>1, <1>2
    <2> QED
      BY <2>1, <2>2
  <1>8. HookTypes'
    BY <1>1, <1>2, <1>3, <1>4, <1>5, <1>6, <1>7 DEF HookTypes
  <1>9. ASSUME ~clashes'
        PROVE  /\ \A x, y \in BusyAdmins' : x = y
               /\ \A t \in Servers : IdsApart(registry'[t])
               /\ FileTrue'
               /\ \A b \in HookAdmins : CallTrue(b)'
    <2>1. ~clashes /\ RegistryInv
      BY <1>1, <1>9 DEF HookInv
    <2>2. \A b \in HookAdmins \ {a} : admin[b].stage = "idle"
      BY <1>1, <2>1, AloneIs
    <2>3. \A b \in HookAdmins : admin'[b].stage = "idle"
      BY <1>3, <1>4, <2>2
    <2>4. CallTrue(a) /\ \A t \in Servers : IdsApart(registry[t])
      BY <2>1 DEF RegistryInv
    <2>5. Lists(registry[s], HooksAfter(a)) /\ ~hookFile.whole
      BY <1>1, <2>4 DEF CallTrue
    <2>6. FileTrue'
      BY <1>1, <2>5 DEF FileTrue
    <2>7. \A b \in HookAdmins : CallTrue(b)'
      BY <2>3 DEF CallTrue
    <2>8. \A x, y \in BusyAdmins' : x = y
      BY <2>3 DEF BusyAdmins
    <2> QED
      BY <1>1, <2>4, <2>6, <2>7, <2>8
  <1> QED
    BY <1>8, <1>9 DEF HookInv, RegistryInv

(* A kill ends its calls; one in its write is a clash. *)
LEMMA KillWorkerHooks ==
  ASSUME HookInv, NEW s \in Servers, KillWorker(s)
  PROVE  HookInv'
  <1> DEFINE calls == {a \in BusyAdmins : admin[a].server = s}
  <1>1. /\ workers' = workers \ {s}
        /\ admin' = [a \in HookAdmins |-> IF a \in calls THEN IdleAdmin ELSE admin[a]]
        /\ clashes' = (clashes \/ \E a \in calls : admin[a].stage = "write")
        /\ UNCHANGED <<registry, hookFile, hooked>>
    BY DEF KillWorker
  <1>2. HookTypes /\ admin \in [HookAdmins -> AdminCalls]
    BY DEF HookInv, HookTypes
  <1>3. IdleAdmin \in AdminCalls /\ IdleAdmin.stage = "idle" /\ ~IdleAdmin.register
    BY HooksExist DEF IdleAdmin
  <1>4. \A a \in HookAdmins : \/ admin'[a] = IdleAdmin
                              \/ /\ admin'[a] = admin[a]
                                 /\ admin[a].stage # "idle" => admin[a].server # s
    BY <1>1 DEF BusyAdmins
  <1>5. admin' \in [HookAdmins -> AdminCalls]
    BY <1>1, <1>2, <1>3
  <1>6. HookTypes'
    <2>1. clashes' \in BOOLEAN
      BY <1>1
    <2>2. \A a \in HookAdmins :
            /\ admin'[a].stage # "idle" => admin'[a].server \in workers'
            /\ admin'[a].stage = "append" => admin'[a].register
            /\ admin'[a].register => admin'[a].hook \in Hooks
      BY <1>1, <1>2, <1>3, <1>4 DEF HookTypes
    <2> QED
      BY <1>1, <1>2, <1>5, <2>1, <2>2 DEF HookTypes
  <1>7. ASSUME ~clashes'
        PROVE  /\ \A x, y \in BusyAdmins' : x = y
               /\ \A t \in Servers : IdsApart(registry'[t])
               /\ FileTrue'
               /\ \A b \in HookAdmins : CallTrue(b)'
    <2>1. ~clashes /\ RegistryInv /\ \A a \in calls : admin[a].stage # "write"
      BY <1>1, <1>7 DEF HookInv
    <2>2. BusyAdmins' \subseteq BusyAdmins
      BY <1>3, <1>4 DEF BusyAdmins
    <2>3. \A a \in HookAdmins : admin'[a].stage # "write" => admin[a].stage # "write"
      BY <1>1, <1>3, <2>1
    <2>4. FileTrue'
      BY <1>1, <2>1, <2>3 DEF FileTrue, RegistryInv
    <2>5. \A b \in HookAdmins : CallTrue(b)'
      <3> TAKE b \in HookAdmins
      <3>1. CASE admin'[b] = IdleAdmin
        BY <1>3, <3>1 DEF CallTrue
      <3>2. CASE admin'[b] = admin[b]
        <4>1. OtherHooks(b)' = OtherHooks(b) /\ HooksAfter(b)' = HooksAfter(b)
          BY <1>1, <3>2 DEF OtherHooks, HooksAfter
        <4>2. CallTrue(b)
          BY <2>1 DEF RegistryInv
        <4> QED
          BY <1>1, <3>2, <4>1, <4>2 DEF CallTrue
      <3> QED
        BY <1>4, <3>1, <3>2
    <2> QED
      BY <1>1, <2>1, <2>2, <2>4, <2>5 DEF RegistryInv
  <1> QED
    BY <1>6, <1>7 DEF HookInv, RegistryInv

(* A process that starts takes the file's list. *)
LEMMA StartWorkerHooks ==
  ASSUME HookInv, NEW s \in Servers, StartWorker(s)
  PROVE  HookInv'
  <1>1. /\ s \notin workers /\ hookFile.whole /\ workers' = workers \cup {s}
        /\ registry' = [registry EXCEPT ![s] = hookFile.hooks]
        /\ UNCHANGED <<hookFile, admin, hooked, clashes>>
    BY DEF StartWorker
  <1>2. HookTypes /\ registry \in [Servers -> Seq(Hooks)] /\ hookFile.hooks \in Seq(Hooks)
    BY DEF HookInv, HookTypes
  <1>3. registry' \in [Servers -> Seq(Hooks)] /\ registry'[s] = hookFile.hooks
        /\ \A t \in Servers \ {s} : registry'[t] = registry[t]
    BY <1>1, <1>2
  <1>4. HookTypes'
    BY <1>1, <1>2, <1>3 DEF HookTypes
  <1>5. \A a \in HookAdmins : admin[a].stage # "idle" => admin[a].server \in Servers \ {s}
    BY <1>1, <1>2, AdminIs DEF HookTypes
  <1>6. ASSUME ~clashes'
        PROVE  /\ \A x, y \in BusyAdmins' : x = y
               /\ \A t \in Servers : IdsApart(registry'[t])
               /\ FileTrue'
               /\ \A b \in HookAdmins : CallTrue(b)'
    <2>1. ~clashes /\ RegistryInv
      BY <1>1, <1>6 DEF HookInv
    <2>2. \A x, y \in BusyAdmins' : x = y
      BY <1>1, <2>1 DEF RegistryInv, BusyAdmins
    <2>3. FileTrue /\ FileTrue' = FileTrue
      BY <1>1, <2>1 DEF RegistryInv, FileTrue
    <2>4. \A a \in HookAdmins : admin[a].stage # "write"
      BY <1>1, <2>1 DEF RegistryInv, CallTrue
    <2>5. IdsApart(hookFile.hooks)
      BY <2>3, <2>4 DEF FileTrue, Lists
    <2>6. \A t \in Servers : IdsApart(registry'[t])
      BY <1>3, <2>1, <2>5 DEF RegistryInv
    <2>7. \A b \in HookAdmins : CallTrue(b)'
      <3> TAKE b \in HookAdmins
      <3>1. OtherHooks(b)' = OtherHooks(b) /\ HooksAfter(b)' = HooksAfter(b)
        BY <1>1 DEF OtherHooks, HooksAfter
      <3>2. CallTrue(b)
        BY <2>1 DEF RegistryInv
      <3>3. CASE admin[b].stage = "idle"
        BY <1>1, <3>3 DEF CallTrue
      <3>4. CASE admin[b].stage # "idle"
        <4>1. registry'[admin[b].server] = registry[admin[b].server]
          BY <1>3, <1>5, <3>4
        <4> QED
          BY <1>1, <3>1, <3>2, <4>1 DEF CallTrue
      <3> QED
        BY <3>3, <3>4
    <2> QED
      BY <2>2, <2>3, <2>6, <2>7
  <1> QED
    BY <1>4, <1>6 DEF HookInv, RegistryInv

(* Every step keeps the invariant of the registry. *)
LEMMA HookStep == HookInv /\ [WebhooksNext]_webhookVars => HookInv'
  <1> SUFFICES ASSUME HookInv, [WebhooksNext]_webhookVars PROVE HookInv'
    OBVIOUS
  <1>1. CASE UNCHANGED webhookVars
    BY <1>1, HookFrame DEF webhookVars, hookVars
  <1>2. ASSUME NEW a \in HookAdmins, NEW s \in Servers, NEW h \in Hooks,
               BeginHookCall(a, s, h, TRUE)
        PROVE  HookInv'
    <2>1. h \in [id : HookIds, events : Subscriptions \cup {{}}]
      BY DEF Hooks
    <2> QED
      BY <1>2, <2>1, BeginHookStep
  <1>3. ASSUME NEW a \in HookAdmins, NEW s \in Servers, NEW id \in HookIds,
               BeginHookCall(a, s, [id |-> id, events |-> {}], FALSE)
        PROVE  HookInv'
    <2> DEFINE h == [id |-> id, events |-> {}]
    <2>1. h \in [id : HookIds, events : Subscriptions \cup {{}}]
      OBVIOUS
    <2> HIDE DEF h
    <2>2. BeginHookCall(a, s, h, FALSE)
      BY <1>3 DEF h
    <2> QED
      BY <2>1, <2>2, BeginHookStep
  <1>4. ASSUME NEW d \in Dispatchers,
               \/ \E s \in Servers, t \in EventTypes : Dispatch(d, s, t)
               \/ \E success \in BOOLEAN : Post(d, success)
               \/ QueueDelivery(d) \/ EndDispatch(d)
        PROVE  HookInv'
    <2>1. UNCHANGED <<workers, registry, hookFile, admin, hooked, clashes>>
      BY <1>4 DEF Dispatch, Post, QueueDelivery, EndDispatch, hookVars
    <2> QED
      BY <2>1, HookFrame
  <1>5. ASSUME NEW r \in Retriers,
               \/ \E s \in Servers : BeginRetry(r, s)
               \/ \E success \in BOOLEAN : RetryPost(r, success)
               \/ TruncateQueue(r) \/ WriteQueue(r)
        PROVE  HookInv'
    <2>1. UNCHANGED <<workers, registry, hookFile, admin, hooked, clashes>>
      BY <1>5 DEF BeginRetry, RetryPost, TruncateQueue, WriteQueue, hookVars
    <2> QED
      BY <2>1, HookFrame
  <1> QED
    BY <1>1, <1>2, <1>3, <1>4, <1>5, AssignStep, AppendHookStep, TruncateHooksStep, WriteHooksStep,
       KillWorkerHooks, StartWorkerHooks
    DEF WebhooksNext

(* So it always holds. *)
LEMMA HookInvariant == WebhooksSpec => []HookInv
  BY HookInit, HookStep, PTL DEF WebhooksSpec

(* RegistryKept holds of any number of processes, threads, hooks, calls,     *)
(* restarts and kills: while no registry call runs, the file lists exactly   *)
(* what was registered and not deregistered since, once each, unless calls   *)
(* have clashed.                                                             *)
THEOREM RegistryIsKept == WebhooksSpec => []RegistryKept
  <1>1. HookInv => RegistryKept
    <2> SUFFICES ASSUME HookInv, ~clashes, BusyAdmins = {}
                 PROVE  /\ hookFile.whole /\ Range(hookFile.hooks) = hooked
                        /\ Len(hookFile.hooks) = Cardinality(hooked)
      BY DEF RegistryKept
    <2>1. \A a \in HookAdmins : admin[a].stage # "write"
      BY DEF BusyAdmins
    <2>2. hookFile.whole /\ Lists(hookFile.hooks, hooked)
      BY <2>1 DEF HookInv, RegistryInv, FileTrue
    <2>3. hookFile.hooks \in Seq(Hooks)
      BY DEF HookInv, HookTypes
    <2> QED
      BY <2>2, <2>3, ListsCount DEF Lists
  <1> QED
    BY <1>1, HookInvariant, PTL

-----------------------------------------------------------------------------
(* The deliveries of events. *)

(* A dispatch, with its type. *)
DispatchRuns ==
  [nr : Nat, server : Servers, type : EventTypes, live : BOOLEAN, todo : Seq(HookIds),
   failed : Seq(HookIds)]

(* A retry, with its type. *)
RetryCalls ==
  [stage : {"idle", "post", "write"}, server : Servers, todo : Seq(QueueEntries),
   kept : Seq(QueueEntries), left : 0 .. BatchSize]

(* The types of the deliveries. *)
DeliveryTypes ==
  /\ dispatching \in [Dispatchers -> DispatchRuns]
  /\ queueFile \in [whole : BOOLEAN, entries : Seq(QueueEntries)]
  /\ retrying \in [Retriers -> RetryCalls]
  /\ hookBudget \in [workers : Nat, changes : Nat, events : Nat, retries : Nat, kills : Nat]
  /\ owed \in SUBSET Deliveries /\ confirmed \in SUBSET Deliveries
  /\ excusable \in SUBSET Deliveries /\ repeated \in SUBSET Deliveries
  /\ overlapped \in BOOLEAN

(* The delivery an entry of the queue stands for. *)
PairOf(entry) == Delivery(entry.hook, entry.nr)

(* Those a list of entries stands for. *)
Pairs(list) == {PairOf(list[n]) : n \in DOMAIN list}

(* No two entries of a list stand for one delivery. *)
PairsApart(list) == \A m, n \in DOMAIN list : PairOf(list[m]) = PairOf(list[n]) => m = n

(* What the dispatches have in hand. *)
Hands == UNION {InHand(d) : d \in Dispatchers}

(* What a retry has read and will write back or post. *)
Behind(r) == Pairs(retrying[r].kept) \cup Pairs(retrying[r].todo)

(* The numbers of the events: one that has been given is above those still   *)
(* to give, a dispatcher without one has nothing in hand, and no two         *)
(* dispatchers have the same.                                                *)
NumbersOK ==
  /\ \A x \in owed : x.nr > hookBudget.events
  /\ \A d \in Dispatchers :
       /\ dispatching[d].nr # 0 => dispatching[d].nr > hookBudget.events
       /\ dispatching[d].nr = 0 =>
            dispatching[d].todo = << >> /\ dispatching[d].failed = << >> /\ ~dispatching[d].live
       /\ \A e \in Dispatchers :
            dispatching[d].nr = dispatching[e].nr /\ dispatching[d].nr # 0 => d = e

(* What is in hand, in the queue, behind a retry or confirmed is a delivery  *)
(* a dispatch has begun.                                                     *)
AllOwed ==
  /\ Hands \subseteq owed
  /\ Queued \subseteq owed
  /\ \A r \in Retriers : Behind(r) \subseteq owed
  /\ confirmed \subseteq owed

(* Where a delivery that is neither confirmed nor excused can be: in the     *)
(* queue or in hand while nobody rewrites the queue; behind a retry that     *)
(* runs, or in hand, whatever the others do; and if the queue has entries    *)
(* while somebody rewrites it, in hand.                                      *)
NoneLost ==
  LET forgiven == confirmed \cup excusable IN
  /\ Writing = {} => owed \subseteq forgiven \cup Queued \cup Hands
  /\ \A r \in BusyRetriers : owed \subseteq forgiven \cup Behind(r) \cup Hands
  /\ Writing # {} /\ queueFile.entries # << >> => owed \subseteq forgiven \cup Hands

(* A list of entries holds no delivery twice, none that is confirmed and     *)
(* none that is in hand.                                                     *)
InLine(list) ==
  /\ PairsApart(list)
  /\ Pairs(list) \cap confirmed = {}
  /\ Pairs(list) \cap Hands = {}

(* A dispatch has no hook twice in hand. *)
TodoApart(d) ==
  /\ IsInjective(dispatching[d].todo) /\ IsInjective(dispatching[d].failed)
  /\ Range(dispatching[d].todo) \cap Range(dispatching[d].failed) = {}

(* So with what a retry has read, and nothing of it is both to be posted and *)
(* kept.                                                                     *)
BatchInLine(r) ==
  /\ InLine(retrying[r].kept) /\ InLine(retrying[r].todo)
  /\ Pairs(retrying[r].kept) \cap Pairs(retrying[r].todo) = {}

(* A hook that is about to be appended to a list is not yet in hand of a     *)
(* dispatch that walks the list, nor ever was.                               *)
AppendFresh == \A a \in HookAdmins, d \in Dispatchers :
  admin[a].stage = "append" /\ dispatching[d].live /\ dispatching[d].server = admin[a].server
    => Delivery(admin[a].hook.id, dispatching[d].nr) \notin owed

(* Until retries overlap or registry calls clash, every delivery is in one   *)
(* place at a time, in none once it is confirmed, and has not been posted    *)
(* since.                                                                    *)
OnceInv == ~overlapped /\ ~clashes =>
  /\ \A d \in Dispatchers : TodoApart(d)
  /\ Hands \cap confirmed = {}
  /\ \A q, r \in BusyRetriers : q = r
  /\ BusyRetriers = {} => InLine(queueFile.entries)
  /\ \A r \in BusyRetriers : BatchInLine(r)
  /\ AppendFresh
  /\ repeated = {}

(* The invariant of the deliveries. *)
DeliveryInv == DeliveryTypes /\ NumbersOK /\ AllOwed /\ NoneLost /\ OnceInv

(* A delivery has the hook and the number it is made of. *)
LEMMA DeliveryIs == \A h, n : Delivery(h, n).hook = h /\ Delivery(h, n).nr = n
  BY DEF Delivery

(* The empty list has nothing twice. *)
LEMMA EmptyLists == Range(<< >>) = {} /\ IsInjective(<< >>) /\ Pairs(<< >>) = {} /\ PairsApart(<< >>)
  BY DEF Range, IsInjective, Pairs, PairsApart

(* A list of one. *)
LEMMA SingleIs == ASSUME NEW S, NEW x \in S
                  PROVE <<x>> \in Seq(S) /\ Range(<<x>>) = {x} /\ IsInjective(<<x>>) /\ <<x>> # << >>
  <1>1. <<x>> \in Seq(S) /\ DOMAIN <<x>> = 1 .. 1 /\ <<x>>[1] = x
    OBVIOUS
  <1>2. \A n \in 1 .. 1 : n = 1
    OBVIOUS
  <1>3. << >> \in Seq(S) /\ Len(<< >>) = 0 /\ Len(<<x>>) = 1
    OBVIOUS
  <1> QED
    BY <1>1, <1>2, <1>3 DEF Range, IsInjective

(* The entries of a list are its first and those of its tail, from which the *)
(* first is missing if none is there twice.                                  *)
LEMMA RangeTail ==
  ASSUME NEW S, NEW list \in Seq(S), list # << >>
  PROVE  /\ Tail(list) \in Seq(S) /\ Head(list) \in S
         /\ Range(list) = {Head(list)} \cup Range(Tail(list))
         /\ IsInjective(list) => IsInjective(Tail(list)) /\ Head(list) \notin Range(Tail(list))
  <1> DEFINE t == Tail(list)
  <1>1. /\ t \in Seq(S) /\ Len(t) = Len(list) - 1 /\ \A i \in 1 .. Len(t) : t[i] = list[i + 1]
        /\ Head(list) \in S
    BY HeadTailProperties
  <1>2. DOMAIN t = 1 .. Len(t) /\ DOMAIN list = 1 .. Len(list) /\ Len(list) \in Nat /\ Len(t) \in Nat
    BY <1>1
  <1>3. Head(list) = list[1]
    OBVIOUS
  <1> HIDE DEF t
  <1>4. \A i \in DOMAIN list : i = 1 \/ (i - 1 \in DOMAIN t /\ list[i] = t[i - 1])
    <2> TAKE i \in DOMAIN list
    <2>1. CASE i # 1
      <3>1. i - 1 \in 1 .. Len(t) /\ (i - 1) + 1 = i
        BY <1>1, <1>2, <2>1
      <3> QED
        BY <1>1, <1>2, <3>1
    <2> QED
      BY <2>1
  <1>5. \A i \in DOMAIN t : i + 1 \in DOMAIN list /\ t[i] = list[i + 1] /\ i + 1 # 1 /\ i \in Nat
    BY <1>1, <1>2
  <1>6. 1 \in DOMAIN list
    BY <1>1, <1>2
  <1>7. Range(list) = {list[1]} \cup Range(t)
    BY <1>4, <1>5, <1>6 DEF Range
  <1>8. ASSUME IsInjective(list)
        PROVE  IsInjective(t) /\ list[1] \notin Range(t)
    <2>1. \A i, k \in DOMAIN t : t[i] = t[k] => i = k
      BY <1>5, <1>8 DEF IsInjective
    <2>2. \A i \in DOMAIN t : t[i] # list[1]
      BY <1>5, <1>6, <1>8 DEF IsInjective
    <2> QED
      BY <2>1, <2>2 DEF IsInjective, Range
  <1> QED
    BY <1>1, <1>3, <1>7, <1>8 DEF t

(* The entries of a list with one appended; none is twice if the new one is  *)
(* new.                                                                      *)
LEMMA RangeAppend ==
  ASSUME NEW S, NEW list \in Seq(S), NEW x \in S
  PROVE  /\ Append(list, x) \in Seq(S)
         /\ Range(Append(list, x)) = Range(list) \cup {x}
         /\ IsInjective(list) /\ x \notin Range(list) => IsInjective(Append(list, x))
  <1> DEFINE s == Append(list, x)
  <1>1. /\ s \in Seq(S) /\ Len(s) = Len(list) + 1 /\ Len(list) \in Nat
        /\ \A i \in 1 .. Len(list) : s[i] = list[i]
        /\ s[Len(list) + 1] = x
    BY AppendProperties
  <1>2. DOMAIN s = 1 .. Len(s) /\ DOMAIN list = 1 .. Len(list)
    BY <1>1
  <1> HIDE DEF s
  <1>3. \A i \in DOMAIN s : (i \in DOMAIN list /\ s[i] = list[i]) \/ (i = Len(list) + 1 /\ s[i] = x)
    BY <1>1, <1>2
  <1>4. \A i \in DOMAIN list : i \in DOMAIN s /\ s[i] = list[i]
    BY <1>1, <1>2
  <1>5. Len(list) + 1 \in DOMAIN s
    BY <1>1, <1>2
  <1>6. Range(s) = Range(list) \cup {x}
    BY <1>1, <1>3, <1>4, <1>5 DEF Range
  <1>7. IsInjective(list) /\ x \notin Range(list) => IsInjective(s)
    BY <1>3 DEF IsInjective, Range
  <1> QED
    BY <1>1, <1>6, <1>7 DEF s

(* The entries of two lists one after the other. *)
LEMMA RangeConcat ==
  ASSUME NEW S, NEW a \in Seq(S), NEW b \in Seq(S)
  PROVE  a \o b \in Seq(S) /\ Range(a \o b) = Range(a) \cup Range(b)
  <1> DEFINE s == a \o b
  <1>1. /\ s \in Seq(S) /\ Len(s) = Len(a) + Len(b) /\ Len(a) \in Nat /\ Len(b) \in Nat
        /\ \A i \in 1 .. Len(a) + Len(b) : s[i] = IF i <= Len(a) THEN a[i] ELSE b[i - Len(a)]
    BY ConcatProperties
  <1>2. DOMAIN s = 1 .. Len(s) /\ DOMAIN a = 1 .. Len(a) /\ DOMAIN b = 1 .. Len(b)
    BY <1>1
  <1> HIDE DEF s
  <1>3. \A i \in DOMAIN s : (i \in DOMAIN a /\ s[i] = a[i]) \/ (i - Len(a) \in DOMAIN b /\ s[i] = b[i - Len(a)])
    BY <1>1, <1>2
  <1>4. \A i \in DOMAIN a : i \in DOMAIN s /\ s[i] = a[i]
    BY <1>1, <1>2
  <1>5. \A i \in DOMAIN b : i + Len(a) \in DOMAIN s /\ s[i + Len(a)] = b[i]
    <2> TAKE i \in DOMAIN b
    <2>1. i + Len(a) \in 1 .. Len(a) + Len(b) /\ ~(i + Len(a) <= Len(a)) /\ (i + Len(a)) - Len(a) = i
      BY <1>1, <1>2
    <2> QED
      BY <1>1, <1>2, <2>1
  <1>6. Range(s) = Range(a) \cup Range(b)
    BY <1>3, <1>4, <1>5 DEF Range
  <1> QED
    BY <1>1, <1>6 DEF s

(* The deliveries of a list are that of its first and those of its tail,     *)
(* from which the first is missing if none is there twice.                   *)
LEMMA PairsTail ==
  ASSUME NEW list \in Seq(QueueEntries), list # << >>
  PROVE  /\ Tail(list) \in Seq(QueueEntries) /\ Head(list) \in QueueEntries
         /\ Pairs(list) = {PairOf(Head(list))} \cup Pairs(Tail(list))
         /\ PairsApart(list) => PairsApart(Tail(list)) /\ PairOf(Head(list)) \notin Pairs(Tail(list))
  <1> DEFINE t == Tail(list)
  <1>1. /\ t \in Seq(QueueEntries) /\ Len(t) = Len(list) - 1
        /\ \A i \in 1 .. Len(t) : t[i] = list[i + 1]
        /\ Head(list) \in QueueEntries
    BY HeadTailProperties
  <1>2. DOMAIN t = 1 .. Len(t) /\ DOMAIN list = 1 .. Len(list) /\ Len(list) \in Nat /\ Len(t) \in Nat
    BY <1>1
  <1>3. Head(list) = list[1]
    OBVIOUS
  <1> HIDE DEF t
  <1>4. \A i \in DOMAIN list : i = 1 \/ (i - 1 \in DOMAIN t /\ list[i] = t[i - 1])
    <2> TAKE i \in DOMAIN list
    <2>1. CASE i # 1
      <3>1. i - 1 \in 1 .. Len(t) /\ (i - 1) + 1 = i
        BY <1>1, <1>2, <2>1
      <3> QED
        BY <1>1, <1>2, <3>1
    <2> QED
      BY <2>1
  <1>5. \A i \in DOMAIN t : i + 1 \in DOMAIN list /\ t[i] = list[i + 1] /\ i + 1 # 1 /\ i \in Nat
    BY <1>1, <1>2
  <1>6. 1 \in DOMAIN list
    BY <1>1, <1>2
  <1>7. Pairs(list) = {PairOf(list[1])} \cup Pairs(t)
    BY <1>4, <1>5, <1>6 DEF Pairs
  <1>8. ASSUME PairsApart(list)
        PROVE  PairsApart(t) /\ PairOf(list[1]) \notin Pairs(t)
    <2>1. \A i, k \in DOMAIN t : PairOf(t[i]) = PairOf(t[k]) => i = k
      BY <1>5, <1>8 DEF PairsApart
    <2>2. \A i \in DOMAIN t : PairOf(t[i]) # PairOf(list[1])
      BY <1>5, <1>6, <1>8 DEF PairsApart
    <2> QED
      BY <2>1, <2>2 DEF PairsApart, Pairs
  <1> QED
    BY <1>1, <1>3, <1>7, <1>8 DEF t

(* The deliveries of a list with one appended; none is twice if the new one  *)
(* is new.                                                                   *)
LEMMA PairsAppend ==
  ASSUME NEW list \in Seq(QueueEntries), NEW x \in QueueEntries
  PROVE  /\ Append(list, x) \in Seq(QueueEntries)
         /\ Pairs(Append(list, x)) = Pairs(list) \cup {PairOf(x)}
         /\ PairsApart(list) /\ PairOf(x) \notin Pairs(list) => PairsApart(Append(list, x))
  <1> DEFINE s == Append(list, x)
  <1>1. /\ s \in Seq(QueueEntries) /\ Len(s) = Len(list) + 1 /\ Len(list) \in Nat
        /\ \A i \in 1 .. Len(list) : s[i] = list[i]
        /\ s[Len(list) + 1] = x
    BY AppendProperties
  <1>2. DOMAIN s = 1 .. Len(s) /\ DOMAIN list = 1 .. Len(list)
    BY <1>1
  <1> HIDE DEF s
  <1>3. \A i \in DOMAIN s : (i \in DOMAIN list /\ s[i] = list[i]) \/ (i = Len(list) + 1 /\ s[i] = x)
    BY <1>1, <1>2
  <1>4. \A i \in DOMAIN list : i \in DOMAIN s /\ s[i] = list[i]
    BY <1>1, <1>2
  <1>5. Len(list) + 1 \in DOMAIN s
    BY <1>1, <1>2
  <1>6. Pairs(s) = Pairs(list) \cup {PairOf(x)}
    BY <1>1, <1>3, <1>4, <1>5 DEF Pairs
  <1>7. PairsApart(list) /\ PairOf(x) \notin Pairs(list) => PairsApart(s)
    BY <1>3 DEF PairsApart, Pairs
  <1> QED
    BY <1>1, <1>6, <1>7 DEF s

(* The deliveries of two lists one after the other; none is twice if the     *)
(* lists have none twice and none in common.                                 *)
LEMMA PairsConcat ==
  ASSUME NEW a \in Seq(QueueEntries), NEW b \in Seq(QueueEntries)
  PROVE  /\ a \o b \in Seq(QueueEntries) /\ Pairs(a \o b) = Pairs(a) \cup Pairs(b)
         /\ PairsApart(a) /\ PairsApart(b) /\ Pairs(a) \cap Pairs(b) = {} => PairsApart(a \o b)
  <1> DEFINE s == a \o b
  <1>1. /\ s \in Seq(QueueEntries) /\ Len(s) = Len(a) + Len(b) /\ Len(a) \in Nat /\ Len(b) \in Nat
        /\ \A i \in 1 .. Len(a) + Len(b) : s[i] = IF i <= Len(a) THEN a[i] ELSE b[i - Len(a)]
    BY ConcatProperties
  <1>2. DOMAIN s = 1 .. Len(s) /\ DOMAIN a = 1 .. Len(a) /\ DOMAIN b = 1 .. Len(b)
    BY <1>1
  <1> HIDE DEF s
  <1>3. \A i \in DOMAIN s :
          /\ i \in Nat
          /\ \/ i \in DOMAIN a /\ s[i] = a[i]
             \/ i - Len(a) \in DOMAIN b /\ s[i] = b[i - Len(a)]
    <2> TAKE i \in DOMAIN s
    <2>1. i \in 1 .. Len(a) + Len(b)
      BY <1>1, <1>2
    <2>2. CASE i <= Len(a)
      BY <1>1, <1>2, <2>1, <2>2
    <2>3. CASE ~(i <= Len(a))
      <3>1. i - Len(a) \in DOMAIN b
        BY <1>1, <1>2, <2>1, <2>3
      <3> QED
        BY <1>1, <2>1, <2>3, <3>1
    <2> QED
      BY <2>2, <2>3
  <1>4. \A i \in DOMAIN a : i \in DOMAIN s /\ s[i] = a[i]
    BY <1>1, <1>2
  <1>5. \A i \in DOMAIN b : i + Len(a) \in DOMAIN s /\ s[i + Len(a)] = b[i]
    <2> TAKE i \in DOMAIN b
    <2>1. i + Len(a) \in 1 .. Len(a) + Len(b) /\ ~(i + Len(a) <= Len(a)) /\ (i + Len(a)) - Len(a) = i
      BY <1>1, <1>2
    <2> QED
      BY <1>1, <1>2, <2>1
  <1>6. Pairs(s) = Pairs(a) \cup Pairs(b)
    BY <1>3, <1>4, <1>5 DEF Pairs
  <1>7. ASSUME PairsApart(a), PairsApart(b), Pairs(a) \cap Pairs(b) = {},
               NEW i \in DOMAIN s, NEW k \in DOMAIN s, PairOf(s[i]) = PairOf(s[k])
        PROVE  i = k
    <2>1. CASE i \in DOMAIN a /\ s[i] = a[i] /\ k \in DOMAIN a /\ s[k] = a[k]
      BY <1>7, <2>1 DEF PairsApart
    <2>2. CASE /\ i - Len(a) \in DOMAIN b /\ s[i] = b[i - Len(a)]
               /\ k - Len(a) \in DOMAIN b /\ s[k] = b[k - Len(a)]
      <3>1. i - Len(a) = k - Len(a)
        BY <1>7, <2>2 DEF PairsApart
      <3> QED
        BY <1>1, <1>3, <3>1
    <2>3. CASE i \in DOMAIN a /\ s[i] = a[i] /\ k - Len(a) \in DOMAIN b /\ s[k] = b[k - Len(a)]
      BY <1>7, <2>3 DEF Pairs
    <2>4. CASE k \in DOMAIN a /\ s[k] = a[k] /\ i - Len(a) \in DOMAIN b /\ s[i] = b[i - Len(a)]
      BY <1>7, <2>4 DEF Pairs
    <2> QED
      BY <1>3, <2>1, <2>2, <2>3, <2>4
  <1>8. PairsApart(a) /\ PairsApart(b) /\ Pairs(a) \cap Pairs(b) = {} => PairsApart(s)
    BY <1>7 DEF PairsApart
  <1> QED
    BY <1>1, <1>6, <1>8 DEF s

(* The types of one dispatch, and what it has in hand. *)
LEMMA HandIs ==
  ASSUME DeliveryTypes, NEW d \in Dispatchers
  PROVE  /\ dispatching[d] \in DispatchRuns
         /\ dispatching[d].nr \in Nat /\ dispatching[d].server \in Servers
         /\ dispatching[d].live \in BOOLEAN
         /\ dispatching[d].todo \in Seq(HookIds) /\ dispatching[d].failed \in Seq(HookIds)
         /\ InHand(d) = {Delivery(h, dispatching[d].nr) :
                           h \in Range(dispatching[d].todo) \cup Range(dispatching[d].failed)}
  <1>1. dispatching[d] \in DispatchRuns
    BY DEF DeliveryTypes
  <1>2. dispatching[d].todo \in Seq(HookIds) /\ dispatching[d].failed \in Seq(HookIds)
    BY <1>1 DEF DispatchRuns
  <1>3. Range(dispatching[d].todo \o dispatching[d].failed)
          = Range(dispatching[d].todo) \cup Range(dispatching[d].failed)
    BY <1>2, RangeConcat
  <1> QED
    BY <1>1, <1>2, <1>3 DEF InHand, DispatchRuns

(* The types of one retry. *)
LEMMA RetryIs ==
  ASSUME DeliveryTypes, NEW r \in Retriers
  PROVE  /\ retrying[r] \in RetryCalls
         /\ retrying[r].todo \in Seq(QueueEntries) /\ retrying[r].kept \in Seq(QueueEntries)
         /\ retrying[r].left \in 0 .. BatchSize /\ retrying[r].server \in Servers
         /\ retrying[r].stage \in {"idle", "post", "write"}
  BY DEF DeliveryTypes, RetryCalls

(* An idle dispatcher and an idle retrier have the types of their kind. *)
LEMMA IdleTyped == IdleDispatch \in DispatchRuns /\ IdleRetry \in RetryCalls
  <1>1. (CHOOSE t \in EventTypes : TRUE) \in EventTypes
    BY HooksAssumption
  <1>2. << >> \in Seq(HookIds) /\ << >> \in Seq(QueueEntries) /\ 0 \in 0 .. BatchSize
    BY BatchAssumption
  <1> QED
    BY <1>1, <1>2, HooksExist DEF IdleDispatch, IdleRetry, DispatchRuns, RetryCalls

(* What is queued are the deliveries of the queue's entries. *)
LEMMA QueuedIs == Queued = Pairs(queueFile.entries)
  BY DEF Queued, Pairs, PairOf

(* The invariant holds at first. *)
LEMMA DeliveryStarts == WebhooksInit => DeliveryInv
  <1> SUFFICES ASSUME WebhooksInit PROVE DeliveryInv
    OBVIOUS
  <1>1. /\ dispatching = [d \in Dispatchers |-> IdleDispatch]
        /\ queueFile = [whole |-> TRUE, entries |-> << >>]
        /\ retrying = [r \in Retriers |-> IdleRetry]
        /\ owed = {} /\ confirmed = {} /\ excusable = {} /\ repeated = {} /\ overlapped = FALSE
        /\ hookBudget \in HookBudgets
        /\ \A a \in HookAdmins : admin[a].stage = "idle"
    BY DEF WebhooksInit, IdleAdmin
  <1>2. << >> \in Seq(QueueEntries)
    OBVIOUS
  <1>3. DeliveryTypes
    BY <1>1, <1>2, IdleTyped, HookBudgetsAssumption DEF DeliveryTypes
  <1>4. \A d \in Dispatchers : /\ dispatching[d].nr = 0 /\ dispatching[d].todo = << >>
                               /\ dispatching[d].failed = << >> /\ ~dispatching[d].live
    BY <1>1 DEF IdleDispatch
  <1>5. \A d \in Dispatchers : InHand(d) = {}
    <2> TAKE d \in Dispatchers
    <2>1. dispatching[d].todo = << >> /\ dispatching[d].failed = << >>
      BY <1>4
    <2> QED
      BY <1>3, <2>1, HandIs, EmptyLists
  <1>6. Hands = {}
    BY <1>5 DEF Hands
  <1>7. \A r \in Retriers : retrying[r].stage = "idle" /\ Behind(r) = {}
    BY <1>1, EmptyLists DEF IdleRetry, Behind
  <1>8. queueFile.entries = << >> /\ Queued = {} /\ InLine(queueFile.entries)
    BY <1>1, QueuedIs, EmptyLists DEF InLine
  <1>9. NumbersOK
    BY <1>1, <1>4 DEF NumbersOK
  <1>10. AllOwed
    BY <1>1, <1>6, <1>7, <1>8 DEF AllOwed
  <1>11. NoneLost
    BY <1>1, <1>7 DEF NoneLost, BusyRetriers, Writing
  <1>12. OnceInv
    <2>1. \A d \in Dispatchers : TodoApart(d)
      BY <1>4, EmptyLists DEF TodoApart
    <2>2. BusyRetriers = {} /\ AppendFresh
      BY <1>1, <1>7 DEF BusyRetriers, AppendFresh
    <2> QED
      BY <1>1, <1>6, <1>8, <2>1, <2>2 DEF OnceInv
  <1> QED
    BY <1>3, <1>9, <1>10, <1>11, <1>12 DEF DeliveryInv

(* A step that touches no delivery and sets no registry call about to append *)
(* keeps it.                                                                 *)
LEMMA DeliveryFrame ==
  ASSUME DeliveryInv,
         UNCHANGED <<dispatching, queueFile, retrying, owed, confirmed, excusable, repeated,
                     overlapped>>,
         hookBudget' \in [workers : Nat, changes : Nat, events : Nat, retries : Nat, kills : Nat],
         hookBudget'.events = hookBudget.events,
         clashes => clashes',
         \A a \in HookAdmins : admin'[a].stage = "append" => admin'[a] = admin[a]
  PROVE  DeliveryInv'
  <1>1. DeliveryTypes'
    BY DEF DeliveryInv, DeliveryTypes
  <1>2. /\ \A d : InHand(d)' = InHand(d) /\ TodoApart(d)' = TodoApart(d)
        /\ \A r : Behind(r)' = Behind(r)
        /\ BusyRetriers' = BusyRetriers /\ Writing' = Writing /\ Queued' = Queued
    BY DEF InHand, TodoApart, Behind, BusyRetriers, Writing, Queued
  <1>3. Hands' = Hands
    BY <1>2 DEF Hands
  <1>4. NumbersOK'
    BY DEF DeliveryInv, NumbersOK
  <1>5. AllOwed' /\ NoneLost'
    BY <1>2, <1>3 DEF DeliveryInv, AllOwed, NoneLost
  <1>6. (\A list : InLine(list)' = InLine(list)) /\ \A r : BatchInLine(r)' = BatchInLine(r)
    BY <1>3 DEF InLine, BatchInLine
  <1>7. AppendFresh => AppendFresh'
    BY DEF AppendFresh
  <1>8. OnceInv'
    BY <1>2, <1>3, <1>6, <1>7 DEF DeliveryInv, OnceInv
  <1> QED
    BY <1>1, <1>4, <1>5, <1>8 DEF DeliveryInv

(* What the other dispatches have in hand. *)
Elsewhere(d) == UNION {InHand(e) : e \in Dispatchers \ {d}}

(* What one dispatch has in hand no other has, for their numbers differ. *)
LEMMA ElsewhereIs ==
  ASSUME DeliveryTypes, NumbersOK, NEW d \in Dispatchers
  PROVE  /\ Hands = InHand(d) \cup Elsewhere(d)
         /\ InHand(d) \cap Elsewhere(d) = {}
         /\ dispatching[d].nr = 0 => InHand(d) = {}
  <1>1. Hands = InHand(d) \cup Elsewhere(d)
    BY DEF Hands, Elsewhere
  <1>2. \A e \in Dispatchers : dispatching[e].nr = 0 => InHand(e) = {}
    <2> SUFFICES ASSUME NEW e \in Dispatchers, dispatching[e].nr = 0 PROVE InHand(e) = {}
      OBVIOUS
    <2>1. dispatching[e].todo = << >> /\ dispatching[e].failed = << >>
      BY DEF NumbersOK
    <2> QED
      BY <2>1, HandIs, EmptyLists
  <1>3. ASSUME NEW e \in Dispatchers \ {d}, NEW x \in InHand(d), x \in InHand(e) PROVE FALSE
    <2>1. x.nr = dispatching[d].nr /\ x.nr = dispatching[e].nr
      BY <1>3, HandIs, DeliveryIs
    <2>2. dispatching[d].nr # 0
      BY <1>2, <1>3
    <2> QED
      BY <2>1, <2>2 DEF NumbersOK
  <1> QED
    BY <1>1, <1>2, <1>3 DEF Elsewhere

(* A step of one dispatch leaves the others what they have. *)
LEMMA ElsewhereKept ==
  ASSUME NEW d \in Dispatchers, \A e \in Dispatchers \ {d} : dispatching'[e] = dispatching[e]
  PROVE  /\ Elsewhere(d)' = Elsewhere(d)
         /\ \A e \in Dispatchers \ {d} : TodoApart(e)' = TodoApart(e) /\ InHand(e)' = InHand(e)
         /\ Hands' = InHand(d)' \cup Elsewhere(d)
  <1>1. \A e \in Dispatchers \ {d} : TodoApart(e)' = TodoApart(e) /\ InHand(e)' = InHand(e)
    BY DEF TodoApart, InHand
  <1>2. Elsewhere(d)' = Elsewhere(d)
    BY <1>1 DEF Elsewhere
  <1>3. Hands' = InHand(d)' \cup Elsewhere(d)'
    BY DEF Hands, Elsewhere
  <1> QED
    BY <1>1, <1>2, <1>3

(* A step that begins no delivery and no walk of a list keeps AppendFresh. *)
LEMMA FreshKept ==
  ASSUME AppendFresh, admin' = admin, owed' = owed,
         \A e \in Dispatchers : dispatching'[e].live =>
           /\ dispatching[e].live /\ dispatching'[e].nr = dispatching[e].nr
           /\ dispatching'[e].server = dispatching[e].server
  PROVE  AppendFresh'
  <1>1. ASSUME NEW a \in HookAdmins, NEW e \in Dispatchers, admin'[a].stage = "append",
               dispatching'[e].live, dispatching'[e].server = admin'[a].server
        PROVE  Delivery(admin'[a].hook.id, dispatching'[e].nr) \notin owed'
    <2>1. /\ dispatching[e].live /\ dispatching'[e].nr = dispatching[e].nr
          /\ dispatching[e].server = admin[a].server /\ admin[a].stage = "append"
      BY <1>1
    <2>2. Delivery(admin[a].hook.id, dispatching[e].nr) \notin owed
      BY <2>1 DEF AppendFresh
    <2> QED
      BY <2>1, <2>2
  <1> QED
    BY <1>1 DEF AppendFresh

(* A post takes a delivery from the hand; it is confirmed, or failed and     *)
(* still in hand.                                                            *)
LEMMA PostHookStep ==
  ASSUME DeliveryInv, NEW d \in Dispatchers, NEW success \in BOOLEAN, Post(d, success)
  PROVE  DeliveryInv'
  <1> DEFINE run == dispatching[d]
             h == Head(run.todo)
             one == Delivery(h, run.nr)
             Rest == {Delivery(x, run.nr) : x \in Range(Tail(run.todo))}
             c == [run EXCEPT !.todo = Tail(run.todo),
                              !.failed = IF success THEN << >> ELSE <<h>>]
  <1>1. /\ run.todo # << >> /\ run.failed = << >>
        /\ dispatching' = [dispatching EXCEPT ![d].todo = Tail(run.todo),
                             ![d].failed = IF success THEN << >> ELSE <<h>>]
        /\ confirmed' = (IF success THEN confirmed \cup {one} ELSE confirmed)
        /\ repeated' = (IF one \in confirmed THEN repeated \cup {one} ELSE repeated)
        /\ UNCHANGED <<admin, clashes, queueFile, retrying, hookBudget, owed, excusable, overlapped>>
    BY DEF Post, hookVars
  <1>2. /\ DeliveryTypes /\ NumbersOK /\ AllOwed /\ NoneLost /\ OnceInv
        /\ dispatching \in [Dispatchers -> DispatchRuns]
    BY DEF DeliveryInv, DeliveryTypes
  <1>3. /\ run \in DispatchRuns /\ run.todo \in Seq(HookIds)
        /\ InHand(d) = {Delivery(x, run.nr) : x \in Range(run.todo) \cup Range(run.failed)}
    BY <1>2, HandIs
  <1>4. /\ Tail(run.todo) \in Seq(HookIds) /\ h \in HookIds
        /\ Range(run.todo) = {h} \cup Range(Tail(run.todo))
        /\ IsInjective(run.todo) => IsInjective(Tail(run.todo)) /\ h \notin Range(Tail(run.todo))
    <2>1. run.todo \in Seq(HookIds) /\ run.todo # << >>
      BY <1>1, <1>3
    <2> HIDE DEF run
    <2> QED
      BY <2>1, RangeTail
  <1>5. InHand(d) = {one} \cup Rest
    BY <1>1, <1>3, <1>4, EmptyLists
  <1>6. /\ <<h>> \in Seq(HookIds) /\ << >> \in Seq(HookIds) /\ Range(<<h>>) = {h} /\ IsInjective(<<h>>)
    BY <1>4, SingleIs
  <1>7. /\ c \in DispatchRuns /\ c.nr = run.nr /\ c.server = run.server /\ c.live = run.live
        /\ c.todo = Tail(run.todo) /\ c.failed = (IF success THEN << >> ELSE <<h>>)
    BY <1>3, <1>4, <1>6 DEF DispatchRuns
  <1>8. dispatching' = [dispatching EXCEPT ![d] = c]
    BY <1>1, <1>2
  <1> HIDE DEF c
  <1>9. dispatching'[d] = c /\ \A e \in Dispatchers \ {d} : dispatching'[e] = dispatching[e]
    BY <1>2, <1>8
  <1>10. one \in Deliveries
    BY <1>3, <1>4 DEF Deliveries, Delivery, DispatchRuns
  <1>11. DeliveryTypes'
    <2>1. dispatching' \in [Dispatchers -> DispatchRuns]
      BY <1>2, <1>7, <1>8
    <2>2. confirmed' \in SUBSET Deliveries /\ repeated' \in SUBSET Deliveries
      BY <1>1, <1>2, <1>10 DEF DeliveryTypes
    <2> QED
      BY <1>1, <1>2, <2>1, <2>2 DEF DeliveryTypes
  <1>12. InHand(d)' = Rest \cup (IF success THEN {} ELSE {one})
    <2>1. InHand(d)' = {Delivery(x, c.nr) : x \in Range(c.todo \o c.failed)}
      BY <1>9 DEF InHand
    <2>2. Range(c.failed) = IF success THEN {} ELSE {h}
      BY <1>6, <1>7, EmptyLists
    <2>3. Range(c.todo \o c.failed) = Range(c.todo) \cup Range(c.failed)
      <3>1. c.todo \in Seq(HookIds) /\ c.failed \in Seq(HookIds)
        BY <1>7 DEF DispatchRuns
      <3> QED
        BY <3>1, RangeConcat
    <2> QED
      BY <1>7, <2>1, <2>2, <2>3
  <1> HIDE DEF one, Rest
  <1>13. /\ Hands' = InHand(d)' \cup Elsewhere(d) /\ Hands = InHand(d) \cup Elsewhere(d)
         /\ InHand(d) \cap Elsewhere(d) = {}
    BY <1>2, <1>9, ElsewhereIs, ElsewhereKept
  <1>14. Hands' \subseteq Hands /\ Hands \subseteq Hands' \cup confirmed' /\ one \in Hands
         /\ confirmed \subseteq confirmed' /\ confirmed' \subseteq confirmed \cup {one}
    BY <1>1, <1>5, <1>12, <1>13
  <1>15. NumbersOK'
    <2>1. \A e \in Dispatchers : dispatching'[e].nr = dispatching[e].nr
      BY <1>7, <1>9
    <2>2. dispatching[d].nr # 0
      BY <1>1, <1>2 DEF NumbersOK
    <2> QED
      BY <1>1, <1>2, <1>9, <2>1, <2>2 DEF NumbersOK
  <1>16. /\ \A r : Behind(r)' = Behind(r)
         /\ BusyRetriers' = BusyRetriers /\ Writing' = Writing /\ Queued' = Queued
    BY <1>1 DEF Behind, BusyRetriers, Writing, Queued
  <1>17. AllOwed'
    BY <1>1, <1>2, <1>14, <1>16 DEF AllOwed
  <1>18. NoneLost'
    BY <1>1, <1>2, <1>14, <1>16 DEF NoneLost
  <1>19. ASSUME ~overlapped', ~clashes'
         PROVE  /\ \A e \in Dispatchers : TodoApart(e)'
                /\ Hands' \cap confirmed' = {}
                /\ \A q, r \in BusyRetriers' : q = r
                /\ BusyRetriers' = {} => InLine(queueFile.entries)'
                /\ \A r \in BusyRetriers' : BatchInLine(r)'
                /\ AppendFresh'
                /\ repeated' = {}
    <2>1. /\ \A e \in Dispatchers : TodoApart(e)
          /\ Hands \cap confirmed = {}
          /\ \A q, r \in BusyRetriers : q = r
          /\ BusyRetriers = {} => InLine(queueFile.entries)
          /\ \A r \in BusyRetriers : BatchInLine(r)
          /\ AppendFresh
          /\ repeated = {}
      BY <1>1, <1>2, <1>19 DEF OnceInv
    <2>2. IsInjective(run.todo)
      BY <2>1 DEF TodoApart
    <2>3. TodoApart(d)'
      BY <1>4, <1>6, <1>7, <1>9, <2>2, EmptyLists DEF TodoApart
    <2>4. \A e \in Dispatchers : TodoApart(e)'
      BY <1>9, <2>1, <2>3, ElsewhereKept
    <2>5. one \notin Rest
      BY <1>4, <2>2, DeliveryIs DEF one, Rest
    <2>6. Hands' \cap confirmed' = {}
      <3>1. CASE success
        BY <1>1, <1>5, <1>12, <1>13, <2>1, <2>5, <3>1
      <3>2. CASE ~success
        BY <1>1, <1>14, <2>1, <3>2
      <3> QED
        BY <3>1, <3>2
    <2>7. \A list : InLine(list) => InLine(list)'
      BY <1>14 DEF InLine
    <2>8. \A r : BatchInLine(r) => BatchInLine(r)'
      BY <1>1, <2>7 DEF BatchInLine
    <2>9. AppendFresh'
      <3>1. \A e \in Dispatchers : /\ dispatching'[e].nr = dispatching[e].nr
                                   /\ dispatching'[e].live = dispatching[e].live
                                   /\ dispatching'[e].server = dispatching[e].server
        BY <1>7, <1>9
      <3> QED
        BY <1>1, <2>1, <3>1, FreshKept
    <2>10. repeated' = {}
      BY <1>1, <1>14, <2>1
    <2> QED
      BY <1>1, <1>16, <2>1, <2>4, <2>6, <2>7, <2>8, <2>9, <2>10
  <1> QED
    BY <1>11, <1>15, <1>17, <1>18, <1>19 DEF DeliveryInv, OnceInv

(* A failed delivery goes from the hand to the queue; where a retry runs it  *)
(* is excused.                                                               *)
LEMMA QueueDeliveryStep ==
  ASSUME DeliveryInv, NEW d \in Dispatchers, QueueDelivery(d)
  PROVE  DeliveryInv'
  <1> DEFINE run == dispatching[d]
             lines == [n \in DOMAIN run.failed |->
                         [hook |-> run.failed[n], nr |-> run.nr, attempts |-> 0]]
             New == {Delivery(x, run.nr) : x \in Range(run.failed)}
             Rest == {Delivery(x, run.nr) : x \in Range(run.todo)}
             c == [run EXCEPT !.failed = << >>]
             q == queueFile.entries \o lines
  <1>1. /\ run.failed # << >>
        /\ queueFile' = [queueFile EXCEPT !.entries = q]
        /\ dispatching' = [dispatching EXCEPT ![d].failed = << >>]
        /\ excusable' = (IF BusyRetriers = {} THEN excusable
                         ELSE IF Writing = {} THEN excusable \cup New ELSE owed)
        /\ UNCHANGED <<admin, clashes, retrying, hookBudget, owed, confirmed, repeated, overlapped>>
    BY DEF QueueDelivery, hookVars
  <1>2. /\ DeliveryTypes /\ NumbersOK /\ AllOwed /\ NoneLost /\ OnceInv
        /\ dispatching \in [Dispatchers -> DispatchRuns]
        /\ queueFile \in [whole : BOOLEAN, entries : Seq(QueueEntries)]
    BY DEF DeliveryInv, DeliveryTypes
  <1>3. /\ run \in DispatchRuns /\ run.todo \in Seq(HookIds) /\ run.failed \in Seq(HookIds)
        /\ run.nr \in Nat
        /\ InHand(d) = {Delivery(x, run.nr) : x \in Range(run.todo) \cup Range(run.failed)}
    BY <1>2, HandIs
  <1>4. InHand(d) = Rest \cup New
    BY <1>3
  <1>5. /\ c \in DispatchRuns /\ c.nr = run.nr /\ c.server = run.server /\ c.live = run.live
        /\ c.todo = run.todo /\ c.failed = << >>
    <2>1. << >> \in Seq(HookIds)
      OBVIOUS
    <2> QED
      BY <1>3, <2>1 DEF DispatchRuns
  <1>6. dispatching' = [dispatching EXCEPT ![d] = c]
    BY <1>1, <1>2
  <1> HIDE DEF c
  <1>7. dispatching'[d] = c /\ \A e \in Dispatchers \ {d} : dispatching'[e] = dispatching[e]
    BY <1>2, <1>6
  <1>8. /\ lines \in Seq(QueueEntries) /\ DOMAIN lines = DOMAIN run.failed
        /\ \A n \in DOMAIN lines : lines[n].hook = run.failed[n] /\ lines[n].nr = run.nr
    <2>1. Len(run.failed) \in Nat /\ DOMAIN run.failed = 1 .. Len(run.failed)
      BY <1>3
    <2>2. \A n \in DOMAIN run.failed : run.failed[n] \in HookIds
      BY <1>3, ElementOfSeq, <2>1
    <2>3. \A n \in DOMAIN run.failed : lines[n] \in QueueEntries
      BY <1>3, <2>2 DEF QueueEntries
    <2>4. lines \in [1 .. Len(run.failed) -> QueueEntries]
      BY <2>1, <2>3
    <2> QED
      BY <2>1, <2>4, SeqDef
  <1> HIDE DEF lines
  <1>9. Pairs(lines) = New
    BY <1>8 DEF Pairs, PairOf, Range
  <1>10. /\ q \in Seq(QueueEntries) /\ Pairs(q) = Queued \cup New
         /\ PairsApart(queueFile.entries) /\ PairsApart(lines)
              /\ Pairs(queueFile.entries) \cap New = {} => PairsApart(q)
    <2>1. queueFile.entries \in Seq(QueueEntries)
      BY <1>2
    <2> QED
      BY <1>8, <1>9, <2>1, PairsConcat, QueuedIs
  <1> HIDE DEF q
  <1>11. queueFile'.entries = q /\ queueFile' \in [whole : BOOLEAN, entries : Seq(QueueEntries)]
    BY <1>1, <1>2, <1>10
  <1>12. InHand(d)' = Rest
    <2>1. InHand(d)' = {Delivery(x, c.nr) : x \in Range(c.todo \o c.failed)}
      BY <1>7 DEF InHand
    <2>2. Range(c.todo \o c.failed) = Range(c.todo) \cup Range(c.failed)
      <3>1. c.todo \in Seq(HookIds) /\ c.failed \in Seq(HookIds)
        BY <1>5 DEF DispatchRuns
      <3> QED
        BY <3>1, RangeConcat
    <2> QED
      BY <1>5, <2>1, <2>2, EmptyLists
  <1> HIDE DEF Rest, New
  <1>13. /\ Hands' = InHand(d)' \cup Elsewhere(d) /\ Hands = InHand(d) \cup Elsewhere(d)
         /\ InHand(d) \cap Elsewhere(d) = {}
    BY <1>2, <1>7, ElsewhereIs, ElsewhereKept
  <1>14. Hands' \subseteq Hands /\ Hands \subseteq Hands' \cup New /\ New \subseteq Hands
    BY <1>4, <1>12, <1>13
  <1>15. New \subseteq owed /\ owed \in SUBSET Deliveries
    BY <1>2, <1>14 DEF AllOwed, DeliveryTypes
  <1>16. DeliveryTypes'
    <2>1. dispatching' \in [Dispatchers -> DispatchRuns]
      BY <1>2, <1>5, <1>6
    <2>2. excusable' \in SUBSET Deliveries
      BY <1>1, <1>2, <1>15 DEF DeliveryTypes
    <2> QED
      BY <1>1, <1>2, <1>11, <2>1, <2>2 DEF DeliveryTypes
  <1>17. NumbersOK'
    <2>1. \A e \in Dispatchers : dispatching'[e].nr = dispatching[e].nr
      BY <1>5, <1>7
    <2>2. dispatching[d].nr # 0
      BY <1>1, <1>2 DEF NumbersOK
    <2> QED
      BY <1>1, <1>2, <1>7, <2>1, <2>2 DEF NumbersOK
  <1>18. /\ \A r : Behind(r)' = Behind(r)
         /\ BusyRetriers' = BusyRetriers /\ Writing' = Writing /\ Writing \subseteq BusyRetriers
         /\ Queued' = Queued \cup New
    <2>1. Queued' = Pairs(q)
      BY <1>11 DEF Queued, Pairs, PairOf
    <2> QED
      BY <1>1, <1>10, <2>1 DEF Behind, BusyRetriers, Writing
  <1>19. AllOwed'
    BY <1>1, <1>2, <1>14, <1>15, <1>18 DEF AllOwed
  <1>20. NoneLost'
    <2>1. CASE BusyRetriers = {}
      BY <1>1, <1>2, <1>14, <1>18, <2>1 DEF NoneLost
    <2>2. CASE BusyRetriers # {} /\ Writing = {}
      BY <1>1, <1>2, <1>14, <1>18, <2>2 DEF NoneLost
    <2>3. CASE BusyRetriers # {} /\ Writing # {}
      BY <1>1, <1>18, <2>3 DEF NoneLost
    <2> QED
      BY <2>1, <2>2, <2>3
  <1>21. ASSUME ~overlapped', ~clashes'
         PROVE  /\ \A e \in Dispatchers : TodoApart(e)'
                /\ Hands' \cap confirmed' = {}
                /\ \A x, r \in BusyRetriers' : x = r
                /\ BusyRetriers' = {} => InLine(queueFile.entries)'
                /\ \A r \in BusyRetriers' : BatchInLine(r)'
                /\ AppendFresh'
                /\ repeated' = {}
    <2>1. /\ \A e \in Dispatchers : TodoApart(e)
          /\ Hands \cap confirmed = {}
          /\ \A x, r \in BusyRetriers : x = r
          /\ BusyRetriers = {} => InLine(queueFile.entries)
          /\ \A r \in BusyRetriers : BatchInLine(r)
          /\ AppendFresh
          /\ repeated = {}
      BY <1>1, <1>2, <1>21 DEF OnceInv
    <2>2. /\ IsInjective(run.todo) /\ IsInjective(run.failed)
          /\ Range(run.todo) \cap Range(run.failed) = {}
      BY <2>1 DEF TodoApart
    <2>3. TodoApart(d)'
      BY <1>5, <1>7, <2>2, EmptyLists DEF TodoApart
    <2>4. \A e \in Dispatchers : TodoApart(e)'
      BY <1>7, <2>1, <2>3, ElsewhereKept
    <2>5. Rest \cap New = {}
      BY <2>2, DeliveryIs DEF Rest, New
    <2>6. New \cap Hands' = {}
      BY <1>4, <1>12, <1>13, <2>5
    <2>7. \A list : InLine(list) => InLine(list)'
      BY <1>1, <1>14 DEF InLine
    <2>8. \A r : BatchInLine(r) => BatchInLine(r)'
      BY <1>1, <2>7 DEF BatchInLine
    <2>9. AppendFresh'
      <3>1. \A e \in Dispatchers : /\ dispatching'[e].nr = dispatching[e].nr
                                   /\ dispatching'[e].live = dispatching[e].live
                                   /\ dispatching'[e].server = dispatching[e].server
        BY <1>5, <1>7
      <3> QED
        BY <1>1, <2>1, <3>1, FreshKept
    <2>10. ASSUME BusyRetriers = {} PROVE InLine(queueFile.entries)'
      <3>1. /\ PairsApart(queueFile.entries) /\ Pairs(queueFile.entries) \cap confirmed = {}
            /\ Pairs(queueFile.entries) \cap Hands = {}
        BY <2>1, <2>10 DEF InLine
      <3>2. PairsApart(lines)
        BY <1>8, <2>2, DeliveryIs DEF PairsApart, PairOf, IsInjective
      <3>3. PairsApart(q)
        BY <1>10, <1>14, <3>1, <3>2
      <3>4. Pairs(q) \cap confirmed = {} /\ Pairs(q) \cap Hands' = {}
        BY <1>10, <1>14, <2>1, <2>6, <3>1, QueuedIs
      <3> QED
        BY <1>1, <1>11, <3>3, <3>4 DEF InLine
    <2> QED
      BY <1>1, <1>11, <1>14, <1>18, <2>1, <2>4, <2>8, <2>9, <2>10
  <1> QED
    BY <1>16, <1>17, <1>19, <1>20, <1>21 DEF DeliveryInv, OnceInv

(* A dispatch that ends has nothing in hand. *)
LEMMA EndDispatchStep ==
  ASSUME DeliveryInv, NEW d \in Dispatchers, EndDispatch(d)
  PROVE  DeliveryInv'
  <1>1. /\ dispatching[d].nr # 0 /\ dispatching[d].todo = << >> /\ dispatching[d].failed = << >>
        /\ dispatching' = [dispatching EXCEPT ![d] = IdleDispatch]
        /\ UNCHANGED <<admin, clashes, queueFile, retrying, hookBudget, owed, confirmed, excusable,
                       repeated, overlapped>>
    BY DEF EndDispatch, hookVars
  <1>2. /\ DeliveryTypes /\ NumbersOK /\ AllOwed /\ NoneLost /\ OnceInv
        /\ dispatching \in [Dispatchers -> DispatchRuns]
    BY DEF DeliveryInv, DeliveryTypes
  <1>3. /\ dispatching'[d] = IdleDispatch
        /\ \A e \in Dispatchers \ {d} : dispatching'[e] = dispatching[e]
    BY <1>1, <1>2
  <1>4. /\ IdleDispatch.nr = 0 /\ IdleDispatch.todo = << >> /\ IdleDispatch.failed = << >>
        /\ ~IdleDispatch.live
    BY DEF IdleDispatch
  <1>5. DeliveryTypes'
    BY <1>1, <1>2, IdleTyped DEF DeliveryTypes
  <1>6. InHand(d) = {}
    BY <1>1, <1>2, HandIs, EmptyLists
  <1>7. InHand(d)' = {}
    <2>1. Range(<< >> \o << >>) = {}
      BY EmptyLists
    <2> QED
      BY <1>3, <1>4, <2>1 DEF InHand
  <1>8. Hands' = Hands
    <2>1. Hands = InHand(d) \cup Elsewhere(d)
      BY <1>2, ElsewhereIs
    <2>2. Hands' = InHand(d)' \cup Elsewhere(d)
      BY <1>3, ElsewhereKept
    <2> QED
      BY <1>6, <1>7, <2>1, <2>2
  <1>9. NumbersOK'
    BY <1>1, <1>2, <1>3, <1>4 DEF NumbersOK
  <1>10. /\ \A r : Behind(r)' = Behind(r)
         /\ BusyRetriers' = BusyRetriers /\ Writing' = Writing /\ Queued' = Queued
    BY <1>1 DEF Behind, BusyRetriers, Writing, Queued
  <1>11. AllOwed' /\ NoneLost'
    BY <1>1, <1>2, <1>8, <1>10 DEF AllOwed, NoneLost
  <1>12. (\A list : InLine(list)' = InLine(list)) /\ \A r : BatchInLine(r)' = BatchInLine(r)
    BY <1>1, <1>8 DEF InLine, BatchInLine
  <1>13. TodoApart(d)'
    BY <1>3, <1>4, EmptyLists DEF TodoApart
  <1>14. AppendFresh => AppendFresh'
    BY <1>1, <1>3, <1>4, FreshKept
  <1>15. OnceInv'
    BY <1>1, <1>2, <1>3, <1>8, <1>10, <1>12, <1>13, <1>14, ElsewhereKept DEF OnceInv
  <1> QED
    BY <1>5, <1>9, <1>11, <1>15 DEF DeliveryInv

(* The hooks of a list that ask for an event: each once, if the list has     *)
(* each once.                                                                *)
LEMMA MatchingIs ==
  ASSUME NEW list \in Seq(Hooks), NEW type
  PROVE  LET matching == Sifted(list, {h \in Range(list) : type \in h.events})
             ids == [n \in DOMAIN matching |-> matching[n].id] IN
         /\ matching \in Seq(Hooks) /\ Range(matching) \subseteq Range(list)
         /\ ids \in Seq(HookIds) /\ Range(ids) = {h.id : h \in Range(matching)}
         /\ IdsApart(list) => IsInjective(ids)
  <1> DEFINE m == Sifted(list, {h \in Range(list) : type \in h.events})
             ids == [n \in DOMAIN m |-> m[n].id]
  <1>1. /\ m \in Seq(Hooks) /\ Range(m) \subseteq Range(list)
        /\ IdsApart(list) => IdsApart(m)
    BY SiftApart
  <1> HIDE DEF m
  <1>2. Len(m) \in Nat /\ DOMAIN m = 1 .. Len(m)
    BY <1>1
  <1>3. \A n \in DOMAIN m : m[n] \in Hooks
    BY <1>1, <1>2, ElementOfSeq
  <1>4. \A n \in DOMAIN m : m[n].id \in HookIds
    BY <1>3 DEF Hooks
  <1>5. ids \in [1 .. Len(m) -> HookIds]
    BY <1>2, <1>4
  <1>6. ids \in Seq(HookIds)
    BY <1>2, <1>5, SeqDef
  <1>7. Range(ids) = {h.id : h \in Range(m)}
    BY DEF Range
  <1>8. IdsApart(m) => IsInjective(ids)
    BY DEF IdsApart, IsInjective
  <1> QED
    BY <1>1, <1>6, <1>7, <1>8 DEF m

(* A dispatch begins deliveries with a number no other has, and has them all *)
(* in hand.                                                                  *)
LEMMA DispatchStep ==
  ASSUME HookInv, DeliveryInv, NEW d \in Dispatchers, NEW s \in Servers, NEW type \in EventTypes,
         Dispatch(d, s, type)
  PROVE  DeliveryInv'
  <1> DEFINE nr == hookBudget.events
             matching == Sifted(registry[s], {h \in Range(registry[s]) : type \in h.events})
             ids == [n \in DOMAIN matching |-> matching[n].id]
             New == {Delivery(h.id, nr) : h \in Range(matching)}
             c == [nr |-> nr, server |-> s, type |-> type, live |-> TRUE, todo |-> ids,
                   failed |-> << >>]
  <1>1. /\ dispatching[d].nr = 0 /\ nr > 0
        /\ hookBudget' = [hookBudget EXCEPT !.events = @ - 1]
        /\ dispatching' = [dispatching EXCEPT ![d] = c]
        /\ owed' = owed \cup New
        /\ UNCHANGED <<admin, registry, clashes, queueFile, retrying, confirmed, excusable,
                       repeated, overlapped>>
    BY DEF Dispatch, hookVars
  <1>2. /\ DeliveryTypes /\ NumbersOK /\ AllOwed /\ NoneLost /\ OnceInv
        /\ dispatching \in [Dispatchers -> DispatchRuns]
        /\ hookBudget \in [workers : Nat, changes : Nat, events : Nat, retries : Nat, kills : Nat]
        /\ registry[s] \in Seq(Hooks)
    BY DEF DeliveryInv, DeliveryTypes, HookInv, HookTypes
  <1>3. /\ matching \in Seq(Hooks) /\ Range(matching) \subseteq Range(registry[s])
        /\ ids \in Seq(HookIds) /\ Range(ids) = {h.id : h \in Range(matching)}
        /\ IdsApart(registry[s]) => IsInjective(ids)
    BY <1>2, MatchingIs
  <1> HIDE DEF matching, ids
  <1>4. nr \in Nat /\ << >> \in Seq(HookIds)
    BY <1>2
  <1>5. /\ c \in DispatchRuns /\ c.nr = nr /\ c.server = s /\ c.live = TRUE
        /\ c.todo = ids /\ c.failed = << >>
    BY <1>3, <1>4 DEF DispatchRuns
  <1>6. /\ hookBudget' \in [workers : Nat, changes : Nat, events : Nat, retries : Nat, kills : Nat]
        /\ hookBudget'.events = nr - 1
    BY <1>1, <1>2
  <1> HIDE DEF c
  <1>7. dispatching'[d] = c /\ \A e \in Dispatchers \ {d} : dispatching'[e] = dispatching[e]
    BY <1>1, <1>2
  <1>8. New = {Delivery(x, nr) : x \in Range(ids)}
    BY <1>3
  <1>9. New \subseteq Deliveries
    <2>1. \A x \in Range(ids) : x \in HookIds
      <3>1. Len(ids) \in Nat /\ DOMAIN ids = 1 .. Len(ids)
        BY <1>3
      <3> QED
        BY <1>3, <3>1, ElementOfSeq DEF Range
    <2> QED
      BY <1>4, <1>8, <2>1 DEF Delivery, Deliveries
  <1>10. DeliveryTypes'
    <2>1. dispatching' \in [Dispatchers -> DispatchRuns]
      BY <1>1, <1>2, <1>5
    <2>2. owed' \in SUBSET Deliveries
      BY <1>1, <1>2, <1>9 DEF DeliveryTypes
    <2> QED
      BY <1>1, <1>2, <1>6, <2>1, <2>2 DEF DeliveryTypes
  <1>11. InHand(d)' = New
    <2>1. InHand(d)' = {Delivery(x, c.nr) : x \in Range(c.todo \o c.failed)}
      BY <1>7 DEF InHand
    <2>2. Range(c.todo \o c.failed) = Range(c.todo) \cup Range(c.failed)
      <3>1. c.todo \in Seq(HookIds) /\ c.failed \in Seq(HookIds)
        BY <1>5 DEF DispatchRuns
      <3> QED
        BY <3>1, RangeConcat
    <2> QED
      BY <1>5, <1>8, <2>1, <2>2, EmptyLists
  <1>12. \A x \in New : x.nr = nr
    BY DeliveryIs
  <1>13. \A x \in owed : x.nr > nr /\ x.nr \in Nat
    BY <1>2 DEF NumbersOK, DeliveryTypes, Deliveries
  <1>14. New \cap owed = {}
    BY <1>4, <1>12, <1>13
  <1> HIDE DEF New
  <1>15. Hands' = Hands \cup New
    <2>1. InHand(d) = {}
      BY <1>1, <1>2, ElsewhereIs
    <2> QED
      BY <1>2, <1>7, <1>11, <2>1, ElsewhereIs, ElsewhereKept
  <1>16. \A e \in Dispatchers : dispatching[e].nr # 0 =>
           dispatching[e].nr \in Nat /\ dispatching[e].nr > nr
    BY <1>2, HandIs DEF NumbersOK
  <1>17. NumbersOK'
    <2>1. \A x \in owed' : x.nr > hookBudget'.events
      BY <1>1, <1>4, <1>6, <1>12, <1>13
    <2>2. ASSUME NEW e \in Dispatchers
          PROVE  /\ dispatching'[e].nr # 0 => dispatching'[e].nr > hookBudget'.events
                 /\ dispatching'[e].nr = 0 =>
                      /\ dispatching'[e].todo = << >> /\ dispatching'[e].failed = << >>
                      /\ ~dispatching'[e].live
      <3>1. CASE e = d
        BY <1>1, <1>4, <1>5, <1>6, <1>7, <3>1
      <3>2. CASE e # d
        BY <1>2, <1>4, <1>6, <1>7, <1>16, <3>2 DEF NumbersOK
      <3> QED
        BY <3>1, <3>2
    <2>3. ASSUME NEW e \in Dispatchers, NEW f \in Dispatchers,
                 dispatching'[e].nr = dispatching'[f].nr, dispatching'[e].nr # 0
          PROVE  e = f
      <3>1. CASE e # d /\ f # d
        BY <1>2, <1>7, <2>3, <3>1 DEF NumbersOK
      <3>2. CASE e = d /\ f # d
        BY <1>4, <1>5, <1>7, <1>16, <2>3, <3>2
      <3>3. CASE e # d /\ f = d
        BY <1>4, <1>5, <1>7, <1>16, <2>3, <3>3
      <3> QED
        BY <3>1, <3>2, <3>3
    <2> QED
      BY <2>1, <2>2, <2>3 DEF NumbersOK
  <1>18. /\ \A r : Behind(r)' = Behind(r)
         /\ BusyRetriers' = BusyRetriers /\ Writing' = Writing /\ Queued' = Queued
    BY <1>1 DEF Behind, BusyRetriers, Writing, Queued
  <1>19. AllOwed'
    BY <1>1, <1>2, <1>15, <1>18 DEF AllOwed
  <1>20. NoneLost'
    BY <1>1, <1>2, <1>15, <1>18 DEF NoneLost
  <1>21. ASSUME ~overlapped', ~clashes'
         PROVE  /\ \A e \in Dispatchers : TodoApart(e)'
                /\ Hands' \cap confirmed' = {}
                /\ \A q, r \in BusyRetriers' : q = r
                /\ BusyRetriers' = {} => InLine(queueFile.entries)'
                /\ \A r \in BusyRetriers' : BatchInLine(r)'
                /\ AppendFresh'
                /\ repeated' = {}
    <2>1. /\ \A e \in Dispatchers : TodoApart(e)
          /\ Hands \cap confirmed = {}
          /\ \A q, r \in BusyRetriers : q = r
          /\ BusyRetriers = {} => InLine(queueFile.entries)
          /\ \A r \in BusyRetriers : BatchInLine(r)
          /\ AppendFresh
          /\ repeated = {}
      BY <1>1, <1>2, <1>21 DEF OnceInv
    <2>2. ~clashes /\ RegistryInv /\ HookTypes
      BY <1>1, <1>21 DEF HookInv
    <2>3. TodoApart(d)'
      <3>1. IsInjective(ids)
        BY <1>3, <2>2 DEF RegistryInv
      <3> QED
        BY <1>5, <1>7, <3>1, EmptyLists DEF TodoApart
    <2>4. \A e \in Dispatchers : TodoApart(e)'
      BY <1>7, <2>1, <2>3, ElsewhereKept
    <2>5. Hands' \cap confirmed' = {}
      BY <1>1, <1>2, <1>14, <1>15, <2>1 DEF AllOwed
    <2>6. \A list : InLine(list) /\ Pairs(list) \subseteq owed => InLine(list)'
      BY <1>1, <1>14, <1>15 DEF InLine
    <2>7. BusyRetriers' = {} => InLine(queueFile.entries)'
      BY <1>1, <1>2, <1>18, <2>1, <2>6, QueuedIs DEF AllOwed
    <2>8. ASSUME NEW r \in BusyRetriers' PROVE BatchInLine(r)'
      <3>1. r \in BusyRetriers /\ r \in Retriers
        BY <1>18, <2>8 DEF BusyRetriers
      <3>2. Pairs(retrying[r].kept) \subseteq owed /\ Pairs(retrying[r].todo) \subseteq owed
        BY <1>2, <3>1 DEF AllOwed, Behind
      <3>3. BatchInLine(r)
        BY <2>1, <3>1
      <3> QED
        BY <1>1, <2>6, <3>2, <3>3 DEF BatchInLine
    <2>9. AppendFresh'
      <3>1. SUFFICES ASSUME NEW a \in HookAdmins, NEW e \in Dispatchers, admin[a].stage = "append",
                            dispatching'[e].live, dispatching'[e].server = admin[a].server
                     PROVE  Delivery(admin[a].hook.id, dispatching'[e].nr) \notin owed \cup New
        BY <1>1 DEF AppendFresh
      <3>2. CASE e = d
        <4>1. admin[a].server = s /\ dispatching'[e].nr = nr
          BY <1>5, <1>7, <3>1, <3>2
        <4>2. Lists(registry[s], OtherHooks(a))
          BY <2>2, <3>1, <4>1 DEF RegistryInv, CallTrue
        <4>3. \A h \in Range(matching) : h.id # admin[a].hook.id
          BY <1>3, <4>2 DEF Lists, OtherHooks
        <4>4. Delivery(admin[a].hook.id, nr) \notin New
          BY <4>3, DeliveryIs DEF New
        <4>5. Delivery(admin[a].hook.id, nr) \notin owed
          BY <1>4, <1>13, DeliveryIs
        <4> QED
          BY <4>1, <4>4, <4>5
      <3>3. CASE e # d
        <4>1. dispatching'[e] = dispatching[e] /\ dispatching[e].nr # 0
          BY <1>2, <1>7, <3>1, <3>3 DEF NumbersOK
        <4>2. Delivery(admin[a].hook.id, dispatching[e].nr) \notin owed
          BY <2>1, <3>1, <4>1 DEF AppendFresh
        <4>3. Delivery(admin[a].hook.id, dispatching[e].nr) \notin New
          BY <1>4, <1>12, <1>16, <4>1, DeliveryIs
        <4> QED
          BY <4>1, <4>2, <4>3
      <3> QED
        BY <3>2, <3>3
    <2> QED
      BY <1>1, <1>18, <2>1, <2>4, <2>5, <2>7, <2>8, <2>9
  <1> QED
    BY <1>10, <1>17, <1>19, <1>20, <1>21 DEF DeliveryInv, OnceInv

(* A list that is replaced is walked to its end, and no new hook will be met *)
(* there.                                                                    *)
LEMMA AssignDeliveries ==
  ASSUME HookInv, DeliveryInv, NEW a \in HookAdmins, AssignRegistry(a)
  PROVE  DeliveryInv'
  <1> DEFINE s == admin[a].server
             Cut(d) == IF dispatching[d].server = s
                       THEN [dispatching[d] EXCEPT !.live = FALSE] ELSE dispatching[d]
  <1>1. /\ admin[a].stage = "assign"
        /\ admin' = [admin EXCEPT ![a].stage = IF admin[a].register THEN "append" ELSE "truncate"]
        /\ dispatching' = [d \in Dispatchers |-> Cut(d)]
        /\ UNCHANGED <<clashes, queueFile, retrying, hookBudget, owed, confirmed, excusable,
                       repeated, overlapped>>
    BY DEF AssignRegistry
  <1>2. /\ DeliveryTypes /\ NumbersOK /\ AllOwed /\ NoneLost /\ OnceInv
        /\ dispatching \in [Dispatchers -> DispatchRuns]
    BY DEF DeliveryInv, DeliveryTypes
  <1>3. \A b \in HookAdmins :
          /\ admin'[b].server = admin[b].server /\ admin'[b].hook = admin[b].hook
          /\ b # a => admin'[b] = admin[b]
    <2>1. admin \in [HookAdmins -> AdminCalls]
      BY DEF HookInv, HookTypes
    <2>2. admin[a] \in AdminCalls
      BY <2>1
    <2> QED
      BY <1>1, <2>1, <2>2 DEF AdminCalls
  <1>4. \A d \in Dispatchers :
          /\ Cut(d) \in DispatchRuns /\ Cut(d).nr = dispatching[d].nr
          /\ Cut(d).server = dispatching[d].server
          /\ Cut(d).todo = dispatching[d].todo /\ Cut(d).failed = dispatching[d].failed
          /\ Cut(d).live => dispatching[d].live /\ dispatching[d].server # s
    <2> TAKE d \in Dispatchers
    <2>1. dispatching[d] \in DispatchRuns
      BY <1>2
    <2> QED
      BY <2>1 DEF DispatchRuns
  <1> HIDE DEF Cut
  <1>5. \A d \in Dispatchers : dispatching'[d] = Cut(d)
    BY <1>1
  <1>6. DeliveryTypes'
    BY <1>1, <1>2, <1>4 DEF DeliveryTypes
  <1>7. \A d \in Dispatchers : InHand(d)' = InHand(d) /\ TodoApart(d)' = TodoApart(d)
    BY <1>4, <1>5 DEF InHand, TodoApart
  <1>8. Hands' = Hands
    BY <1>7 DEF Hands
  <1>9. NumbersOK'
    BY <1>1, <1>2, <1>4, <1>5 DEF NumbersOK
  <1>10. /\ \A r : Behind(r)' = Behind(r)
         /\ BusyRetriers' = BusyRetriers /\ Writing' = Writing /\ Queued' = Queued
    BY <1>1 DEF Behind, BusyRetriers, Writing, Queued
  <1>11. AllOwed' /\ NoneLost'
    BY <1>1, <1>2, <1>8, <1>10 DEF AllOwed, NoneLost
  <1>12. (\A list : InLine(list)' = InLine(list)) /\ \A r : BatchInLine(r)' = BatchInLine(r)
    BY <1>1, <1>8 DEF InLine, BatchInLine
  <1>13. AppendFresh => AppendFresh'
    <2> SUFFICES ASSUME AppendFresh, NEW b \in HookAdmins, NEW d \in Dispatchers,
                        admin'[b].stage = "append", dispatching'[d].live,
                        dispatching'[d].server = admin'[b].server
                 PROVE  Delivery(admin'[b].hook.id, dispatching'[d].nr) \notin owed'
      BY DEF AppendFresh
    <2>1. b # a /\ admin'[b] = admin[b]
      BY <1>3, <1>4, <1>5
    <2>2. /\ dispatching[d].live /\ dispatching[d].server = admin[b].server
          /\ dispatching'[d].nr = dispatching[d].nr
      BY <1>4, <1>5, <2>1
    <2>3. Delivery(admin[b].hook.id, dispatching[d].nr) \notin owed
      BY <2>1, <2>2 DEF AppendFresh
    <2> QED
      BY <1>1, <2>1, <2>2, <2>3
  <1>14. OnceInv'
    BY <1>1, <1>2, <1>7, <1>8, <1>10, <1>12, <1>13 DEF OnceInv
  <1> QED
    BY <1>6, <1>9, <1>11, <1>14 DEF DeliveryInv

(* A hook appended to a list that is walked is one more delivery in hand, a  *)
(* new one.                                                                  *)
LEMMA AppendDeliveries ==
  ASSUME HookInv, DeliveryInv, NEW a \in HookAdmins, AppendHook(a)
  PROVE  DeliveryInv'
  <1> DEFINE s == admin[a].server
             id == admin[a].hook.id
             Reached(d) == dispatching[d].live /\ dispatching[d].server = s
                           /\ dispatching[d].type \in admin[a].hook.events
             One(d) == Delivery(id, dispatching[d].nr)
             New == {One(d) : d \in {e \in Dispatchers : Reached(e)}}
             More(d) == IF Reached(d) THEN [dispatching[d] EXCEPT !.todo = Append(@, id)]
                        ELSE dispatching[d]
  <1>1. /\ admin[a].stage = "append"
        /\ admin' = [admin EXCEPT ![a].stage = "truncate"]
        /\ dispatching' = [d \in Dispatchers |-> More(d)]
        /\ owed' = owed \cup New
        /\ UNCHANGED <<clashes, queueFile, retrying, hookBudget, confirmed, excusable, repeated,
                       overlapped>>
    BY DEF AppendHook, Delivery
  <1>2. /\ DeliveryTypes /\ NumbersOK /\ AllOwed /\ NoneLost /\ OnceInv
        /\ dispatching \in [Dispatchers -> DispatchRuns]
        /\ admin \in [HookAdmins -> AdminCalls] /\ admin[a] \in AdminCalls
    BY DEF DeliveryInv, DeliveryTypes, HookInv, HookTypes
  <1>3. id \in HookIds
    BY <1>2 DEF AdminCalls
  <1>4. admin'[a].stage = "truncate" /\ \A b \in HookAdmins \ {a} : admin'[b] = admin[b]
    BY <1>1, <1>2 DEF AdminCalls
  <1>5. \A d \in Dispatchers :
          /\ dispatching[d] \in DispatchRuns /\ dispatching[d].todo \in Seq(HookIds)
          /\ dispatching[d].failed \in Seq(HookIds) /\ dispatching[d].nr \in Nat
          /\ InHand(d) = {Delivery(h, dispatching[d].nr) :
                            h \in Range(dispatching[d].todo) \cup Range(dispatching[d].failed)}
    BY <1>2, HandIs
  <1> HIDE DEF id, Reached
  <1>6. \A d \in Dispatchers :
          LET todo == dispatching[d].todo IN
          /\ Append(todo, id) \in Seq(HookIds)
          /\ Range(Append(todo, id)) = Range(todo) \cup {id}
          /\ IsInjective(todo) /\ id \notin Range(todo) => IsInjective(Append(todo, id))
    BY <1>3, <1>5, RangeAppend
  <1>7. \A d \in Dispatchers :
          /\ More(d) \in DispatchRuns /\ More(d).nr = dispatching[d].nr
          /\ More(d).server = dispatching[d].server /\ More(d).live = dispatching[d].live
          /\ More(d).failed = dispatching[d].failed
          /\ More(d).todo = IF Reached(d) THEN Append(dispatching[d].todo, id) ELSE dispatching[d].todo
    BY <1>5, <1>6 DEF DispatchRuns
  <1> HIDE DEF More
  <1>8. \A d \in Dispatchers : dispatching'[d] = More(d)
    BY <1>1
  <1>9. \A d \in Dispatchers : InHand(d)' = InHand(d) \cup (IF Reached(d) THEN {One(d)} ELSE {})
    <2> TAKE d \in Dispatchers
    <2>1. InHand(d)' = {Delivery(h, More(d).nr) : h \in Range(More(d).todo \o More(d).failed)}
      BY <1>8 DEF InHand
    <2>2. More(d).todo \in Seq(HookIds) /\ More(d).failed \in Seq(HookIds)
      BY <1>7 DEF DispatchRuns
    <2>3. Range(More(d).todo \o More(d).failed) = Range(More(d).todo) \cup Range(More(d).failed)
      BY <2>2, RangeConcat
    <2>4. CASE Reached(d)
      <3>1. Range(More(d).todo) = Range(dispatching[d].todo) \cup {id}
        BY <1>6, <1>7, <2>4
      <3>2. More(d).failed = dispatching[d].failed /\ More(d).nr = dispatching[d].nr
        BY <1>7
      <3>3. InHand(d)' = {Delivery(h, dispatching[d].nr) :
              h \in (Range(dispatching[d].todo) \cup {id}) \cup Range(dispatching[d].failed)}
        BY <2>1, <2>3, <3>1, <3>2
      <3>4. InHand(d) = {Delivery(h, dispatching[d].nr) :
              h \in Range(dispatching[d].todo) \cup Range(dispatching[d].failed)}
        BY <1>5
      <3> QED
        BY <2>4, <3>3, <3>4
    <2>5. CASE ~Reached(d)
      <3>1. /\ More(d).todo = dispatching[d].todo /\ More(d).failed = dispatching[d].failed
            /\ More(d).nr = dispatching[d].nr
        BY <1>7, <2>5
      <3>2. InHand(d) = {Delivery(h, dispatching[d].nr) :
              h \in Range(dispatching[d].todo) \cup Range(dispatching[d].failed)}
        BY <1>5
      <3> QED
        BY <2>1, <2>3, <2>5, <3>1, <3>2
    <2> QED
      BY <2>4, <2>5
  <1>10. Hands' = Hands \cup New
    <2> HIDE DEF One
    <2> QED
      BY <1>9 DEF Hands
  <1>11. \A d \in Dispatchers : Reached(d) => dispatching[d].nr > hookBudget.events
    BY <1>2 DEF NumbersOK, Reached
  <1>12. DeliveryTypes'
    <2>1. New \subseteq Deliveries
      BY <1>3, <1>5 DEF Delivery, Deliveries
    <2> HIDE DEF New
    <2>2. owed' \in SUBSET Deliveries
      BY <1>1, <1>2, <2>1 DEF DeliveryTypes
    <2> QED
      BY <1>1, <1>2, <1>7, <2>2 DEF DeliveryTypes
  <1>13. NumbersOK'
    <2>1. \A x \in New : x.nr > hookBudget.events
      BY <1>11, DeliveryIs
    <2> HIDE DEF New
    <2>2. \A x \in owed' : x.nr > hookBudget'.events
      BY <1>1, <1>2, <2>1 DEF NumbersOK
    <2>3. \A d \in Dispatchers : dispatching[d].nr = 0 => ~Reached(d)
      BY <1>2 DEF NumbersOK, Reached
    <2> QED
      BY <1>1, <1>2, <1>7, <1>8, <2>2, <2>3 DEF NumbersOK
  <1>14. /\ \A r : Behind(r)' = Behind(r)
         /\ BusyRetriers' = BusyRetriers /\ Writing' = Writing /\ Queued' = Queued
    BY <1>1 DEF Behind, BusyRetriers, Writing, Queued
  <1> HIDE DEF New
  <1>15. AllOwed'
    BY <1>1, <1>2, <1>10, <1>14 DEF AllOwed
  <1>16. NoneLost'
    BY <1>1, <1>2, <1>10, <1>14 DEF NoneLost
  <1>17. ASSUME ~overlapped', ~clashes'
         PROVE  /\ \A e \in Dispatchers : TodoApart(e)'
                /\ Hands' \cap confirmed' = {}
                /\ \A q, r \in BusyRetriers' : q = r
                /\ BusyRetriers' = {} => InLine(queueFile.entries)'
                /\ \A r \in BusyRetriers' : BatchInLine(r)'
                /\ AppendFresh'
                /\ repeated' = {}
    <2>1. /\ \A e \in Dispatchers : TodoApart(e)
          /\ Hands \cap confirmed = {}
          /\ \A q, r \in BusyRetriers : q = r
          /\ BusyRetriers = {} => InLine(queueFile.entries)
          /\ \A r \in BusyRetriers : BatchInLine(r)
          /\ AppendFresh
          /\ repeated = {}
      BY <1>1, <1>2, <1>17 DEF OnceInv
    <2>2. New \cap owed = {}
      BY <1>1, <2>1 DEF AppendFresh, New, Reached, id
    <2>3. \A e \in Dispatchers : TodoApart(e)'
      <3> TAKE e \in Dispatchers
      <3>1. CASE Reached(e)
        <4>1. One(e) \notin InHand(e)
          BY <1>2, <2>2, <3>1 DEF New, AllOwed, Hands
        <4>2. id \notin Range(dispatching[e].todo) \cup Range(dispatching[e].failed)
          BY <1>5, <4>1
        <4> QED
          BY <1>6, <1>7, <1>8, <2>1, <3>1, <4>2 DEF TodoApart
      <3>2. CASE ~Reached(e)
        BY <1>7, <1>8, <2>1, <3>2 DEF TodoApart
      <3> QED
        BY <3>1, <3>2
    <2>4. Hands' \cap confirmed' = {}
      BY <1>1, <1>2, <1>10, <2>1, <2>2 DEF AllOwed
    <2>5. \A list : InLine(list) /\ Pairs(list) \subseteq owed => InLine(list)'
      BY <1>1, <1>10, <2>2 DEF InLine
    <2>6. BusyRetriers' = {} => InLine(queueFile.entries)'
      BY <1>1, <1>2, <1>14, <2>1, <2>5, QueuedIs DEF AllOwed
    <2>7. ASSUME NEW r \in BusyRetriers' PROVE BatchInLine(r)'
      <3>1. r \in BusyRetriers /\ r \in Retriers
        BY <1>14, <2>7 DEF BusyRetriers
      <3>2. Pairs(retrying[r].kept) \subseteq owed /\ Pairs(retrying[r].todo) \subseteq owed
        BY <1>2, <3>1 DEF AllOwed, Behind
      <3>3. BatchInLine(r)
        BY <2>1, <3>1
      <3> QED
        BY <1>1, <2>5, <3>2, <3>3 DEF BatchInLine
    <2>8. AppendFresh'
      <3>1. \A b \in HookAdmins : admin'[b].stage # "append"
        <4>1. \A b \in HookAdmins \ {a} : admin[b].stage = "idle"
          BY <1>1, <1>17, AloneIs DEF HookInv
        <4> QED
          BY <1>4, <4>1
      <3> QED
        BY <3>1 DEF AppendFresh
    <2> QED
      BY <1>1, <1>14, <2>1, <2>3, <2>4, <2>6, <2>7, <2>8
  <1> QED
    BY <1>12, <1>13, <1>15, <1>16, <1>17 DEF DeliveryInv, OnceInv

(* What a step of a retry leaves alone. *)
LEMMA RetrierFrame ==
  ASSUME DeliveryInv, UNCHANGED <<dispatching, owed, admin, clashes>>,
         hookBudget'.events = hookBudget.events
  PROVE  /\ Hands' = Hands /\ NumbersOK'
         /\ \A d : TodoApart(d)' = TodoApart(d)
         /\ AppendFresh => AppendFresh'
  <1>1. \A d : InHand(d)' = InHand(d) /\ TodoApart(d)' = TodoApart(d)
    BY DEF InHand, TodoApart
  <1>2. Hands' = Hands
    BY <1>1 DEF Hands
  <1>3. NumbersOK'
    BY DEF DeliveryInv, NumbersOK
  <1>4. AppendFresh => AppendFresh'
    BY DEF AppendFresh
  <1> QED
    BY <1>1, <1>2, <1>3, <1>4

(* A retry that begins has all that is queued behind it. *)
LEMMA BeginRetryStep ==
  ASSUME DeliveryInv, NEW r \in Retriers, NEW s \in Servers, BeginRetry(r, s)
  PROVE  DeliveryInv'
  <1> DEFINE c == [stage |-> "post", server |-> s, todo |-> queueFile.entries, kept |-> << >>,
                   left |-> BatchSize]
  <1>1. /\ retrying[r].stage = "idle"
        /\ hookBudget' = [hookBudget EXCEPT !.retries = @ - 1] /\ hookBudget.retries > 0
        /\ retrying' = [retrying EXCEPT ![r] = c]
        /\ overlapped' = (overlapped \/ BusyRetriers # {})
        /\ excusable' = (IF Writing = {} THEN excusable ELSE owed)
        /\ UNCHANGED <<admin, clashes, dispatching, queueFile, owed, confirmed, repeated>>
    BY DEF BeginRetry, hookVars
  <1>2. /\ DeliveryTypes /\ NumbersOK /\ AllOwed /\ NoneLost /\ OnceInv
        /\ retrying \in [Retriers -> RetryCalls]
        /\ queueFile.entries \in Seq(QueueEntries)
        /\ hookBudget \in [workers : Nat, changes : Nat, events : Nat, retries : Nat, kills : Nat]
    BY DEF DeliveryInv, DeliveryTypes
  <1>3. /\ hookBudget' \in [workers : Nat, changes : Nat, events : Nat, retries : Nat, kills : Nat]
        /\ hookBudget'.events = hookBudget.events
    BY <1>1, <1>2
  <1>4. /\ c \in RetryCalls /\ c.stage = "post" /\ c.todo = queueFile.entries /\ c.kept = << >>
    <2>1. << >> \in Seq(QueueEntries) /\ BatchSize \in 0 .. BatchSize
      BY BatchAssumption
    <2> QED
      BY <1>2, <2>1 DEF RetryCalls
  <1> HIDE DEF c
  <1>5. retrying'[r] = c /\ \A q \in Retriers \ {r} : retrying'[q] = retrying[q]
    BY <1>1, <1>2
  <1>6. DeliveryTypes'
    BY <1>1, <1>2, <1>3, <1>4 DEF DeliveryTypes
  <1>7. /\ Hands' = Hands /\ NumbersOK' /\ (\A d : TodoApart(d)' = TodoApart(d))
        /\ AppendFresh => AppendFresh'
    BY <1>1, <1>3, RetrierFrame
  <1>8. /\ BusyRetriers' = BusyRetriers \cup {r} /\ Writing' = Writing
        /\ Queued' = Queued
        /\ \A q \in Retriers \ {r} : Behind(q)' = Behind(q)
    BY <1>1, <1>4, <1>5 DEF BusyRetriers, Writing, Queued, Behind
  <1>9. Behind(r)' = Queued
    BY <1>4, <1>5, QueuedIs, EmptyLists DEF Behind
  <1>10. AllOwed'
    BY <1>1, <1>2, <1>7, <1>8, <1>9 DEF AllOwed
  <1>11. NoneLost'
    <2>1. CASE Writing = {}
      <3>1. /\ excusable' = excusable
            /\ owed \subseteq (confirmed \cup excusable) \cup Queued \cup Hands
            /\ \A q \in BusyRetriers : owed \subseteq (confirmed \cup excusable) \cup Behind(q) \cup Hands
        BY <1>1, <1>2, <2>1 DEF NoneLost
      <3>2. \A q \in BusyRetriers' :
              owed' \subseteq (confirmed' \cup excusable') \cup Behind(q)' \cup Hands'
        <4> TAKE q \in BusyRetriers'
        <4>1. CASE q = r
          BY <1>1, <1>7, <1>9, <3>1, <4>1
        <4>2. CASE q # r
          <5>1. q \in BusyRetriers /\ q \in Retriers \ {r}
            BY <1>8, <4>2 DEF BusyRetriers
          <5> QED
            BY <1>1, <1>7, <1>8, <3>1, <5>1
        <4> QED
          BY <4>1, <4>2
      <3> QED
        BY <1>1, <1>7, <1>8, <2>1, <3>1, <3>2 DEF NoneLost
    <2>2. CASE Writing # {}
      BY <1>1, <2>2 DEF NoneLost
    <2> QED
      BY <2>1, <2>2
  <1>12. ASSUME ~overlapped', ~clashes'
         PROVE  /\ \A e \in Dispatchers : TodoApart(e)'
                /\ Hands' \cap confirmed' = {}
                /\ \A q, x \in BusyRetriers' : q = x
                /\ BusyRetriers' = {} => InLine(queueFile.entries)'
                /\ \A q \in BusyRetriers' : BatchInLine(q)'
                /\ AppendFresh'
                /\ repeated' = {}
    <2>1. BusyRetriers = {} /\ ~overlapped /\ ~clashes
      BY <1>1, <1>12
    <2>2. /\ \A e \in Dispatchers : TodoApart(e)
          /\ Hands \cap confirmed = {}
          /\ InLine(queueFile.entries)
          /\ AppendFresh
          /\ repeated = {}
      BY <1>2, <2>1 DEF OnceInv
    <2>3. BatchInLine(r)'
      BY <1>1, <1>4, <1>5, <1>7, <2>2, EmptyLists DEF BatchInLine, InLine
    <2> QED
      BY <1>1, <1>7, <1>8, <2>1, <2>2, <2>3
  <1> QED
    BY <1>6, <1>7, <1>10, <1>11, <1>12 DEF DeliveryInv, OnceInv

(* A retry's post confirms a delivery or keeps its entry. *)
LEMMA RetryPostStep ==
  ASSUME DeliveryInv, NEW r \in Retriers, NEW success \in BOOLEAN, RetryPost(r, success)
  PROVE  DeliveryInv'
  <1> DEFINE call == retrying[r]
             entry == Head(call.todo)
             again == [entry EXCEPT !.attempts = @ + 1]
             one == PairOf(entry)
             kept == IF success THEN call.kept ELSE Append(call.kept, again)
             c == [call EXCEPT !.todo = Tail(call.todo), !.left = call.left - 1, !.kept = kept]
  <1>1. /\ call.stage = "post" /\ call.left > 0 /\ call.todo # << >>
        /\ retrying' = [retrying EXCEPT ![r].todo = Tail(@), ![r].left = @ - 1,
             ![r].kept = IF success THEN @ ELSE Append(@, again)]
        /\ confirmed' = (IF success THEN confirmed \cup {one} ELSE confirmed)
        /\ repeated' = (IF one \in confirmed THEN repeated \cup {one} ELSE repeated)
        /\ UNCHANGED <<admin, clashes, dispatching, queueFile, hookBudget, owed, excusable,
                       overlapped>>
    BY DEF RetryPost, hookVars, PairOf
  <1>2. /\ DeliveryTypes /\ NumbersOK /\ AllOwed /\ NoneLost /\ OnceInv
        /\ retrying \in [Retriers -> RetryCalls]
    BY DEF DeliveryInv, DeliveryTypes
  <1>3. /\ call \in RetryCalls /\ call.todo \in Seq(QueueEntries) /\ call.kept \in Seq(QueueEntries)
        /\ call.left \in 0 .. BatchSize
    BY <1>2, RetryIs
  <1>4. /\ Tail(call.todo) \in Seq(QueueEntries) /\ entry \in QueueEntries
        /\ Pairs(call.todo) = {one} \cup Pairs(Tail(call.todo))
        /\ PairsApart(call.todo) => PairsApart(Tail(call.todo)) /\ one \notin Pairs(Tail(call.todo))
    <2>1. call.todo \in Seq(QueueEntries) /\ call.todo # << >>
      BY <1>1, <1>3
    <2> HIDE DEF call
    <2> QED
      BY <2>1, PairsTail
  <1>5. again \in QueueEntries /\ PairOf(again) = one
    <2> HIDE DEF entry
    <2>1. again \in QueueEntries /\ again.hook = entry.hook /\ again.nr = entry.nr
      BY <1>4 DEF QueueEntries
    <2> QED
      BY <2>1 DEF PairOf
  <1> HIDE DEF again, one, entry
  <1>6. /\ kept \in Seq(QueueEntries)
        /\ Pairs(kept) = Pairs(call.kept) \cup (IF success THEN {} ELSE {one})
        /\ PairsApart(call.kept) /\ one \notin Pairs(call.kept) => PairsApart(kept)
    BY <1>3, <1>5, PairsAppend
  <1> HIDE DEF kept
  <1>7. /\ c \in RetryCalls /\ c.stage = call.stage
        /\ c.todo = Tail(call.todo) /\ c.kept = kept
    <2>1. call.left - 1 \in 0 .. BatchSize
      BY <1>1, <1>3, BatchAssumption
    <2> QED
      BY <1>3, <1>4, <1>6, <2>1 DEF RetryCalls
  <1>8. retrying' = [retrying EXCEPT ![r] = c]
    BY <1>1, <1>2 DEF kept
  <1> HIDE DEF c
  <1>9. retrying'[r] = c /\ \A q \in Retriers \ {r} : retrying'[q] = retrying[q]
    BY <1>2, <1>8
  <1>10. r \in BusyRetriers /\ one \in Behind(r)
    BY <1>1, <1>4 DEF BusyRetriers, Behind
  <1>11. one \in owed /\ owed \in SUBSET Deliveries
    BY <1>2, <1>10 DEF AllOwed, DeliveryTypes
  <1>12. DeliveryTypes'
    <2>1. retrying' \in [Retriers -> RetryCalls]
      BY <1>2, <1>7, <1>8
    <2>2. confirmed' \in SUBSET Deliveries /\ repeated' \in SUBSET Deliveries
      BY <1>1, <1>2, <1>11 DEF DeliveryTypes
    <2> QED
      BY <1>1, <1>2, <2>1, <2>2 DEF DeliveryTypes
  <1>13. /\ Hands' = Hands /\ NumbersOK' /\ (\A d : TodoApart(d)' = TodoApart(d))
         /\ AppendFresh => AppendFresh'
    BY <1>1, RetrierFrame
  <1>14. /\ BusyRetriers' = BusyRetriers /\ Writing' = Writing /\ Queued' = Queued
         /\ \A q \in Retriers \ {r} : Behind(q)' = Behind(q)
    BY <1>1, <1>7, <1>9 DEF BusyRetriers, Writing, Queued, Behind
  <1>15. Behind(r)' = Pairs(kept) \cup Pairs(Tail(call.todo))
    BY <1>7, <1>9 DEF Behind
  <1>16. /\ Behind(r)' \subseteq Behind(r) /\ Behind(r) \subseteq Behind(r)' \cup confirmed'
         /\ confirmed \subseteq confirmed'
    BY <1>1, <1>4, <1>6, <1>15 DEF Behind
  <1>17. AllOwed'
    BY <1>1, <1>2, <1>11, <1>13, <1>14, <1>16 DEF AllOwed
  <1>18. NoneLost'
    <2>1. \A q \in BusyRetriers : Behind(q) \subseteq Behind(q)' \cup confirmed'
      BY <1>14, <1>16 DEF BusyRetriers
    <2> QED
      BY <1>1, <1>2, <1>13, <1>14, <1>16, <2>1 DEF NoneLost
  <1>19. ASSUME ~overlapped', ~clashes'
         PROVE  /\ \A e \in Dispatchers : TodoApart(e)'
                /\ Hands' \cap confirmed' = {}
                /\ \A q, x \in BusyRetriers' : q = x
                /\ BusyRetriers' = {} => InLine(queueFile.entries)'
                /\ \A q \in BusyRetriers' : BatchInLine(q)'
                /\ AppendFresh'
                /\ repeated' = {}
    <2>1. /\ \A e \in Dispatchers : TodoApart(e)
          /\ Hands \cap confirmed = {}
          /\ \A q, x \in BusyRetriers : q = x
          /\ BatchInLine(r)
          /\ AppendFresh
          /\ repeated = {}
      BY <1>1, <1>2, <1>10, <1>19 DEF OnceInv
    <2>2. /\ PairsApart(call.kept) /\ PairsApart(call.todo)
          /\ (Pairs(call.kept) \cup Pairs(call.todo)) \cap confirmed = {}
          /\ (Pairs(call.kept) \cup Pairs(call.todo)) \cap Hands = {}
          /\ Pairs(call.kept) \cap Pairs(call.todo) = {}
      BY <2>1 DEF BatchInLine, InLine
    <2>3. /\ one \notin Hands /\ one \notin confirmed /\ one \notin Pairs(call.kept)
          /\ one \notin Pairs(Tail(call.todo)) /\ PairsApart(Tail(call.todo))
      BY <1>4, <2>2
    <2>4. PairsApart(kept)
      BY <1>6, <2>2, <2>3
    <2>5. Pairs(kept) \cap Pairs(Tail(call.todo)) = {}
      BY <1>4, <1>6, <2>2, <2>3
    <2>6. (Pairs(kept) \cup Pairs(Tail(call.todo))) \cap confirmed' = {}
      BY <1>1, <1>4, <1>6, <2>2, <2>3
    <2>7. (Pairs(kept) \cup Pairs(Tail(call.todo))) \cap Hands = {}
      BY <1>4, <1>6, <2>2
    <2>8. BatchInLine(r)'
      BY <1>7, <1>9, <1>13, <2>3, <2>4, <2>5, <2>6, <2>7 DEF BatchInLine, InLine
    <2>9. Hands' \cap confirmed' = {}
      BY <1>1, <1>13, <2>1, <2>3
    <2>10. \A q \in BusyRetriers' : q = r
      BY <1>10, <1>14, <2>1
    <2> QED
      BY <1>1, <1>10, <1>13, <1>14, <2>1, <2>3, <2>8, <2>9, <2>10
  <1> QED
    BY <1>12, <1>13, <1>17, <1>18, <1>19 DEF DeliveryInv, OnceInv

(* The queue is emptied; all of it is behind the retry, unless two rewrite   *)
(* it.                                                                       *)
LEMMA TruncateQueueStep ==
  ASSUME DeliveryInv, NEW r \in Retriers, TruncateQueue(r)
  PROVE  DeliveryInv'
  <1> DEFINE c == [retrying[r] EXCEPT !.stage = "write"]
  <1>1. /\ retrying[r].stage = "post"
        /\ retrying' = [retrying EXCEPT ![r].stage = "write"]
        /\ queueFile' = [whole |-> TRUE, entries |-> << >>]
        /\ excusable' = (IF Writing = {} THEN excusable ELSE owed)
        /\ UNCHANGED <<admin, clashes, dispatching, hookBudget, owed, confirmed, repeated, overlapped>>
    BY DEF TruncateQueue, hookVars
  <1>2. /\ DeliveryTypes /\ NumbersOK /\ AllOwed /\ NoneLost /\ OnceInv
        /\ retrying \in [Retriers -> RetryCalls]
    BY DEF DeliveryInv, DeliveryTypes
  <1>3. /\ c \in RetryCalls /\ c.stage = "write"
        /\ c.todo = retrying[r].todo /\ c.kept = retrying[r].kept
    BY <1>2 DEF RetryCalls
  <1>4. retrying' = [retrying EXCEPT ![r] = c]
    BY <1>1, <1>2
  <1> HIDE DEF c
  <1>5. retrying'[r] = c /\ \A q \in Retriers \ {r} : retrying'[q] = retrying[q]
    BY <1>2, <1>4
  <1>6. DeliveryTypes'
    <2>1. << >> \in Seq(QueueEntries)
      OBVIOUS
    <2> QED
      BY <1>1, <1>2, <1>3, <1>4, <2>1 DEF DeliveryTypes
  <1>7. /\ Hands' = Hands /\ NumbersOK' /\ (\A d : TodoApart(d)' = TodoApart(d))
        /\ AppendFresh => AppendFresh'
    BY <1>1, RetrierFrame
  <1>8. /\ BusyRetriers' = BusyRetriers /\ r \in BusyRetriers /\ r \in Writing'
        /\ \A q \in Retriers : Behind(q)' = Behind(q) /\ BatchInLine(q)' = BatchInLine(q)
    <2>1. \A q \in Retriers : /\ retrying'[q].todo = retrying[q].todo
                              /\ retrying'[q].kept = retrying[q].kept
                              /\ retrying'[q].stage # "idle" <=> retrying[q].stage # "idle"
      BY <1>1, <1>3, <1>5
    <2>2. BusyRetriers' = BusyRetriers /\ r \in BusyRetriers /\ r \in Writing'
      BY <1>1, <1>3, <1>5, <2>1 DEF BusyRetriers, Writing
    <2> QED
      BY <1>1, <1>7, <2>1, <2>2 DEF Behind, BatchInLine, InLine
  <1>9. queueFile'.entries = << >> /\ Queued' = {}
    BY <1>1 DEF Queued
  <1>10. AllOwed'
    BY <1>1, <1>2, <1>7, <1>8, <1>9 DEF AllOwed
  <1>11. NoneLost'
    <2>1. \A q \in BusyRetriers : Behind(q)' = Behind(q)
      BY <1>8 DEF BusyRetriers
    <2>2. CASE Writing = {}
      BY <1>1, <1>2, <1>7, <1>8, <1>9, <2>1, <2>2 DEF NoneLost
    <2>3. CASE Writing # {}
      BY <1>1, <2>3 DEF NoneLost
    <2> QED
      BY <2>2, <2>3
  <1>12. OnceInv'
    <2>1. \A q \in BusyRetriers : BatchInLine(q)' = BatchInLine(q)
      BY <1>8 DEF BusyRetriers
    <2> QED
      BY <1>1, <1>2, <1>7, <1>8, <2>1 DEF OnceInv
  <1> QED
    BY <1>6, <1>7, <1>10, <1>11, <1>12 DEF DeliveryInv

(* What the retry writes back is what was behind it; entries that came to    *)
(* the emptied queue, or another's rewriting, are excused.                   *)
LEMMA WriteQueueStep ==
  ASSUME DeliveryInv, NEW r \in Retriers, WriteQueue(r)
  PROVE  DeliveryInv'
  <1> DEFINE rest == Remaining(retrying[r])
  <1>1. /\ retrying[r].stage = "write"
        /\ \/ queueFile' = [whole |-> TRUE, entries |-> rest]
           \/ queueFile.entries # << >> /\ queueFile' = [whole |-> FALSE, entries |-> << >>]
        /\ excusable' = (IF Writing = {r} THEN excusable ELSE owed)
        /\ retrying' = [retrying EXCEPT ![r] = IdleRetry]
        /\ UNCHANGED <<admin, clashes, dispatching, hookBudget, owed, confirmed, repeated, overlapped>>
    BY DEF WriteQueue, hookVars
  <1>2. /\ DeliveryTypes /\ NumbersOK /\ AllOwed /\ NoneLost /\ OnceInv
        /\ retrying \in [Retriers -> RetryCalls]
    BY DEF DeliveryInv, DeliveryTypes
  <1>3. /\ rest \in Seq(QueueEntries) /\ Pairs(rest) = Behind(r)
        /\ BatchInLine(r) => PairsApart(rest)
    BY <1>2, RetryIs, PairsConcat DEF Remaining, Behind, BatchInLine, InLine
  <1> HIDE DEF rest
  <1>4. IdleRetry \in RetryCalls /\ IdleRetry.stage = "idle"
        /\ IdleRetry.todo = << >> /\ IdleRetry.kept = << >>
    BY IdleTyped DEF IdleRetry
  <1>5. retrying'[r] = IdleRetry /\ \A q \in Retriers \ {r} : retrying'[q] = retrying[q]
    BY <1>1, <1>2
  <1>6. \/ queueFile'.entries = rest
        \/ queueFile.entries # << >> /\ queueFile'.entries = << >>
    BY <1>1
  <1>7. DeliveryTypes'
    <2>1. << >> \in Seq(QueueEntries)
      OBVIOUS
    <2>2. queueFile' \in [whole : BOOLEAN, entries : Seq(QueueEntries)]
      <3>1. \A list \in Seq(QueueEntries), w \in BOOLEAN :
              [whole |-> w, entries |-> list] \in [whole : BOOLEAN, entries : Seq(QueueEntries)]
        OBVIOUS
      <3> QED
        BY <1>1, <1>3, <2>1, <3>1
    <2> QED
      BY <1>1, <1>2, <1>4, <2>2 DEF DeliveryTypes
  <1>8. /\ Hands' = Hands /\ NumbersOK' /\ (\A d : TodoApart(d)' = TodoApart(d))
        /\ AppendFresh => AppendFresh'
    BY <1>1, RetrierFrame
  <1>9. /\ BusyRetriers' = BusyRetriers \ {r} /\ Writing' = Writing \ {r}
        /\ r \in BusyRetriers /\ r \in Writing
        /\ \A q \in Retriers \ {r} : Behind(q)' = Behind(q) /\ BatchInLine(q)' = BatchInLine(q)
        /\ Behind(r)' = {}
    <2>1. /\ BusyRetriers' = BusyRetriers \ {r} /\ Writing' = Writing \ {r}
          /\ r \in BusyRetriers /\ r \in Writing
      BY <1>1, <1>4, <1>5 DEF BusyRetriers, Writing
    <2>2. \A q \in Retriers \ {r} : Behind(q)' = Behind(q) /\ BatchInLine(q)' = BatchInLine(q)
      BY <1>1, <1>5, <1>8 DEF Behind, BatchInLine, InLine
    <2>3. Behind(r)' = {}
      BY <1>4, <1>5, EmptyLists DEF Behind
    <2> QED
      BY <2>1, <2>2, <2>3
  <1>10. \/ queueFile'.entries = rest /\ Queued' = Behind(r)
         \/ queueFile.entries # << >> /\ queueFile'.entries = << >> /\ Queued' = {}
    <2>1. Queued' = Pairs(queueFile'.entries)
      BY DEF Queued, Pairs, PairOf
    <2> QED
      BY <1>3, <1>6, <2>1, EmptyLists
  <1>11. AllOwed'
    <2>1. Queued' \subseteq owed'
      BY <1>1, <1>2, <1>10 DEF AllOwed
    <2> QED
      BY <1>1, <1>2, <1>8, <1>9, <2>1 DEF AllOwed
  <1>12. NoneLost'
    <2>1. CASE Writing = {r}
      <3>1. /\ excusable' = excusable /\ Writing' = {}
            /\ owed \subseteq (confirmed \cup excusable) \cup Behind(r) \cup Hands
            /\ queueFile.entries # << >> => owed \subseteq (confirmed \cup excusable) \cup Hands
        BY <1>1, <1>2, <1>9, <2>1 DEF NoneLost
      <3>2. owed' \subseteq (confirmed' \cup excusable') \cup Queued' \cup Hands'
        BY <1>1, <1>8, <1>10, <3>1
      <3>3. \A q \in BusyRetriers' :
              owed' \subseteq (confirmed' \cup excusable') \cup Behind(q)' \cup Hands'
        <4> TAKE q \in BusyRetriers'
        <4>1. q \in BusyRetriers /\ q \in Retriers \ {r}
          BY <1>9 DEF BusyRetriers
        <4> QED
          BY <1>1, <1>2, <1>8, <1>9, <3>1, <4>1 DEF NoneLost
      <3> QED
        BY <3>1, <3>2, <3>3 DEF NoneLost
    <2>2. CASE Writing # {r}
      BY <1>1, <2>2 DEF NoneLost
    <2> QED
      BY <2>1, <2>2
  <1>13. ASSUME ~overlapped', ~clashes'
         PROVE  /\ \A e \in Dispatchers : TodoApart(e)'
                /\ Hands' \cap confirmed' = {}
                /\ \A q, x \in BusyRetriers' : q = x
                /\ BusyRetriers' = {} => InLine(queueFile.entries)'
                /\ \A q \in BusyRetriers' : BatchInLine(q)'
                /\ AppendFresh'
                /\ repeated' = {}
    <2>1. /\ \A e \in Dispatchers : TodoApart(e)
          /\ Hands \cap confirmed = {}
          /\ \A q, x \in BusyRetriers : q = x
          /\ BatchInLine(r)
          /\ AppendFresh
          /\ repeated = {}
      BY <1>1, <1>2, <1>9, <1>13 DEF OnceInv
    <2>2. BusyRetriers' = {}
      BY <1>9, <2>1
    <2>3. InLine(rest)
      BY <1>3, <2>1 DEF BatchInLine, InLine, Behind
    <2>4. InLine(<< >>)
      BY EmptyLists DEF InLine
    <2>5. InLine(queueFile.entries)'
      BY <1>1, <1>6, <1>8, <2>3, <2>4 DEF InLine
    <2> QED
      BY <1>1, <1>8, <2>1, <2>2, <2>5
  <1> QED
    BY <1>7, <1>8, <1>11, <1>12, <1>13 DEF DeliveryInv, OnceInv

(* A kill drops what the process had in hand, and excuses it, or all if it   *)
(* was rewriting the queue.                                                  *)
LEMMA KillDeliveries ==
  ASSUME DeliveryInv, NEW s \in Servers, KillWorker(s)
  PROVE  DeliveryInv'
  <1> DEFINE runs == {d \in Dispatchers : dispatching[d].server = s}
             retries == {r \in BusyRetriers : retrying[r].server = s}
             Lost == UNION {InHand(d) : d \in runs}
  <1>1. /\ hookBudget' = [hookBudget EXCEPT !.kills = @ - 1] /\ hookBudget.kills > 0
        /\ \A a \in HookAdmins : admin'[a] = IdleAdmin \/ admin'[a] = admin[a]
        /\ dispatching' = [d \in Dispatchers |-> IF d \in runs THEN IdleDispatch ELSE dispatching[d]]
        /\ retrying' = [r \in Retriers |-> IF r \in retries THEN IdleRetry ELSE retrying[r]]
        /\ clashes => clashes'
        /\ excusable' = (IF retries \cap Writing # {} THEN owed ELSE excusable \cup Lost)
        /\ overlapped' = (overlapped \/ retries # {})
        /\ UNCHANGED <<queueFile, owed, confirmed, repeated>>
    BY DEF KillWorker
  <1>2. /\ DeliveryTypes /\ NumbersOK /\ AllOwed /\ NoneLost /\ OnceInv
        /\ dispatching \in [Dispatchers -> DispatchRuns]
        /\ retrying \in [Retriers -> RetryCalls]
        /\ hookBudget \in [workers : Nat, changes : Nat, events : Nat, retries : Nat, kills : Nat]
    BY DEF DeliveryInv, DeliveryTypes
  <1>3. /\ hookBudget' \in [workers : Nat, changes : Nat, events : Nat, retries : Nat, kills : Nat]
        /\ hookBudget'.events = hookBudget.events
    BY <1>1, <1>2
  <1>4. /\ IdleDispatch.nr = 0 /\ IdleDispatch.todo = << >> /\ IdleDispatch.failed = << >>
        /\ ~IdleDispatch.live
        /\ IdleRetry.stage = "idle" /\ IdleRetry.todo = << >> /\ IdleRetry.kept = << >>
    BY DEF IdleDispatch, IdleRetry
  <1> HIDE DEF runs, retries
  <1>5. \A d \in Dispatchers : dispatching'[d] = IF d \in runs THEN IdleDispatch ELSE dispatching[d]
    BY <1>1
  <1>6. \A r \in Retriers : retrying'[r] = IF r \in retries THEN IdleRetry ELSE retrying[r]
    BY <1>1
  <1>7. \A d \in Dispatchers : InHand(d)' = IF d \in runs THEN {} ELSE InHand(d)
    <2>1. Range(<< >> \o << >>) = {}
      BY EmptyLists
    <2> QED
      BY <1>4, <1>5, <2>1 DEF InHand
  <1>8. Hands' \subseteq Hands /\ Hands \subseteq Hands' \cup Lost
    BY <1>7 DEF Hands
  <1>9. Lost \subseteq Hands
    BY DEF Hands, runs
  <1> HIDE DEF Lost
  <1>10. DeliveryTypes'
    <2>1. /\ dispatching' \in [Dispatchers -> DispatchRuns]
          /\ retrying' \in [Retriers -> RetryCalls]
      BY <1>1, <1>2, IdleTyped
    <2>2. excusable' \in SUBSET Deliveries /\ overlapped' \in BOOLEAN
      BY <1>1, <1>2, <1>9 DEF AllOwed, DeliveryTypes
    <2> QED
      BY <1>1, <1>2, <1>3, <2>1, <2>2 DEF DeliveryTypes
  <1>11. NumbersOK'
    BY <1>1, <1>2, <1>3, <1>4, <1>5 DEF NumbersOK
  <1>12. /\ Writing' = Writing \ retries /\ BusyRetriers' = BusyRetriers \ retries
         /\ Queued' = Queued
         /\ \A r \in Retriers : Behind(r)' = IF r \in retries THEN {} ELSE Behind(r)
    <2>1. Writing' = Writing \ retries /\ BusyRetriers' = BusyRetriers \ retries
      BY <1>4, <1>6 DEF Writing, BusyRetriers
    <2>2. \A r \in Retriers : Behind(r)' = IF r \in retries THEN {} ELSE Behind(r)
      BY <1>4, <1>6, EmptyLists DEF Behind
    <2> QED
      BY <1>1, <2>1, <2>2 DEF Queued
  <1>13. AllOwed'
    BY <1>1, <1>2, <1>8, <1>12 DEF AllOwed
  <1>14. NoneLost'
    <2>1. CASE retries \cap Writing # {}
      BY <1>1, <2>1 DEF NoneLost
    <2>2. CASE retries \cap Writing = {}
      <3>1. Writing' = Writing /\ excusable' = excusable \cup Lost
        BY <1>1, <1>12, <2>2
      <3>2. \A r \in BusyRetriers' : r \in BusyRetriers /\ Behind(r)' = Behind(r)
        BY <1>12 DEF BusyRetriers
      <3> QED
        BY <1>1, <1>2, <1>8, <1>12, <3>1, <3>2 DEF NoneLost
    <2> QED
      BY <2>1, <2>2
  <1>15. ASSUME ~overlapped', ~clashes'
         PROVE  /\ \A e \in Dispatchers : TodoApart(e)'
                /\ Hands' \cap confirmed' = {}
                /\ \A q, r \in BusyRetriers' : q = r
                /\ BusyRetriers' = {} => InLine(queueFile.entries)'
                /\ \A r \in BusyRetriers' : BatchInLine(r)'
                /\ AppendFresh'
                /\ repeated' = {}
    <2>1. retries = {} /\ ~overlapped /\ ~clashes
      BY <1>1, <1>15
    <2>2. /\ \A e \in Dispatchers : TodoApart(e)
          /\ Hands \cap confirmed = {}
          /\ \A q, r \in BusyRetriers : q = r
          /\ BusyRetriers = {} => InLine(queueFile.entries)
          /\ \A r \in BusyRetriers : BatchInLine(r)
          /\ AppendFresh
          /\ repeated = {}
      BY <1>2, <2>1 DEF OnceInv
    <2>3. BusyRetriers' = BusyRetriers
      BY <1>12, <2>1
    <2>4. \A e \in Dispatchers : TodoApart(e)'
      BY <1>4, <1>5, <2>2, EmptyLists DEF TodoApart
    <2>5. \A list : InLine(list) => InLine(list)'
      BY <1>1, <1>8 DEF InLine
    <2>6. InLine(queueFile.entries) => InLine(queueFile.entries)'
      BY <1>1, <2>5
    <2>7. \A r \in BusyRetriers' : BatchInLine(r)'
      <3>1. \A r \in BusyRetriers : retrying'[r] = retrying[r]
        BY <1>6, <2>1 DEF BusyRetriers
      <3> QED
        BY <2>2, <2>3, <2>5, <3>1 DEF BatchInLine
    <2>8. AppendFresh'
      <3> SUFFICES ASSUME NEW a \in HookAdmins, NEW d \in Dispatchers, admin'[a].stage = "append",
                          dispatching'[d].live, dispatching'[d].server = admin'[a].server
                   PROVE  Delivery(admin'[a].hook.id, dispatching'[d].nr) \notin owed'
        BY DEF AppendFresh
      <3>1. admin'[a] = admin[a]
        BY <1>1 DEF IdleAdmin
      <3>2. dispatching'[d] = dispatching[d]
        BY <1>4, <1>5
      <3> QED
        BY <1>1, <2>2, <3>1, <3>2 DEF AppendFresh
    <2> QED
      BY <1>1, <1>8, <2>2, <2>3, <2>4, <2>6, <2>7, <2>8
  <1> QED
    BY <1>10, <1>11, <1>13, <1>14, <1>15 DEF DeliveryInv, OnceInv

(* Every step keeps the invariant of the deliveries, given that of the       *)
(* registry.                                                                 *)
LEMMA DeliveryStep == HookInv /\ DeliveryInv /\ [WebhooksNext]_webhookVars => DeliveryInv'
  <1> SUFFICES ASSUME HookInv, DeliveryInv, [WebhooksNext]_webhookVars PROVE DeliveryInv'
    OBVIOUS
  <1> DEFINE Budgets == [workers : Nat, changes : Nat, events : Nat, retries : Nat, kills : Nat]
  <1>1. /\ hookBudget \in Budgets
        /\ admin \in [HookAdmins -> AdminCalls]
    BY DEF DeliveryInv, DeliveryTypes, HookInv, HookTypes
  <1>2. CASE UNCHANGED webhookVars
    BY <1>1, <1>2, DeliveryFrame DEF webhookVars, hookVars, deliveryVars
  <1>3. ASSUME NEW a \in HookAdmins, NEW s \in Servers,
               NEW hook, NEW register, BeginHookCall(a, s, hook, register)
        PROVE  DeliveryInv'
    <2>1. /\ hookBudget.changes > 0 /\ hookBudget' = [hookBudget EXCEPT !.changes = @ - 1]
          /\ clashes => clashes'
          /\ UNCHANGED <<dispatching, queueFile, retrying, owed, confirmed, excusable, repeated,
                         overlapped>>
      BY <1>3 DEF BeginHookCall, deliveryVars
    <2>2. hookBudget' \in Budgets /\ hookBudget'.events = hookBudget.events
      BY <1>1, <2>1
    <2>3. \A b \in HookAdmins : admin'[b].stage = "append" => admin'[b] = admin[b]
      BY <1>1, <1>3 DEF BeginHookCall
    <2> QED
      BY <2>1, <2>2, <2>3, DeliveryFrame
  <1>4. ASSUME NEW a \in HookAdmins, TruncateHookFile(a) PROVE DeliveryInv'
    <2>1. \A b \in HookAdmins : admin'[b].stage = "append" => admin'[b] = admin[b]
      <3>1. admin[a] \in AdminCalls
        BY <1>1
      <3> QED
        BY <1>1, <1>4, <3>1 DEF TruncateHookFile, AdminCalls
    <2> QED
      BY <1>1, <1>4, <2>1, DeliveryFrame DEF TruncateHookFile, deliveryVars
  <1>5. ASSUME NEW a \in HookAdmins, WriteHookFile(a) PROVE DeliveryInv'
    <2>1. \A b \in HookAdmins : admin'[b].stage = "append" => admin'[b] = admin[b]
      BY <1>1, <1>5 DEF WriteHookFile, IdleAdmin
    <2> QED
      BY <1>1, <1>5, <2>1, DeliveryFrame DEF WriteHookFile, deliveryVars
  <1>6. ASSUME NEW s \in Servers, StartWorker(s) PROVE DeliveryInv'
    BY <1>1, <1>6, DeliveryFrame DEF StartWorker, deliveryVars
  <1>7. CASE \E a \in HookAdmins :
               \/ \E s \in Servers, h \in Hooks : BeginHookCall(a, s, h, TRUE)
               \/ \E s \in Servers, id \in HookIds :
                    BeginHookCall(a, s, [id |-> id, events |-> {}], FALSE)
               \/ AssignRegistry(a) \/ AppendHook(a) \/ TruncateHookFile(a) \/ WriteHookFile(a)
    BY <1>3, <1>4, <1>5, <1>7, AssignDeliveries, AppendDeliveries
  <1>8. CASE \E d \in Dispatchers :
               \/ \E s \in Servers, t \in EventTypes : Dispatch(d, s, t)
               \/ \E success \in BOOLEAN : Post(d, success)
               \/ QueueDelivery(d) \/ EndDispatch(d)
    BY <1>8, DispatchStep, PostHookStep, QueueDeliveryStep, EndDispatchStep
  <1>9. CASE \E r \in Retriers :
               \/ \E s \in Servers : BeginRetry(r, s)
               \/ \E success \in BOOLEAN : RetryPost(r, success)
               \/ TruncateQueue(r) \/ WriteQueue(r)
    BY <1>9, BeginRetryStep, RetryPostStep, TruncateQueueStep, WriteQueueStep
  <1>10. CASE \E s \in Servers : KillWorker(s) \/ StartWorker(s)
    BY <1>6, <1>10, KillDeliveries
  <1> QED
    BY <1>2, <1>7, <1>8, <1>9, <1>10 DEF WebhooksNext

(* So both always hold. *)
LEMMA DeliveryInvariant == WebhooksSpec => [](HookInv /\ DeliveryInv)
  <1>1. WebhooksInit => HookInv /\ DeliveryInv
    BY HookInit, DeliveryStarts
  <1>2. HookInv /\ DeliveryInv /\ [WebhooksNext]_webhookVars => (HookInv /\ DeliveryInv)'
    BY HookStep, DeliveryStep
  <1> QED
    BY <1>1, <1>2, PTL DEF WebhooksSpec

(* DeliveriesKept holds of any number of dispatchers, retriers, hooks,       *)
(* events, processes and kills: a delivery that was begun and not confirmed  *)
(* is in hand or in the queue while nobody rewrites it, with the excuses     *)
(* named, and none is posted after it was confirmed unless retries           *)
(* overlapped or registry calls clashed.                                     *)
THEOREM DeliveriesAreKept == WebhooksSpec => []DeliveriesKept
  <1>1. DeliveryInv => DeliveriesKept
    BY DEF DeliveryInv, NoneLost, OnceInv, DeliveriesKept, Hands
  <1> QED
    BY <1>1, DeliveryInvariant, PTL

(* The invariants contain the types of the hooks. *)
LEMMA WebhooksTyped == HookInv /\ DeliveryInv => WebhooksTypeOK
  <1> SUFFICES ASSUME HookInv, DeliveryInv PROVE WebhooksTypeOK
    OBVIOUS
  <1>1. HookTypes /\ DeliveryTypes
    BY DEF HookInv, DeliveryInv
  <1>2. \A a \in HookAdmins :
          /\ admin[a].stage \in {"idle", "assign", "append", "truncate", "write"}
          /\ admin[a].hook.id \in HookIds /\ admin[a].filtered \in Seq(Hooks)
    BY <1>1, AdminIs
  <1>3. \A d \in Dispatchers :
          /\ dispatching[d].todo \in Seq(HookIds) /\ dispatching[d].failed \in Seq(HookIds)
          /\ dispatching[d].nr \in Nat /\ dispatching[d].type \in EventTypes
    BY <1>1 DEF DeliveryTypes, DispatchRuns
  <1>4. \A r \in Retriers :
          /\ retrying[r].stage \in {"idle", "post", "write"}
          /\ retrying[r].todo \in Seq(QueueEntries) /\ retrying[r].kept \in Seq(QueueEntries)
          /\ retrying[r].left \in 0 .. BatchSize
    BY <1>1, RetryIs
  <1> QED
    BY <1>1, <1>2, <1>3, <1>4 DEF HookTypes, DeliveryTypes, WebhooksTypeOK

-----------------------------------------------------------------------------
(* The vault monitor: drop zone, archive, saved state and mails. *)

(* A folder has one file of a name, and a file that is being copied is in    *)
(* one.                                                                      *)
PlaceOK ==
  /\ \A d, e \in Documents :
       NameOf[d] = NameOf[e] /\ place[d] = place[e] /\ place[d] \in {"drop", "archive", "stamped"}
         => d = e
  /\ \A d \in copying : place[d] # "outside"

(* Nothing runs while the monitor is down, nothing but the sweep while it    *)
(* sweeps, and a state file that is whole names no file the memory has       *)
(* forgotten.                                                                *)
StateOK ==
  /\ phase = "down" =>
       /\ \A t \in IngestThreads : ingest[t].step = "idle"
       /\ \A r \in Reporters : reporting[r].step = "off"
  /\ phase = "sweeping" =>
       /\ \A t \in IngestThreads \ {Sweeper} : ingest[t].step = "idle"
       /\ ingest[Sweeper].step # "idle" => ingest[Sweeper].name \notin toSweep
  /\ phase # "down" /\ stateFile.whole => stateFile.state.processed \subseteq monState.processed

(* A thread saves the state. *)
SavesState(t) == ingest[t].step \in {"save", "write"}

(* A thread has read its document and has not indexed it. *)
Before(t) == ingest[t].step \in {"alert", "mail", "index"} \/ (SavesState(t) /\ ingest[t].next = "index")

(* It has recorded its document's name and not moved the file. *)
Noted(t) == ingest[t].step \in {"choose", "rename"} \/ (SavesState(t) /\ ingest[t].next = "choose")

(* It has moved the file and not sealed it. *)
Moved(t) == ingest[t].step \in {"seal", "sealing"}

(* A save comes back to where it was called, and a name is recorded before   *)
(* its file is moved.                                                        *)
ThreadsOK == \A t \in IngestThreads :
  /\ SavesState(t) => ingest[t].next \in {"index", "choose"}
  /\ Noted(t) \/ Moved(t) => ingest[t].name \in monState.processed

(* The threads at work on a document's name. *)
AtWork(d) == {t \in Busy : ingest[t].name = NameOf[d]}

(* The thread will read the document yet, or has read all of it, and once it *)
(* was to be recorded it had been indexed.                                   *)
Carries(t, d) ==
  \/ ingest[t].step = "load"
  \/ /\ ingest[t].doc = d /\ ingest[t].whole /\ content[d] = "plain"
     /\ Before(t) \/ ((ingest[t].step = "record" \/ Noted(t)) /\ d \in analysed)

(* One thread is at work on the document's name, and it carries the          *)
(* document.                                                                 *)
Handled(d) == \E t \in AtWork(d) : Carries(t, d) /\ \A u \in AtWork(d) : u = t

(* What lies in the drop zone is as its user wrote it so far; the next start *)
(* will sweep it, the sweep has it before it, or one thread carries it.      *)
DropOK(d) == place[d] = "drop" =>
  /\ content[d] = IF d \in copying THEN "partial" ELSE "plain"
  /\ phase = "down" /\ stateFile.whole => NameOf[d] \notin stateFile.state.processed
  /\ phase = "sweeping" =>
       \/ Handled(d)
       \/ NameOf[d] \in toSweep /\ NameOf[d] \notin monState.processed /\ AtWork(d) = {}
  /\ phase = "watching" => Handled(d)

(* The threads that have moved the document and will seal it. *)
Sealers(d) == {t \in AtWork(d) : Moved(t) /\ ingest[t].dest = place[d]}

(* What lies in the archive was indexed, and is sealed or in the hands of    *)
(* one thread that has read all of it.                                       *)
SealsOK(d) == place[d] \in {"archive", "stamped"} =>
  /\ d \in analysed /\ d \notin copying
  /\ \/ content[d] = "sealed" /\ Sealers(d) = {}
     \/ \E t \in Sealers(d) :
          /\ \A u \in Sealers(d) : u = t
          /\ \/ ingest[t].step = "seal" /\ content[d] = "plain"
             \/ ingest[t].step = "sealing" /\ ingest[t].whole /\ content[d] = "empty"

(* The invariant of the archive; the documents excused are those the         *)
(* properties except.                                                        *)
ArchiveInv ==
  /\ PlaceOK /\ StateOK /\ ThreadsOK
  /\ \A d \in Documents \ excusedDocs : DropOK(d) /\ SealsOK(d)

(* The days a mail of a kind was sent for. *)
Mailed(kind) == {x \in 0 .. MaxDay : mails[<<kind, x>>] # 0}

(* The dates in memory are those of the last mails and survive a restart;    *)
(* two reports are a cycle apart; and a mail about to be sent, of which      *)
(* there is one at most, is new.                                             *)
MailsOK ==
  /\ phase = "down" => monState = (IF stateFile.whole THEN stateFile.state ELSE FreshState)
  /\ \A m \in {"alert", "report"} \X (0 .. MaxDay) : mails[m] <= 1
  /\ \A x \in Mailed("alert") : x <= monState.alerted /\ monState.alerted <= monDay
  /\ \A x \in Mailed("report") : x <= monState.reported /\ monState.reported <= monDay
  /\ \A x, y \in Mailed("report") : x < y => x + Cycle <= y
  /\ \A t \in IngestThreads : ingest[t].step = "mail" =>
       /\ ingest[t].day <= monDay
       /\ \A x \in Mailed("alert") : x < ingest[t].day
       /\ \A u \in IngestThreads : ingest[u].step = "mail" => u = t
  /\ \A r \in Reporters : reporting[r].step = "send" =>
       /\ reporting[r].day <= monDay
       /\ \A x \in Mailed("report") : x + Cycle <= reporting[r].day
       /\ \A q \in Reporters : reporting[q].step = "send" => q = r

(* So it is until mails have crossed. *)
MailsInv == ~crossed => MailsOK

(* The steps of a call of ingest_file. *)
IngestSteps == {"idle", "load", "alert", "mail", "index", "record", "save", "write", "choose",
                "rename", "seal", "sealing"}

(* The calls of ingest_file. *)
IngestCalls ==
  [step : IngestSteps, name : Names, doc : Documents, whole : BOOLEAN,
   next : {"idle", "index", "choose"}, dest : {"archive", "stamped"}, day : 0 .. MaxDay]

(* The steps of a reporter. *)
ReportCalls == [step : {"off", "check", "send", "save", "write"}, day : 0 .. MaxDay]

(* What a plan may hold. *)
PlansOfMonitor == [docs : SUBSET Documents, reporters : SUBSET Reporters, kills : Nat, days : 0 .. MaxDay]

(* Inductive: the types, the archive and the mails. *)
MonitorInv == MonitorTypeOK /\ ArchiveInv /\ MailsInv

(* What the types say of the calls, the histories and the plan. *)
LEMMA CallsTyped ==
  ASSUME MonitorTypeOK
  PROVE  /\ ingest \in [IngestThreads -> IngestCalls] /\ reporting \in [Reporters -> ReportCalls]
         /\ analysed \subseteq Documents /\ excusedDocs \subseteq Documents
         /\ monPlan \in PlansOfMonitor
<1>1. UNION {analysed, excusedDocs} \subseteq Documents
  BY DEF MonitorTypeOK
<1>2. analysed \subseteq Documents /\ excusedDocs \subseteq Documents
  BY <1>1
<1> QED BY <1>2 DEF MonitorTypeOK, IngestCalls, IngestSteps, ReportCalls, PlansOfMonitor

(* The idle call is a call. *)
LEMMA NoCallTyped == NoIngest \in IngestCalls /\ SomeName \in Names
<1>1. PICK d \in Documents : TRUE
  BY MonitorAssumption
<1>2. NameOf[d] \in Names
  BY DEF Names
<1>3. SomeName \in Names
  BY <1>2 DEF SomeName
<1>4. (CHOOSE e \in Documents : TRUE) \in Documents
  BY <1>1
<1>5. 0 \in 0 .. MaxDay
  BY MonitorAssumption
<1> QED BY <1>3, <1>4, <1>5 DEF NoIngest, IngestCalls, IngestSteps

(* A reporter at a step without a day is a reporter. *)
LEMMA NoReportTyped ==
  ASSUME NEW s \in {"off", "check", "send", "save", "write"}
  PROVE  NoReport(s) \in ReportCalls
<1>1. 0 \in 0 .. MaxDay
  BY MonitorAssumption
<1> QED BY <1>1 DEF NoReport, ReportCalls

(* The state of a first start is a state. *)
LEMMA FreshTyped == FreshState \in MonStates
<1>1. NoDay \in 0 .. NoDay
  BY MonitorAssumption DEF NoDay
<1> QED BY <1>1 DEF FreshState, MonStates

(* The types of the variables, one by one, are the type invariant. *)
LEMMA TypedAgain ==
  ASSUME place \in [Documents -> Places],
         content \in [Documents -> {"partial", "plain", "empty", "sealed", "spoiled"}],
         copying \subseteq Documents, phase \in {"down", "sweeping", "watching"},
         toSweep \subseteq Names, ingest \in [IngestThreads -> IngestCalls],
         reporting \in [Reporters -> ReportCalls], monState \in MonStates,
         stateFile \in [whole : BOOLEAN, state : MonStates], monDay \in 0 .. MaxDay,
         mails \in [{"alert", "report"} \X (0 .. MaxDay) -> Nat], analysed \subseteq Documents,
         excusedDocs \subseteq Documents, crossed \in BOOLEAN, monPlan \in PlansOfMonitor
  PROVE  MonitorTypeOK
<1>1. UNION {analysed, excusedDocs} \subseteq Documents
  OBVIOUS
<1> QED BY <1>1 DEF MonitorTypeOK, IngestCalls, IngestSteps, ReportCalls, PlansOfMonitor

(* The same of the next state. *)
LEMMA TypedNext ==
  ASSUME place' \in [Documents -> Places],
         content' \in [Documents -> {"partial", "plain", "empty", "sealed", "spoiled"}],
         copying' \subseteq Documents, phase' \in {"down", "sweeping", "watching"},
         toSweep' \subseteq Names, ingest' \in [IngestThreads -> IngestCalls],
         reporting' \in [Reporters -> ReportCalls], monState' \in MonStates,
         stateFile' \in [whole : BOOLEAN, state : MonStates], monDay' \in 0 .. MaxDay,
         mails' \in [{"alert", "report"} \X (0 .. MaxDay) -> Nat], analysed' \subseteq Documents,
         excusedDocs' \subseteq Documents, crossed' \in BOOLEAN, monPlan' \in PlansOfMonitor
  PROVE  MonitorTypeOK'
<1>1. UNION {analysed', excusedDocs'} \subseteq Documents
  OBVIOUS
<1> QED BY <1>1 DEF MonitorTypeOK, IngestCalls, IngestSteps, ReportCalls, PlansOfMonitor

(* The initial state has its types. *)
LEMMA InitTyped == MonitorInit => MonitorTypeOK
<1> SUFFICES ASSUME MonitorInit PROVE MonitorTypeOK
  OBVIOUS
<1>1. place \in [Documents -> Places]
  BY DEF MonitorInit, Places
<1>2. ingest \in [IngestThreads -> IngestCalls]
  BY NoCallTyped DEF MonitorInit
<1>3. reporting \in [Reporters -> ReportCalls]
  BY NoReportTyped DEF MonitorInit
<1>4. monState \in MonStates /\ stateFile \in [whole : BOOLEAN, state : MonStates]
  BY FreshTyped DEF MonitorInit
<1>5. monDay \in 0 .. MaxDay
  BY MonitorAssumption DEF MonitorInit
<1>6. mails \in [{"alert", "report"} \X (0 .. MaxDay) -> Nat]
  BY DEF MonitorInit
<1>7. monPlan \in PlansOfMonitor
  BY MonitorAssumption DEF MonitorInit, PlansOfMonitor
<1> QED BY <1>1, <1>2, <1>3, <1>4, <1>5, <1>6, <1>7, TypedAgain DEF MonitorInit

(* Nothing has arrived, runs or was mailed: the invariant holds. *)
LEMMA InitHolds == MonitorInit => ArchiveInv /\ MailsInv
<1> SUFFICES ASSUME MonitorInit PROVE ArchiveInv /\ MailsOK
  BY DEF MailsInv
<1>1. \A t \in IngestThreads : ingest[t].step = "idle" /\ ingest[t].next = "idle"
  BY DEF MonitorInit, NoIngest
<1>2. \A r \in Reporters : reporting[r].step = "off"
  BY DEF MonitorInit, NoReport
<1>3. PlaceOK /\ StateOK /\ ThreadsOK
  BY <1>1, <1>2 DEF MonitorInit, PlaceOK, StateOK, ThreadsOK, SavesState, Noted, Moved
<1>4. \A d \in Documents : DropOK(d) /\ SealsOK(d)
  BY DEF MonitorInit, DropOK, SealsOK
<1>5. \A kind \in {"alert", "report"} : Mailed(kind) = {}
  BY DEF MonitorInit, Mailed
<1>6. \A m \in {"alert", "report"} \X (0 .. MaxDay) : mails[m] <= 1
  BY DEF MonitorInit
<1>7. MailsOK
  BY <1>1, <1>2, <1>5, <1>6 DEF MonitorInit, MailsOK
<1> QED BY <1>3, <1>4, <1>7 DEF ArchiveInv

(* A thread that goes on with its call, before it moves the file, keeps the  *)
(* invariant of the archive if it keeps the document it carries.             *)
LEMMA ThreadStep ==
  ASSUME MonitorTypeOK, ArchiveInv, NEW t \in IngestThreads, NEW c \in IngestCalls,
         ingest' = [ingest EXCEPT ![t] = c], ingest[t].step # "idle", c.step # "idle",
         c.name = ingest[t].name, ~Moved(t), c.step \notin {"seal", "sealing"},
         UNCHANGED <<place, content, copying, phase, toSweep, reporting>>,
         monState.processed \subseteq monState'.processed,
         monState'.processed \subseteq monState.processed \cup {c.name},
         stateFile'.whole => \/ stateFile'.state.processed \subseteq monState'.processed
                             \/ stateFile' = stateFile,
         excusedDocs \subseteq excusedDocs', analysed \subseteq analysed',
         c.step \in {"save", "write"} => c.next \in {"index", "choose"},
         c.step \in {"choose", "rename"} => c.name \in monState'.processed,
         c.step \in {"save", "write"} /\ c.next = "choose" => c.name \in monState'.processed,
         \A d \in Documents \ excusedDocs' :
           place[d] = "drop" /\ NameOf[d] = c.name /\ Carries(t, d) => Carries(t, d)'
  PROVE  ArchiveInv'
<1>1. ingest \in [IngestThreads -> IngestCalls] /\ ingest' \in [IngestThreads -> IngestCalls]
  BY CallsTyped
<1>2. ingest'[t] = c /\ \A u \in IngestThreads : u # t => ingest'[u] = ingest[u]
  BY <1>1
<1>3. phase # "down" /\ phase' = phase
  BY DEF ArchiveInv, StateOK
<1>4. PlaceOK'
  BY DEF ArchiveInv, PlaceOK
<1>5. StateOK'
  <2>1. phase = "sweeping" => t = Sweeper
    BY DEF ArchiveInv, StateOK
  <2>2. stateFile'.whole => stateFile'.state.processed \subseteq monState'.processed
    BY <1>3 DEF ArchiveInv, StateOK
  <2> QED BY <1>2, <1>3, <2>1, <2>2 DEF ArchiveInv, StateOK
<1>6. ThreadsOK'
  <2> SUFFICES ASSUME NEW u \in IngestThreads
               PROVE  /\ SavesState(u)' => ingest'[u].next \in {"index", "choose"}
                      /\ (Noted(u) \/ Moved(u))' => ingest'[u].name \in monState'.processed
    BY DEF ThreadsOK
  <2>1. CASE u = t
    BY <1>2, <2>1 DEF SavesState, Noted, Moved
  <2>2. CASE u # t
    BY <1>2, <2>2 DEF SavesState, Noted, Moved, ArchiveInv, ThreadsOK
  <2> QED BY <2>1, <2>2
<1>7. \A d \in Documents : AtWork(d)' = AtWork(d)
  BY <1>1, <1>2 DEF AtWork, Busy
<1>8. \A d \in Documents, u \in IngestThreads : u # t /\ Carries(u, d) => Carries(u, d)'
  BY <1>2 DEF Carries, Before, Noted, SavesState
<1>9. \A d \in Documents : Sealers(d)' = Sealers(d)
  <2> SUFFICES ASSUME NEW d \in Documents PROVE Sealers(d)' = Sealers(d)
    OBVIOUS
  <2>1. \A u \in IngestThreads : Moved(u)' <=> Moved(u)
    BY <1>2 DEF Moved
  <2>2. \A u \in IngestThreads : Moved(u) => ingest'[u] = ingest[u]
    BY <1>2
  <2> QED BY <1>7, <2>1, <2>2 DEF Sealers, AtWork, Busy
<1>10. ASSUME NEW d \in Documents \ excusedDocs' PROVE DropOK(d)' /\ SealsOK(d)'
  <2>1. d \in Documents \ excusedDocs /\ DropOK(d) /\ SealsOK(d)
    BY <1>10 DEF ArchiveInv
  <2>2. place[d] = "drop" /\ Handled(d) => Handled(d)'
    <3> SUFFICES ASSUME place[d] = "drop", Handled(d) PROVE Handled(d)'
      OBVIOUS
    <3>1. PICK u \in AtWork(d) : Carries(u, d) /\ \A v \in AtWork(d) : v = u
      BY DEF Handled
    <3>2. u \in IngestThreads /\ ingest[u].name = NameOf[d]
      BY DEF AtWork, Busy
    <3>3. Carries(u, d)'
      BY <1>8, <1>10, <3>1, <3>2
    <3>4. u \in AtWork(d)' /\ \A v \in AtWork(d)' : v = u
      BY <1>7, <2>1, <3>1
    <3> QED BY <3>3, <3>4 DEF Handled
  <2>3. place[d] = "drop" /\ AtWork(d) = {} => NameOf[d] # c.name
    BY <1>1 DEF AtWork, Busy
  <2>4. DropOK(d)'
    BY <1>3, <1>7, <2>1, <2>2, <2>3 DEF DropOK
  <2>5. \A u \in Sealers(d) : ingest'[u] = ingest[u]
    BY <1>2 DEF Sealers
  <2>6. SealsOK(d)'
    BY <1>9, <2>1, <2>5 DEF SealsOK
  <2> QED BY <2>4, <2>6
<1> QED BY <1>4, <1>5, <1>6, <1>10 DEF ArchiveInv

(* So does a thread that ends and leaves in the drop zone no document of its *)
(* name but excused ones.                                                    *)
LEMMA ThreadEnds ==
  ASSUME MonitorTypeOK, ArchiveInv, NEW t \in IngestThreads,
         ingest' = [ingest EXCEPT ![t] = NoIngest], ingest[t].step # "idle", ~Moved(t),
         UNCHANGED <<place, content, copying, phase, toSweep, reporting, stateVars, analysed>>,
         excusedDocs \subseteq excusedDocs',
         \A d \in Documents \ excusedDocs' : place[d] = "drop" => NameOf[d] # ingest[t].name
  PROVE  ArchiveInv'
<1>1. ingest \in [IngestThreads -> IngestCalls]
  BY CallsTyped
<1>2. ingest'[t] = NoIngest /\ \A u \in IngestThreads : u # t => ingest'[u] = ingest[u]
  BY <1>1
<1>3. NoIngest.step = "idle"
  BY DEF NoIngest
<1>4. phase # "down" /\ UNCHANGED <<monState, stateFile>>
  BY DEF ArchiveInv, StateOK, stateVars
<1>5. PlaceOK'
  BY DEF ArchiveInv, PlaceOK
<1>6. StateOK'
  BY <1>2, <1>3, <1>4 DEF ArchiveInv, StateOK
<1>7. ThreadsOK'
  BY <1>2, <1>3, <1>4 DEF SavesState, Noted, Moved, ArchiveInv, ThreadsOK
<1>8. \A d \in Documents : NameOf[d] # ingest[t].name => AtWork(d)' = AtWork(d)
  BY <1>1, <1>2, <1>3 DEF AtWork, Busy
<1>9. \A d \in Documents, u \in IngestThreads : u # t => (Carries(u, d) <=> Carries(u, d)')
  BY <1>2 DEF Carries, Before, Noted, SavesState
<1>10. \A d \in Documents : Sealers(d)' = Sealers(d)
  <2> SUFFICES ASSUME NEW d \in Documents PROVE Sealers(d)' = Sealers(d)
    OBVIOUS
  <2>1. \A u \in IngestThreads : Moved(u)' <=> Moved(u)
    BY <1>2, <1>3 DEF Moved
  <2>2. \A u \in IngestThreads : Moved(u) => ingest'[u] = ingest[u]
    BY <1>2
  <2> QED BY <2>1, <2>2 DEF Sealers, AtWork, Busy, Moved
<1>11. ASSUME NEW d \in Documents \ excusedDocs' PROVE DropOK(d)' /\ SealsOK(d)'
  <2>1. d \in Documents \ excusedDocs /\ DropOK(d) /\ SealsOK(d)
    BY <1>11 DEF ArchiveInv
  <2>2. place[d] = "drop" => t \notin AtWork(d) /\ AtWork(d)' = AtWork(d)
    BY <1>8, <1>11 DEF AtWork
  <2>3. place[d] = "drop" /\ Handled(d) => Handled(d)'
    <3>1. \A u \in AtWork(d) : u \in IngestThreads
      BY DEF AtWork, Busy
    <3> QED BY <1>9, <2>2, <3>1 DEF Handled
  <2>4. DropOK(d)'
    BY <1>4, <2>1, <2>2, <2>3 DEF DropOK
  <2>5. \A u \in Sealers(d) : ingest'[u] = ingest[u]
    BY <1>2 DEF Sealers
  <2>6. SealsOK(d)'
    BY <1>10, <2>1, <2>5 DEF SealsOK
  <2> QED BY <2>4, <2>6
<1> QED BY <1>5, <1>6, <1>7, <1>11 DEF ArchiveInv

(* So does a step of a reporter or of the clock, which touches no document. *)
LEMMA StateStep ==
  ASSUME MonitorTypeOK, ArchiveInv, UNCHANGED <<place, content, copying, phase, toSweep, ingest>>,
         UNCHANGED <<analysed, excusedDocs>>,
         phase = "down" => UNCHANGED <<reporting, stateFile>>,
         monState'.processed = monState.processed,
         \/ stateFile'.whole => stateFile'.state.processed \subseteq monState.processed
         \/ stateFile' = stateFile
  PROVE  ArchiveInv'
<1>1. PlaceOK'
  BY DEF ArchiveInv, PlaceOK
<1>2. StateOK'
  BY DEF ArchiveInv, StateOK
<1>3. ThreadsOK'
  BY DEF SavesState, Noted, Moved, ArchiveInv, ThreadsOK
<1>4. \A d \in Documents : AtWork(d)' = AtWork(d) /\ Sealers(d)' = Sealers(d)
  BY DEF AtWork, Busy, Sealers, Moved
<1>5. \A d \in Documents : Handled(d)' <=> Handled(d)
  BY <1>4 DEF Handled, Carries, Before, Noted, SavesState
<1>6. \A d \in Documents : (DropOK(d) => DropOK(d)') /\ (SealsOK(d) => SealsOK(d)')
  BY <1>4, <1>5 DEF DropOK, SealsOK
<1> QED BY <1>1, <1>2, <1>3, <1>6 DEF ArchiveInv

(* A step that mails nothing, decides on no mail and changes no date keeps   *)
(* the invariant of the mails.                                               *)
LEMMA MailsFrame ==
  ASSUME MonitorTypeOK, MonitorTypeOK', MailsInv, mails' = mails, crossed => crossed',
         monDay <= monDay',
         \A t \in IngestThreads : ingest'[t].step = "mail" => ingest'[t] = ingest[t],
         \A r \in Reporters : reporting'[r].step = "send" => reporting'[r] = reporting[r],
         ~crossed' => monState'.alerted = monState.alerted /\ monState'.reported = monState.reported,
         ~crossed' /\ phase' = "down" =>
           monState' = IF stateFile'.whole THEN stateFile'.state ELSE FreshState
  PROVE  MailsInv'
<1> SUFFICES ASSUME ~crossed' PROVE MailsOK'
  BY DEF MailsInv
<1>1. MailsOK /\ MaxDay \in Nat
  BY MonitorAssumption DEF MailsInv
<1>2. \A kind : Mailed(kind)' = Mailed(kind) /\ Mailed(kind) \subseteq 0 .. MaxDay
  BY DEF Mailed
<1>3. monDay \in 0 .. MaxDay /\ monDay' \in 0 .. MaxDay
  BY DEF MonitorTypeOK
<1>4. monState.alerted \in Nat /\ monState.reported \in Nat
  BY <1>1 DEF MonitorTypeOK, MonStates, NoDay
<1>5. \A t \in IngestThreads : ingest[t].day \in Nat
  BY <1>1, CallsTyped DEF IngestCalls
<1>6. \A r \in Reporters : reporting[r].day \in Nat
  BY <1>1, CallsTyped DEF ReportCalls
<1>7. /\ \A x \in Mailed("alert") : x <= monState'.alerted /\ monState'.alerted <= monDay'
      /\ \A x \in Mailed("report") : x <= monState'.reported /\ monState'.reported <= monDay'
  BY <1>1, <1>2, <1>3, <1>4 DEF MailsOK
<1>8. \A t \in IngestThreads : ingest'[t].step = "mail" =>
        /\ ingest'[t].day <= monDay'
        /\ \A x \in Mailed("alert") : x < ingest'[t].day
        /\ \A u \in IngestThreads : ingest'[u].step = "mail" => u = t
  BY <1>1, <1>3, <1>5 DEF MailsOK
<1>9. \A r \in Reporters : reporting'[r].step = "send" =>
        /\ reporting'[r].day <= monDay'
        /\ \A x \in Mailed("report") : x + Cycle <= reporting'[r].day
        /\ \A q \in Reporters : reporting'[q].step = "send" => q = r
  BY <1>1, <1>3, <1>6 DEF MailsOK
<1>10. /\ \A m \in {"alert", "report"} \X (0 .. MaxDay) : mails'[m] <= 1
       /\ \A x, y \in Mailed("report") : x < y => x + Cycle <= y
  BY <1>1 DEF MailsOK
<1> QED BY <1>2, <1>7, <1>8, <1>9, <1>10 DEF MailsOK

(* Load: the document that has the name is read, the whole of it or it is    *)
(* excused.                                                                  *)
LEMMA LoadKeeps ==
  ASSUME MonitorInv, NEW t \in IngestThreads, Load(t)
  PROVE  MonitorInv'
<1> USE DEF fileVars, stateVars
<1> DEFINE i == ingest[t]
           present == InDrop(i.name)
           d == CHOOSE e \in present : TRUE
           whole == content[d] = "plain"
           c == [i EXCEPT !.doc = d, !.whole = whole,
                          !.step = IF whole /\ d \in Risky THEN "alert" ELSE "index"]
<1>1. i \in IngestCalls /\ i.step = "load" /\ MonitorTypeOK /\ ArchiveInv /\ MailsInv
  BY CallsTyped DEF Load, MonitorInv
<1>2. CASE present = {}
  <2>1. ingest' = [ingest EXCEPT ![t] = NoIngest] /\ excusedDocs' = excusedDocs
    BY <1>2 DEF Load
  <2>2. MonitorTypeOK'
    BY <1>1, <2>1, CallsTyped, NoCallTyped, TypedNext DEF Load, MonitorTypeOK
  <2>3. \A e \in Documents : place[e] = "drop" => NameOf[e] # i.name
    BY <1>2 DEF InDrop
  <2>4. ArchiveInv'
    BY <1>1, <2>1, <2>3, ThreadEnds DEF Load, Moved
  <2>5. MailsInv'
    BY <1>1, <2>1, <2>2, CallsTyped, MailsFrame DEF Load, NoIngest, MonitorTypeOK, ArchiveInv, StateOK
  <2> QED BY <2>2, <2>4, <2>5 DEF MonitorInv
<1>3. CASE present # {}
  <2>1. d \in Documents /\ NameOf[d] = i.name /\ place[d] = "drop"
    BY <1>3 DEF InDrop
  <2>2. ingest' = [ingest EXCEPT ![t] = c]
        /\ excusedDocs' = IF whole THEN excusedDocs ELSE excusedDocs \cup {d}
    BY <1>1, <1>3, CallsTyped DEF Load
  <2>3. c \in IngestCalls /\ c.name = i.name /\ c.step \in {"alert", "index"} /\ c.doc = d /\ c.whole = whole
    BY <1>1, <2>1 DEF IngestCalls, IngestSteps
  <2> HIDE DEF c, d, whole
  <2>4. ingest'[t] = c /\ \A u \in IngestThreads : u # t => ingest'[u] = ingest[u]
    BY <2>2, CallsTyped, <1>1
  <2>5. MonitorTypeOK'
    BY <1>1, <2>1, <2>2, <2>3, CallsTyped, TypedNext DEF Load, MonitorTypeOK
  <2>6. ASSUME NEW e \in Documents \ excusedDocs', place[e] = "drop", NameOf[e] = c.name
        PROVE  Carries(t, e)'
    <3>1. e = d
      BY <1>1, <2>1, <2>3, <2>6 DEF ArchiveInv, PlaceOK
    <3>2. whole
      BY <2>2, <2>6, <3>1
    <3>3. content' = content
      BY DEF Load
    <3> QED BY <2>3, <2>4, <3>1, <3>2, <3>3 DEF Carries, Before, whole
  <2>7. UNCHANGED <<place, content, copying, phase, toSweep, reporting, monState, stateFile, monDay,
                    mails, analysed, crossed>>
    BY DEF Load
  <2>8. excusedDocs \subseteq excusedDocs' /\ monDay \in 0 .. MaxDay
    BY <1>1, <2>2 DEF MonitorTypeOK
  <2>9. ArchiveInv'
    BY <1>1, <2>2, <2>3, <2>6, <2>7, <2>8, ThreadStep DEF Moved
  <2>10. phase # "down"
    BY <1>1 DEF ArchiveInv, StateOK
  <2>11. MailsInv'
    BY <1>1, <2>3, <2>4, <2>5, <2>7, <2>8, <2>10, MailsFrame
  <2> QED BY <2>5, <2>9, <2>11 DEF MonitorInv
<1> QED BY <1>2, <1>3

(* IngestError: the document stays in the drop zone and is excused. *)
LEMMA IngestErrorKeeps ==
  ASSUME MonitorInv, NEW t \in IngestThreads, IngestError(t)
  PROVE  MonitorInv'
<1> USE DEF fileVars, stateVars
<1>1. ingest[t].step \in {"load", "index"} /\ MonitorTypeOK /\ ArchiveInv /\ MailsInv
  BY DEF IngestError, MonitorInv
<1>2. ingest' = [ingest EXCEPT ![t] = NoIngest] /\ excusedDocs' = excusedDocs \cup InDrop(ingest[t].name)
  BY DEF IngestError
<1>3. InDrop(ingest[t].name) \subseteq Documents
  BY DEF InDrop
<1>4. MonitorTypeOK'
  BY <1>1, <1>2, <1>3, CallsTyped, NoCallTyped, TypedNext DEF IngestError, MonitorTypeOK
<1>5. \A e \in Documents \ excusedDocs' : place[e] = "drop" => NameOf[e] # ingest[t].name
  BY <1>2 DEF InDrop
<1>6. ArchiveInv'
  BY <1>1, <1>2, <1>5, ThreadEnds DEF IngestError, Moved
<1>7. MailsInv'
  BY <1>1, <1>2, <1>4, CallsTyped, MailsFrame DEF IngestError, NoIngest, MonitorTypeOK, ArchiveInv, StateOK
<1> QED BY <1>4, <1>6, <1>7 DEF MonitorInv

(* CheckAlert: who finds another date than today's will send the only alert  *)
(* of today.                                                                 *)
LEMMA CheckAlertKeeps ==
  ASSUME MonitorInv, NEW t \in IngestThreads, CheckAlert(t)
  PROVE  MonitorInv'
<1> USE DEF fileVars, stateVars
<1> DEFINE i == ingest[t]
           c == IF monState.alerted = monDay THEN [i EXCEPT !.step = "index"]
                ELSE [i EXCEPT !.step = "mail", !.day = monDay]
<1>1. i \in IngestCalls /\ i.step = "alert" /\ MonitorTypeOK /\ ArchiveInv /\ MailsInv /\ MaxDay \in Nat
  BY CallsTyped, MonitorAssumption DEF CheckAlert, MonitorInv
<1>2. ingest' = [ingest EXCEPT ![t] = c] /\ (crossed => crossed') /\ crossed' \in BOOLEAN
  BY <1>1, CallsTyped DEF CheckAlert, Go, MonitorTypeOK
<1>3. c \in IngestCalls /\ c.step \in {"mail", "index"} /\ c.name = i.name /\ c.doc = i.doc /\ c.whole = i.whole
  BY <1>1 DEF IngestCalls, IngestSteps, MonitorTypeOK
<1>4. c.step = "mail" => c.day = monDay /\ monState.alerted # monDay
  BY <1>1 DEF IngestCalls
<1> HIDE DEF c
<1>5. ingest'[t] = c /\ \A u \in IngestThreads : u # t => ingest'[u] = ingest[u]
  BY <1>2, CallsTyped, <1>1
<1>6. MonitorTypeOK'
  BY <1>1, <1>2, <1>3, CallsTyped, TypedNext DEF CheckAlert, MonitorTypeOK
<1>7. \A d \in Documents : Carries(t, d) => Carries(t, d)'
  BY <1>1, <1>3, <1>5 DEF Carries, Before, Noted, SavesState, CheckAlert
<1>8. ArchiveInv'
  BY <1>1, <1>2, <1>3, <1>7, ThreadStep DEF CheckAlert, Moved, ArchiveInv, StateOK
<1>9. MailsInv'
  <2>1. CASE c.step = "index"
    BY <1>1, <1>2, <1>3, <1>5, <1>6, <2>1, MailsFrame DEF CheckAlert, MonitorTypeOK, ArchiveInv, StateOK
  <2>2. CASE c.step = "mail"
    <3> SUFFICES ASSUME ~crossed' PROVE MailsOK'
      BY DEF MailsInv
    <3>1. monState.alerted # monDay /\ c.day = monDay
      BY <1>4, <2>2
    <3>2. ~crossed /\ \A u \in IngestThreads \ {t} : ingest[u].step # "mail"
      BY <3>1 DEF CheckAlert, Busy
    <3>3. MailsOK /\ phase # "down" /\ phase' = phase
      BY <1>1, <3>2 DEF MailsInv, ArchiveInv, StateOK, CheckAlert
    <3>4. monDay \in 0 .. MaxDay /\ monState.alerted \in Nat
      BY <1>1 DEF MonitorTypeOK, MonStates, NoDay
    <3>5. \A x \in Mailed("alert") : x < monDay
      <4>1. Mailed("alert") \subseteq 0 .. MaxDay
        BY DEF Mailed
      <4>2. \A x \in Mailed("alert") : x <= monState.alerted /\ monState.alerted <= monDay
        BY <3>3 DEF MailsOK
      <4> QED BY <1>1, <3>1, <3>4, <4>1, <4>2
    <3>6. UNCHANGED <<mails, monState, reporting, monDay, stateFile>> /\ \A kind : Mailed(kind)' = Mailed(kind)
      BY DEF CheckAlert, Mailed
    <3>7. \A u \in IngestThreads : ingest'[u].step = "mail" => u = t
      BY <1>5, <3>2
    <3>8. \A u \in IngestThreads : ingest'[u].step = "mail" =>
        /\ ingest'[u].day <= monDay
        /\ \A x \in Mailed("alert") : x < ingest'[u].day
        /\ \A v \in IngestThreads : ingest'[v].step = "mail" => v = u
      BY <1>1, <1>5, <3>1, <3>4, <3>5, <3>7
    <3> QED BY <3>3, <3>6, <3>8 DEF MailsOK
  <2> QED BY <1>3, <2>1, <2>2
<1> QED BY <1>6, <1>8, <1>9 DEF MonitorInv

(* What a save writes is the state in memory, whole or not. *)
LEMMA WrittenState ==
  ASSUME MonitorTypeOK, StateWritten
  PROVE  stateFile' \in [whole : BOOLEAN, state : MonStates] /\ stateFile'.state = monState
<1>1. monState \in MonStates
  BY DEF MonitorTypeOK
<1>2. \/ stateFile' = [whole |-> TRUE, state |-> monState]
      \/ stateFile' = [whole |-> FALSE, state |-> monState]
  BY DEF StateWritten
<1> DEFINE written(whole) == [whole |-> whole, state |-> monState]
<1>3. \A whole \in BOOLEAN : written(whole) \in [whole : BOOLEAN, state : MonStates]
                             /\ written(whole).state = monState
  BY <1>1
<1>4. stateFile' = written(TRUE) \/ stateFile' = written(FALSE)
  BY <1>2
<1> HIDE DEF written
<1> QED BY <1>3, <1>4

(* Index: what was read whole is analysed. *)
LEMMA IndexKeeps ==
  ASSUME MonitorInv, NEW t \in IngestThreads, Index(t)
  PROVE  MonitorInv'
<1> USE DEF fileVars, stateVars
<1> DEFINE i == ingest[t]
           c == [i EXCEPT !.step = "record"]
<1>1. i \in IngestCalls /\ i.step = "index" /\ MonitorTypeOK /\ ArchiveInv /\ MailsInv
  BY CallsTyped DEF Index, MonitorInv
<1>2. ingest' = [ingest EXCEPT ![t] = c]
  BY <1>1, CallsTyped DEF Index, Go
<1>3. c \in IngestCalls /\ c.step = "record" /\ c.name = i.name /\ c.doc = i.doc /\ c.whole = i.whole
      /\ i.whole \in BOOLEAN /\ i.doc \in Documents
  BY <1>1 DEF IngestCalls, IngestSteps
<1> HIDE DEF c
<1>4. ingest'[t] = c /\ \A u \in IngestThreads : u # t => ingest'[u] = ingest[u]
  BY <1>1, <1>2, CallsTyped
<1>5. analysed' = (IF i.whole THEN analysed \cup {i.doc} ELSE analysed)
      /\ UNCHANGED <<place, content, copying, phase, toSweep, reporting, monState, stateFile, monDay,
                    mails, excusedDocs, crossed, monPlan>>
  BY DEF Index
<1>6. MonitorTypeOK'
  BY <1>1, <1>2, <1>3, <1>5, CallsTyped, TypedNext DEF MonitorTypeOK
<1>7. \A d \in Documents : Carries(t, d) => Carries(t, d)'
  BY <1>1, <1>3, <1>4, <1>5 DEF Carries, Before, Noted, SavesState
<1>8. ArchiveInv'
  BY <1>1, <1>2, <1>3, <1>5, <1>7, ThreadStep DEF Moved
<1>9. phase # "down" /\ monDay \in 0 .. MaxDay
  BY <1>1 DEF ArchiveInv, StateOK, MonitorTypeOK
<1>10. MailsInv'
  BY <1>1, <1>3, <1>4, <1>5, <1>6, <1>9, MailsFrame
<1> QED BY <1>6, <1>8, <1>10 DEF MonitorInv

(* RecordName: the name is recorded while its file is in the drop zone, and  *)
(* its thread carries it on.                                                 *)
LEMMA RecordNameKeeps ==
  ASSUME MonitorInv, NEW t \in IngestThreads, RecordName(t)
  PROVE  MonitorInv'
<1> USE DEF fileVars, stateVars
<1> DEFINE i == ingest[t]
           c == [i EXCEPT !.step = "save", !.next = "choose"]
<1>1. i \in IngestCalls /\ i.step = "record" /\ MonitorTypeOK /\ ArchiveInv /\ MailsInv
  BY CallsTyped DEF RecordName, MonitorInv
<1>2. ingest' = [ingest EXCEPT ![t] = c]
  BY <1>1, CallsTyped DEF RecordName
<1>3. c \in IngestCalls /\ c.step = "save" /\ c.next = "choose" /\ c.name = i.name /\ c.doc = i.doc
      /\ c.whole = i.whole /\ i.name \in Names
  BY <1>1 DEF IngestCalls, IngestSteps
<1> HIDE DEF c
<1>4. ingest'[t] = c /\ \A u \in IngestThreads : u # t => ingest'[u] = ingest[u]
  BY <1>1, <1>2, CallsTyped
<1>5. UNCHANGED <<place, content, copying, phase, toSweep, reporting, stateFile, monDay,
                  mails, analysed, excusedDocs, crossed, monPlan>>
  BY DEF RecordName
<1>6. monState' \in MonStates /\ monState'.processed = monState.processed \cup {i.name}
      /\ monState'.alerted = monState.alerted /\ monState'.reported = monState.reported
  BY <1>1, <1>3 DEF RecordName, MonStates, MonitorTypeOK
<1>7. MonitorTypeOK'
  BY <1>1, <1>2, <1>3, <1>5, <1>6, CallsTyped, TypedNext DEF MonitorTypeOK
<1>8. \A d \in Documents : Carries(t, d) => Carries(t, d)'
  BY <1>1, <1>3, <1>4, <1>5 DEF Carries, Before, Noted, SavesState
<1>9. ArchiveInv'
  BY <1>1, <1>2, <1>3, <1>5, <1>6, <1>8, ThreadStep DEF Moved
<1>10. phase # "down" /\ monDay \in 0 .. MaxDay
  BY <1>1 DEF ArchiveInv, StateOK, MonitorTypeOK
<1>11. MailsInv'
  BY <1>1, <1>3, <1>4, <1>5, <1>6, <1>7, <1>10, MailsFrame
<1> QED BY <1>7, <1>9, <1>11 DEF MonitorInv

(* ChooseDest keeps the invariant. *)
LEMMA ChooseDestKeeps ==
  ASSUME MonitorInv, NEW t \in IngestThreads, ChooseDest(t)
  PROVE  MonitorInv'
<1> USE DEF fileVars, stateVars
<1> DEFINE i == ingest[t]
           c == [i EXCEPT !.step = "rename",
                          !.dest = IF Archived(i.name, "archive") = {} THEN "archive" ELSE "stamped"]
<1>1. i \in IngestCalls /\ i.step = "choose" /\ MonitorTypeOK /\ ArchiveInv /\ MailsInv
  BY CallsTyped DEF ChooseDest, MonitorInv
<1>2. ingest' = [ingest EXCEPT ![t] = c]
  BY <1>1, CallsTyped DEF ChooseDest
<1>3. c \in IngestCalls /\ c.step = "rename" /\ c.name = i.name /\ c.doc = i.doc /\ c.whole = i.whole
  BY <1>1 DEF IngestCalls, IngestSteps
<1> HIDE DEF c
<1>4. ingest'[t] = c /\ \A u \in IngestThreads : u # t => ingest'[u] = ingest[u]
  BY <1>1, <1>2, CallsTyped
<1>5. UNCHANGED <<place, content, copying, phase, toSweep, reporting, monState, stateFile, monDay,
                  mails, analysed, excusedDocs, crossed, monPlan>>
  BY DEF ChooseDest
<1>6. MonitorTypeOK'
  BY <1>1, <1>2, <1>3, <1>5, CallsTyped, TypedNext DEF MonitorTypeOK
<1>7. i.name \in monState.processed
  BY <1>1 DEF ArchiveInv, ThreadsOK, Noted
<1>8. \A d \in Documents : Carries(t, d) => Carries(t, d)'
  BY <1>1, <1>3, <1>4, <1>5 DEF Carries, Before, Noted, SavesState
<1>9. ArchiveInv'
  BY <1>1, <1>2, <1>3, <1>5, <1>7, <1>8, ThreadStep DEF Moved
<1>10. phase # "down" /\ monDay \in 0 .. MaxDay
  BY <1>1 DEF ArchiveInv, StateOK, MonitorTypeOK
<1>11. MailsInv'
  BY <1>1, <1>3, <1>4, <1>5, <1>6, <1>10, MailsFrame
<1> QED BY <1>6, <1>9, <1>11 DEF MonitorInv

(* TruncateState: no whole file says anything. *)
LEMMA TruncateStateKeeps ==
  ASSUME MonitorInv, NEW t \in IngestThreads, TruncateState(t)
  PROVE  MonitorInv'
<1> USE DEF fileVars, stateVars
<1> DEFINE i == ingest[t]
           c == [i EXCEPT !.step = "write"]
<1>1. i \in IngestCalls /\ i.step = "save" /\ MonitorTypeOK /\ ArchiveInv /\ MailsInv
  BY CallsTyped DEF TruncateState, MonitorInv
<1>2. ingest' = [ingest EXCEPT ![t] = c]
  BY <1>1, CallsTyped DEF TruncateState, Go
<1>3. c \in IngestCalls /\ c.step = "write" /\ c.name = i.name /\ c.doc = i.doc
      /\ c.whole = i.whole /\ c.next = i.next
  BY <1>1 DEF IngestCalls, IngestSteps
<1> HIDE DEF c
<1>4. ingest'[t] = c /\ \A u \in IngestThreads : u # t => ingest'[u] = ingest[u]
  BY <1>1, <1>2, CallsTyped
<1>5. UNCHANGED <<place, content, copying, phase, toSweep, reporting, monState, monDay,
                  mails, analysed, excusedDocs, crossed, monPlan>>
  BY DEF TruncateState
<1>6. stateFile' \in [whole : BOOLEAN, state : MonStates] /\ stateFile'.whole = FALSE
  BY <1>1 DEF TruncateState, MonitorTypeOK
<1>7. MonitorTypeOK'
  BY <1>1, <1>2, <1>3, <1>5, <1>6, CallsTyped, TypedNext DEF MonitorTypeOK
<1>8. i.next \in {"index", "choose"} /\ (i.next = "choose" => i.name \in monState.processed)
  BY <1>1 DEF ArchiveInv, ThreadsOK, Noted, SavesState
<1>9. \A d \in Documents : Carries(t, d) => Carries(t, d)'
  BY <1>1, <1>3, <1>4, <1>5 DEF Carries, Before, Noted, SavesState
<1>10. ArchiveInv'
  BY <1>1, <1>2, <1>3, <1>5, <1>6, <1>8, <1>9, ThreadStep DEF Moved
<1>11. phase # "down" /\ monDay \in 0 .. MaxDay
  BY <1>1 DEF ArchiveInv, StateOK, MonitorTypeOK
<1>12. MailsInv'
  BY <1>1, <1>3, <1>4, <1>5, <1>7, <1>11, MailsFrame
<1> QED BY <1>7, <1>10, <1>12 DEF MonitorInv

(* WriteState: the file has what memory has, and the call comes back. *)
LEMMA WriteStateKeeps ==
  ASSUME MonitorInv, NEW t \in IngestThreads, WriteState(t)
  PROVE  MonitorInv'
<1> USE DEF fileVars, stateVars
<1> DEFINE i == ingest[t]
           c == [i EXCEPT !.step = i.next]
<1>1. i \in IngestCalls /\ i.step = "write" /\ MonitorTypeOK /\ ArchiveInv /\ MailsInv
  BY CallsTyped DEF WriteState, MonitorInv
<1>2. ingest' = [ingest EXCEPT ![t] = c]
  BY <1>1, CallsTyped DEF WriteState, Go
<1>3. i.next \in {"index", "choose"} /\ (i.next = "choose" => i.name \in monState.processed)
  BY <1>1 DEF ArchiveInv, ThreadsOK, Noted, SavesState
<1>4. c \in IngestCalls /\ c.step = i.next /\ c.name = i.name /\ c.doc = i.doc
      /\ c.whole = i.whole /\ c.next = i.next
  BY <1>1, <1>3 DEF IngestCalls, IngestSteps
<1> HIDE DEF c
<1>5. ingest'[t] = c /\ \A u \in IngestThreads : u # t => ingest'[u] = ingest[u]
  BY <1>1, <1>2, CallsTyped
<1>6. UNCHANGED <<place, content, copying, phase, toSweep, reporting, monState, monDay,
                  mails, analysed, excusedDocs, crossed, monPlan>>
  BY DEF WriteState
<1>7. stateFile' \in [whole : BOOLEAN, state : MonStates] /\ stateFile'.state = monState
  BY <1>1, WrittenState DEF WriteState
<1>8. MonitorTypeOK'
  BY <1>1, <1>2, <1>4, <1>6, <1>7, CallsTyped, TypedNext DEF MonitorTypeOK
<1>9. \A d \in Documents : Carries(t, d) => Carries(t, d)'
  BY <1>1, <1>3, <1>4, <1>5, <1>6 DEF Carries, Before, Noted, SavesState
<1>10. ArchiveInv'
  BY <1>1, <1>2, <1>3, <1>4, <1>6, <1>7, <1>9, ThreadStep DEF Moved
<1>11. phase # "down" /\ monDay \in 0 .. MaxDay
  BY <1>1 DEF ArchiveInv, StateOK, MonitorTypeOK
<1>12. MailsInv'
  BY <1>1, <1>3, <1>4, <1>5, <1>6, <1>8, <1>11, MailsFrame
<1> QED BY <1>8, <1>10, <1>12 DEF MonitorInv

(* SendAlert: the mail is the first of its day and its date is remembered. *)
LEMMA SendAlertKeeps ==
  ASSUME MonitorInv, NEW t \in IngestThreads, NEW success \in BOOLEAN, SendAlert(t, success)
  PROVE  MonitorInv'
<1> USE DEF fileVars, stateVars
<1> DEFINE i == ingest[t]
           c == IF success THEN [i EXCEPT !.step = "save", !.next = "index"]
                ELSE [i EXCEPT !.step = "index"]
           sent == <<"alert", i.day>>
<1>1. i \in IngestCalls /\ i.step = "mail" /\ MonitorTypeOK /\ ArchiveInv /\ MailsInv /\ MaxDay \in Nat
  BY CallsTyped, MonitorAssumption DEF SendAlert, MonitorInv
<1>2. ingest' = [ingest EXCEPT ![t] = c]
  BY <1>1, CallsTyped DEF SendAlert, Go
<1>3. c \in IngestCalls /\ c.step \in {"save", "index"} /\ (c.step = "save" => c.next = "index")
      /\ c.name = i.name /\ c.doc = i.doc /\ c.whole = i.whole /\ i.day \in 0 .. MaxDay
  BY <1>1 DEF IngestCalls, IngestSteps
<1> HIDE DEF c
<1>4. ingest'[t] = c /\ \A u \in IngestThreads : u # t => ingest'[u] = ingest[u]
  BY <1>1, <1>2, CallsTyped
<1>5. UNCHANGED <<place, content, copying, phase, toSweep, reporting, stateFile, monDay,
                  analysed, excusedDocs, crossed, monPlan>>
  BY DEF SendAlert
<1>6. monState' \in MonStates /\ monState'.processed = monState.processed
      /\ monState'.reported = monState.reported
      /\ (success => monState'.alerted = i.day) /\ (~success => monState' = monState)
  <2>1. monState \in MonStates /\ i.day \in 0 .. NoDay
    BY <1>1, <1>3 DEF MonitorTypeOK, NoDay
  <2>2. monState' = IF success THEN [monState EXCEPT !.alerted = i.day] ELSE monState
    BY DEF SendAlert
  <2> QED BY <2>1, <2>2 DEF MonStates
<1>7. success => mails' = [mails EXCEPT ![sent] = @ + 1]
  BY DEF SendAlert
<1>8. ~success => mails' = mails
  BY DEF SendAlert
<1>9. mails \in [{"alert", "report"} \X (0 .. MaxDay) -> Nat] /\ sent \in {"alert", "report"} \X (0 .. MaxDay)
  BY <1>1, <1>3 DEF MonitorTypeOK
<1>10. mails' \in [{"alert", "report"} \X (0 .. MaxDay) -> Nat]
  <2> HIDE DEF sent
  <2> QED BY <1>7, <1>8, <1>9
<1>11. MonitorTypeOK'
  BY <1>1, <1>2, <1>3, <1>5, <1>6, <1>10, CallsTyped, TypedNext DEF MonitorTypeOK
<1>12. \A d \in Documents : Carries(t, d) => Carries(t, d)'
  BY <1>1, <1>3, <1>4, <1>5 DEF Carries, Before, Noted, SavesState
<1>13. ArchiveInv'
  BY <1>1, <1>2, <1>3, <1>5, <1>6, <1>12, ThreadStep DEF Moved
<1>14. phase # "down" /\ monDay \in 0 .. MaxDay
  BY <1>1 DEF ArchiveInv, StateOK, MonitorTypeOK
<1>15. MailsInv'
  <2>1. CASE ~success
    BY <1>1, <1>3, <1>4, <1>5, <1>6, <1>8, <1>11, <1>14, <2>1, MailsFrame
  <2>2. CASE success
    <3> SUFFICES ASSUME ~crossed' PROVE MailsOK'
      BY DEF MailsInv
    <3>1. MailsOK
      BY <1>1, <1>5 DEF MailsInv
    <3>2. i.day <= monDay /\ (\A x \in Mailed("alert") : x < i.day)
          /\ (\A u \in IngestThreads : ingest[u].step = "mail" => u = t)
      BY <1>1, <3>1 DEF MailsOK
    <3>3. \A u \in IngestThreads : ingest'[u].step # "mail"
      BY <1>3, <1>4, <3>2
    <3>4. mails[sent] = 0
      <4>1. i.day \notin Mailed("alert")
        BY <1>3, <3>2
      <4> QED BY <1>3, <1>9, <4>1 DEF Mailed
    <3>5. \A m \in {"alert", "report"} \X (0 .. MaxDay) : mails'[m] = IF m = sent THEN 1 ELSE mails[m]
      <4> HIDE DEF sent
      <4> QED BY <1>7, <1>9, <2>2, <3>4
    <3>6. \A x \in Mailed("alert")' : x \in Mailed("alert") \/ x = i.day
      BY <3>5 DEF Mailed
    <3>7. Mailed("report")' = Mailed("report")
      BY <3>5 DEF Mailed
    <3>8. \A x \in Mailed("alert")' : x <= i.day
      <4>1. Mailed("alert") \subseteq 0 .. MaxDay
        BY DEF Mailed
      <4> QED BY <1>3, <3>2, <3>6, <4>1
    <3>9. \A m \in {"alert", "report"} \X (0 .. MaxDay) : mails'[m] <= 1
      BY <3>1, <3>5 DEF MailsOK
    <3> QED BY <1>5, <1>6, <1>14, <2>2, <3>1, <3>2, <3>3, <3>7, <3>8, <3>9 DEF MailsOK
  <2> QED BY <2>1, <2>2
<1> QED BY <1>11, <1>13, <1>15 DEF MonitorInv

(* CheckReport: a report that is due is a cycle after every other. *)
LEMMA CheckReportKeeps ==
  ASSUME MonitorInv, NEW r \in Reporters, CheckReport(r)
  PROVE  MonitorInv'
<1> USE DEF fileVars, stateVars
<1> DEFINE c == [step |-> "send", day |-> monDay]
<1>1. MonitorTypeOK /\ ArchiveInv /\ MailsInv /\ MaxDay \in Nat /\ Cycle \in Nat \ {0}
  BY MonitorAssumption DEF MonitorInv
<1>2. reporting' = [reporting EXCEPT ![r] = c] /\ c \in ReportCalls
  BY <1>1 DEF CheckReport, ReportCalls, MonitorTypeOK
<1>3. c.step = "send" /\ c.day = monDay
  OBVIOUS
<1> HIDE DEF c
<1>4. reporting'[r] = c /\ \A q \in Reporters : q # r => reporting'[q] = reporting[q]
  BY <1>1, <1>2, CallsTyped
<1>5. UNCHANGED <<place, content, copying, phase, toSweep, ingest, monState, stateFile, monDay,
                  mails, analysed, excusedDocs, monPlan>> /\ crossed' \in BOOLEAN
  BY <1>1 DEF CheckReport, MonitorTypeOK
<1>6. MonitorTypeOK'
  BY <1>1, <1>2, <1>5, CallsTyped, TypedNext DEF MonitorTypeOK
<1>7. phase # "down"
  BY <1>1 DEF CheckReport, ArchiveInv, StateOK
<1>8. ArchiveInv'
  BY <1>1, <1>5, <1>7, StateStep
<1>9. MailsInv'
  <2> SUFFICES ASSUME ~crossed' PROVE MailsOK'
    BY DEF MailsInv
  <2>1. ~crossed /\ \A q \in Reporters \ {r} : reporting[q].step # "send"
    BY DEF CheckReport
  <2>2. MailsOK /\ Due(monState.reported)
    BY <1>1, <2>1 DEF MailsInv, CheckReport
  <2>3. monDay \in 0 .. MaxDay /\ monState.reported \in Nat
    BY <1>1 DEF MonitorTypeOK, MonStates, NoDay
  <2>4. \A x \in Mailed("report") : x + Cycle <= monDay
    <3>1. Mailed("report") \subseteq 0 .. MaxDay
      BY DEF Mailed
    <3>2. \A x \in Mailed("report") : x <= monState.reported /\ monState.reported <= monDay
      BY <2>2 DEF MailsOK
    <3> QED BY <1>1, <2>2, <2>3, <3>1, <3>2 DEF Due, NoDay
  <2>5. \A kind : Mailed(kind)' = Mailed(kind)
    BY <1>5 DEF Mailed
  <2>6. \A q \in Reporters : reporting'[q].step = "send" => q = r
    BY <1>4, <2>1
  <2>7. \A q \in Reporters : reporting'[q].step = "send" =>
      /\ reporting'[q].day <= monDay
      /\ \A x \in Mailed("report") : x + Cycle <= reporting'[q].day
      /\ \A p \in Reporters : reporting'[p].step = "send" => p = q
    BY <1>1, <1>3, <1>4, <2>3, <2>4, <2>6
  <2> QED BY <1>5, <1>7, <2>2, <2>5, <2>7 DEF MailsOK
<1> QED BY <1>6, <1>8, <1>9 DEF MonitorInv

(* SendReport: the report is a cycle after every other and its date is       *)
(* remembered.                                                               *)
LEMMA SendReportKeeps ==
  ASSUME MonitorInv, NEW r \in Reporters, NEW success \in BOOLEAN, SendReport(r, success)
  PROVE  MonitorInv'
<1> USE DEF fileVars, stateVars
<1> DEFINE c == NoReport("save")
           day == reporting[r].day
           sent == <<"report", day>>
<1>1. MonitorTypeOK /\ ArchiveInv /\ MailsInv /\ MaxDay \in Nat /\ Cycle \in Nat \ {0}
  BY MonitorAssumption DEF MonitorInv
<1>2. reporting' = [reporting EXCEPT ![r] = c] /\ reporting[r].step = "send"
  BY DEF SendReport
<1>3. c \in ReportCalls /\ c.step = "save" /\ day \in 0 .. MaxDay
  BY <1>1, CallsTyped, NoReportTyped DEF NoReport, ReportCalls
<1> HIDE DEF c
<1>4. reporting'[r] = c /\ \A q \in Reporters : q # r => reporting'[q] = reporting[q]
  BY <1>1, <1>2, CallsTyped
<1>5. UNCHANGED <<place, content, copying, phase, toSweep, ingest, stateFile, monDay,
                  analysed, excusedDocs, crossed, monPlan>>
  BY DEF SendReport
<1>6. monState' \in MonStates /\ monState'.processed = monState.processed
      /\ monState'.alerted = monState.alerted
      /\ (success => monState'.reported = day) /\ (~success => monState' = monState)
  <2>1. monState \in MonStates /\ day \in 0 .. NoDay
    BY <1>1, <1>3 DEF MonitorTypeOK, NoDay
  <2>2. monState' = IF success THEN [monState EXCEPT !.reported = day] ELSE monState
    BY DEF SendReport
  <2> QED BY <2>1, <2>2 DEF MonStates
<1>7. success => mails' = [mails EXCEPT ![sent] = @ + 1]
  BY DEF SendReport
<1>8. ~success => mails' = mails
  BY DEF SendReport
<1>9. mails \in [{"alert", "report"} \X (0 .. MaxDay) -> Nat] /\ sent \in {"alert", "report"} \X (0 .. MaxDay)
  BY <1>1, <1>3 DEF MonitorTypeOK
<1>10. mails' \in [{"alert", "report"} \X (0 .. MaxDay) -> Nat]
  <2> HIDE DEF sent
  <2> QED BY <1>7, <1>8, <1>9
<1>11. MonitorTypeOK'
  BY <1>1, <1>2, <1>3, <1>5, <1>6, <1>10, CallsTyped, TypedNext DEF MonitorTypeOK
<1>12. phase # "down" /\ monDay \in 0 .. MaxDay
  BY <1>1, <1>2 DEF ArchiveInv, StateOK, MonitorTypeOK
<1>13. ArchiveInv'
  BY <1>1, <1>5, <1>6, <1>12, StateStep
<1>14. MailsInv'
  <2>1. CASE ~success
    BY <1>1, <1>3, <1>4, <1>5, <1>6, <1>8, <1>11, <1>12, <2>1, MailsFrame
  <2>2. CASE success
    <3> SUFFICES ASSUME ~crossed' PROVE MailsOK'
      BY DEF MailsInv
    <3>1. MailsOK
      BY <1>1, <1>5 DEF MailsInv
    <3>2. day <= monDay /\ (\A x \in Mailed("report") : x + Cycle <= day)
          /\ (\A q \in Reporters : reporting[q].step = "send" => q = r)
      BY <1>2, <3>1 DEF MailsOK
    <3>3. \A q \in Reporters : reporting'[q].step # "send"
      BY <1>3, <1>4, <3>2
    <3>4. Mailed("report") \subseteq 0 .. MaxDay
      BY DEF Mailed
    <3>5. mails[sent] = 0
      <4>1. day \notin Mailed("report")
        BY <1>1, <1>3, <3>2
      <4> QED BY <1>3, <1>9, <4>1 DEF Mailed
    <3>6. \A m \in {"alert", "report"} \X (0 .. MaxDay) : mails'[m] = IF m = sent THEN 1 ELSE mails[m]
      <4> HIDE DEF sent
      <4> QED BY <1>7, <1>9, <2>2, <3>5
    <3>7. \A x \in Mailed("report")' : x \in Mailed("report") \/ x = day
      BY <3>6 DEF Mailed
    <3>8. Mailed("alert")' = Mailed("alert")
      BY <3>6 DEF Mailed
    <3> HIDE DEF day
    <3>9. \A x \in Mailed("report")' : x <= day
      BY <1>1, <1>3, <3>2, <3>4, <3>7
    <3>10. \A x, y \in Mailed("report")' : x < y => x + Cycle <= y
      <4>1. \A x, y \in Mailed("report") : x < y => x + Cycle <= y
        BY <3>1 DEF MailsOK
      <4> QED BY <1>1, <1>3, <3>2, <3>4, <3>7, <4>1
    <3>11. \A m \in {"alert", "report"} \X (0 .. MaxDay) : mails'[m] <= 1
      BY <3>1, <3>6 DEF MailsOK
    <3> QED BY <1>5, <1>6, <1>12, <2>2, <3>1, <3>2, <3>3, <3>8, <3>9, <3>10, <3>11 DEF MailsOK
  <2> QED BY <2>1, <2>2
<1> QED BY <1>11, <1>13, <1>14 DEF MonitorInv

(* Heartbeat: no whole file says anything. *)
LEMMA HeartbeatKeeps ==
  ASSUME MonitorInv, NEW r \in Reporters, Heartbeat(r)
  PROVE  MonitorInv'
<1> USE DEF fileVars, stateVars
<1> DEFINE c == NoReport("write")
<1>1. MonitorTypeOK /\ ArchiveInv /\ MailsInv
  BY DEF MonitorInv
<1>2. reporting' = [reporting EXCEPT ![r] = c] /\ reporting[r].step # "off"
  BY DEF Heartbeat
<1>3. c \in ReportCalls /\ c.step = "write"
  BY NoReportTyped DEF NoReport
<1> HIDE DEF c
<1>4. reporting'[r] = c /\ \A q \in Reporters : q # r => reporting'[q] = reporting[q]
  BY <1>1, <1>2, CallsTyped
<1>5. UNCHANGED <<place, content, copying, phase, toSweep, ingest, monState, monDay,
                  mails, analysed, excusedDocs, crossed, monPlan>>
  BY DEF Heartbeat
<1>6. stateFile' \in [whole : BOOLEAN, state : MonStates] /\ stateFile'.whole = FALSE
  BY <1>1 DEF Heartbeat, MonitorTypeOK
<1>7. MonitorTypeOK'
  BY <1>1, <1>2, <1>3, <1>5, <1>6, CallsTyped, TypedNext DEF MonitorTypeOK
<1>8. phase # "down" /\ monDay \in 0 .. MaxDay
  BY <1>1, <1>2 DEF ArchiveInv, StateOK, MonitorTypeOK
<1>9. ArchiveInv'
  BY <1>1, <1>5, <1>6, <1>8, StateStep
<1>10. MailsInv'
  BY <1>1, <1>3, <1>4, <1>5, <1>7, <1>8, MailsFrame
<1> QED BY <1>7, <1>9, <1>10 DEF MonitorInv

(* EndHeartbeat: the file has what memory has. *)
LEMMA EndHeartbeatKeeps ==
  ASSUME MonitorInv, NEW r \in Reporters, EndHeartbeat(r)
  PROVE  MonitorInv'
<1> USE DEF fileVars, stateVars
<1> DEFINE c == NoReport("check")
<1>1. MonitorTypeOK /\ ArchiveInv /\ MailsInv
  BY DEF MonitorInv
<1>2. reporting' = [reporting EXCEPT ![r] = c] /\ reporting[r].step # "off"
  BY DEF EndHeartbeat
<1>3. c \in ReportCalls /\ c.step = "check"
  BY NoReportTyped DEF NoReport
<1> HIDE DEF c
<1>4. reporting'[r] = c /\ \A q \in Reporters : q # r => reporting'[q] = reporting[q]
  BY <1>1, <1>2, CallsTyped
<1>5. UNCHANGED <<place, content, copying, phase, toSweep, ingest, monState, monDay,
                  mails, analysed, excusedDocs, crossed, monPlan>>
  BY DEF EndHeartbeat
<1>6. stateFile' \in [whole : BOOLEAN, state : MonStates] /\ stateFile'.state = monState
  BY <1>1, WrittenState DEF EndHeartbeat
<1>7. MonitorTypeOK'
  BY <1>1, <1>2, <1>3, <1>5, <1>6, CallsTyped, TypedNext DEF MonitorTypeOK
<1>8. phase # "down" /\ monDay \in 0 .. MaxDay
  BY <1>1, <1>2 DEF ArchiveInv, StateOK, MonitorTypeOK
<1>9. ArchiveInv'
  BY <1>1, <1>5, <1>6, <1>8, StateStep
<1>10. MailsInv'
  BY <1>1, <1>3, <1>4, <1>5, <1>7, <1>8, MailsFrame
<1> QED BY <1>7, <1>9, <1>10 DEF MonitorInv

(* NextDay: no date in memory is in the future. *)
LEMMA NextDayKeeps ==
  ASSUME MonitorInv, NextDay
  PROVE  MonitorInv'
<1> USE DEF fileVars, stateVars
<1>1. MonitorTypeOK /\ ArchiveInv /\ MailsInv /\ MaxDay \in Nat
  BY MonitorAssumption DEF MonitorInv
<1>2. UNCHANGED <<place, content, copying, phase, toSweep, ingest, reporting, monState, stateFile,
                  mails, analysed, excusedDocs, crossed, monPlan>>
  BY DEF NextDay
<1>3. monPlan.days \in 0 .. MaxDay /\ monDay \in 0 .. MaxDay /\ monDay < monPlan.days /\ monDay' = monDay + 1
  BY <1>1 DEF NextDay, MonitorTypeOK
<1>4. monDay' \in 0 .. MaxDay
  BY <1>1, <1>3
<1>5. MonitorTypeOK'
  BY <1>1, <1>2, <1>4, CallsTyped, TypedNext DEF MonitorTypeOK
<1>6. ArchiveInv'
  BY <1>1, <1>2, StateStep
<1>7. ~crossed /\ phase = "down" => monState = IF stateFile.whole THEN stateFile.state ELSE FreshState
  BY <1>1 DEF MailsInv, MailsOK
<1>8. MailsInv'
  BY <1>1, <1>2, <1>3, <1>5, <1>7, MailsFrame
<1> QED BY <1>5, <1>6, <1>8 DEF MonitorInv

(* FinishCopy: a file that is still being copied is in the drop zone or      *)
(* excused.                                                                  *)
LEMMA FinishCopyKeeps ==
  ASSUME MonitorInv, NEW d \in Documents, FinishCopy(d)
  PROVE  MonitorInv'
<1> USE DEF fileVars, stateVars
<1>1. MonitorTypeOK /\ ArchiveInv /\ MailsInv
  BY DEF MonitorInv
<1>2. d \in copying /\ copying' = copying \ {d}
  BY DEF FinishCopy
<1>3. content' = [content EXCEPT ![d] = IF @ = "partial" THEN "plain" ELSE "spoiled"]
  BY DEF FinishCopy
<1>4. content'[d] = (IF content[d] = "partial" THEN "plain" ELSE "spoiled")
      /\ \A e \in Documents : e # d => content'[e] = content[e]
  BY <1>1, <1>3 DEF MonitorTypeOK
<1>5. UNCHANGED <<place, phase, toSweep, ingest, reporting, monState, stateFile, monDay,
                  mails, analysed, excusedDocs, crossed, monPlan>>
  BY DEF FinishCopy
<1>6. MonitorTypeOK'
  BY <1>1, <1>2, <1>3, <1>5, CallsTyped, TypedNext DEF MonitorTypeOK
<1>7. PlaceOK' /\ StateOK' /\ ThreadsOK'
  BY <1>1, <1>2, <1>5 DEF ArchiveInv, PlaceOK, StateOK, ThreadsOK, SavesState, Noted, Moved
<1>8. \A e \in Documents : AtWork(e)' = AtWork(e) /\ Sealers(e)' = Sealers(e)
  BY <1>5 DEF AtWork, Busy, Sealers, Moved
<1>9. ASSUME NEW e \in Documents \ excusedDocs PROVE DropOK(e)' /\ SealsOK(e)'
  <2>1. DropOK(e) /\ SealsOK(e)
    BY <1>1 DEF ArchiveInv
  <2>2. place[e] = "drop" /\ e = d => content[e] = "partial" /\ content'[e] = "plain"
    BY <1>2, <1>4, <2>1 DEF DropOK
  <2>3. \A t \in AtWork(e) : place[e] = "drop" /\ Carries(t, e) => Carries(t, e)'
    BY <1>4, <1>5, <2>2 DEF Carries, Before, Noted, SavesState
  <2>4. place[e] = "drop" /\ Handled(e) => Handled(e)'
    BY <1>8, <2>3 DEF Handled
  <2>5. DropOK(e)'
    BY <1>2, <1>4, <1>5, <1>8, <2>1, <2>2, <2>4 DEF DropOK
  <2>6. place[e] \in {"archive", "stamped"} => e # d
    BY <1>2, <2>1 DEF SealsOK
  <2>7. SealsOK(e)'
    BY <1>2, <1>4, <1>5, <1>8, <2>1, <2>6 DEF SealsOK
  <2> QED BY <2>5, <2>7
<1>10. ArchiveInv'
  BY <1>5, <1>7, <1>9 DEF ArchiveInv
<1>11. monDay \in 0 .. MaxDay
       /\ (~crossed /\ phase = "down" => monState = IF stateFile.whole THEN stateFile.state ELSE FreshState)
  BY <1>1 DEF MonitorTypeOK, MailsInv, MailsOK
<1>12. MailsInv'
  BY <1>1, <1>5, <1>6, <1>11, MailsFrame
<1> QED BY <1>6, <1>10, <1>12 DEF MonitorInv

(* StartWatchdog: the sweep has left nothing that no thread carries. *)
LEMMA StartWatchdogKeeps ==
  ASSUME MonitorInv, StartWatchdog
  PROVE  MonitorInv'
<1> USE DEF fileVars, stateVars
<1>1. MonitorTypeOK /\ ArchiveInv /\ MailsInv
  BY DEF MonitorInv
<1>2. phase = "sweeping" /\ phase' = "watching" /\ toSweep = {}
      /\ UNCHANGED <<place, content, copying, toSweep, ingest, reporting, monState, stateFile, monDay,
                     mails, analysed, excusedDocs, crossed, monPlan>>
  BY DEF StartWatchdog
<1>3. MonitorTypeOK'
  BY <1>1, <1>2, CallsTyped, TypedNext DEF MonitorTypeOK
<1>4. PlaceOK' /\ StateOK' /\ ThreadsOK'
  BY <1>1, <1>2 DEF ArchiveInv, PlaceOK, StateOK, ThreadsOK, SavesState, Noted, Moved
<1>5. \A d \in Documents : AtWork(d)' = AtWork(d) /\ Sealers(d)' = Sealers(d)
  BY <1>2 DEF AtWork, Busy, Sealers, Moved
<1>6. \A d \in Documents : Handled(d)' <=> Handled(d)
  BY <1>2, <1>5 DEF Handled, Carries, Before, Noted, SavesState
<1>7. \A d \in Documents : (DropOK(d) => DropOK(d)') /\ (SealsOK(d) => SealsOK(d)')
  BY <1>2, <1>5, <1>6 DEF DropOK, SealsOK
<1>8. ArchiveInv'
  BY <1>1, <1>2, <1>4, <1>7 DEF ArchiveInv
<1>9. monDay \in 0 .. MaxDay
  BY <1>1 DEF MonitorTypeOK
<1>10. MailsInv'
  BY <1>1, <1>2, <1>3, <1>9, MailsFrame
<1> QED BY <1>3, <1>8, <1>10 DEF MonitorInv

(* SweepNext: a name that was not recorded gets a thread; one that was has   *)
(* no document in the drop zone but excused ones.                            *)
LEMMA SweepNextKeeps ==
  ASSUME MonitorInv, NEW n \in Names, SweepNext(n)
  PROVE  MonitorInv'
<1> USE DEF fileVars, stateVars
<1> DEFINE c == [NoIngest EXCEPT !.step = "load", !.name = n]
<1>1. MonitorTypeOK /\ ArchiveInv /\ MailsInv /\ Sweeper \in IngestThreads
  BY DEF MonitorInv, IngestThreads
<1>2. phase = "sweeping" /\ n \in toSweep /\ toSweep' = toSweep \ {n}
      /\ UNCHANGED <<place, content, copying, phase, reporting, monState, stateFile, monDay,
                     mails, analysed, excusedDocs, crossed, monPlan>>
  BY DEF SweepNext
<1>3. \A t \in IngestThreads : ingest[t].step = "idle"
  BY <1>1, <1>2 DEF SweepNext, ArchiveInv, StateOK
<1>4. c \in IngestCalls /\ c.step = "load" /\ c.name = n
  BY NoCallTyped DEF IngestCalls, IngestSteps
<1> HIDE DEF c
<1>5. ingest' = (IF Skipped(n) THEN ingest ELSE [ingest EXCEPT ![Sweeper] = c])
  BY DEF SweepNext, c
<1>6. /\ \A t \in IngestThreads : t # Sweeper => ingest'[t] = ingest[t]
      /\ IF Skipped(n) THEN ingest' = ingest ELSE ingest'[Sweeper] = c
  BY <1>1, <1>5, CallsTyped
<1>7. MonitorTypeOK'
  BY <1>1, <1>2, <1>4, <1>5, CallsTyped, TypedNext DEF MonitorTypeOK
<1>8. PlaceOK' /\ StateOK' /\ ThreadsOK'
  <2>1. PlaceOK'
    BY <1>1, <1>2 DEF ArchiveInv, PlaceOK
  <2>2. StateOK'
    BY <1>1, <1>2, <1>3, <1>4, <1>6 DEF ArchiveInv, StateOK
  <2>3. ThreadsOK'
    BY <1>1, <1>2, <1>3, <1>4, <1>6 DEF ArchiveInv, ThreadsOK, SavesState, Noted, Moved
  <2> QED BY <2>1, <2>2, <2>3
<1>9. \A d \in Documents : AtWork(d) = {} /\ Sealers(d) = {} /\ Sealers(d)' = {}
  BY <1>3, <1>4, <1>6 DEF AtWork, Busy, Sealers, Moved
<1>10. \A d \in Documents : AtWork(d)' = IF Skipped(n) \/ NameOf[d] # n THEN {} ELSE {Sweeper}
  BY <1>1, <1>3, <1>4, <1>6 DEF AtWork, Busy
<1>11. ASSUME NEW d \in Documents \ excusedDocs PROVE DropOK(d)' /\ SealsOK(d)'
  <2>1. DropOK(d) /\ SealsOK(d)
    BY <1>1, <1>11 DEF ArchiveInv
  <2>2. SealsOK(d)'
    BY <1>2, <1>9, <2>1 DEF SealsOK
  <2>3. ASSUME place[d] = "drop"
        PROVE  Handled(d)' \/ (NameOf[d] \in toSweep' /\ NameOf[d] \notin monState.processed /\ AtWork(d)' = {})
    <3>1. NameOf[d] \in toSweep /\ NameOf[d] \notin monState.processed
      BY <1>2, <1>9, <2>1, <2>3 DEF DropOK, Handled
    <3>2. CASE NameOf[d] = n
      <4>1. ~Skipped(n)
        BY <3>1, <3>2 DEF Skipped
      <4>2. AtWork(d)' = {Sweeper} /\ ingest'[Sweeper].step = "load"
        BY <1>4, <1>6, <1>10, <3>2, <4>1
      <4> QED BY <4>2 DEF Handled, Carries
    <3>3. CASE NameOf[d] # n
      BY <1>2, <1>10, <3>1, <3>3
    <3> QED BY <3>2, <3>3
  <2>4. DropOK(d)'
    BY <1>2, <2>1, <2>3 DEF DropOK
  <2> QED BY <2>2, <2>4
<1>12. ArchiveInv'
  BY <1>2, <1>8, <1>11 DEF ArchiveInv
<1>13. monDay \in 0 .. MaxDay
  BY <1>1 DEF MonitorTypeOK
<1>14. \A t \in IngestThreads : ingest'[t].step # "mail"
  BY <1>1, <1>3, <1>4, <1>6
<1>15. MailsInv'
  BY <1>1, <1>2, <1>7, <1>13, <1>14, MailsFrame
<1> QED BY <1>7, <1>12, <1>15 DEF MonitorInv

(* StartMonitor: the state that is loaded names no document that waits, and  *)
(* all that waits is listed.                                                 *)
LEMMA StartMonitorKeeps ==
  ASSUME MonitorInv, StartMonitor
  PROVE  MonitorInv'
<1> USE DEF fileVars, stateVars
<1>1. MonitorTypeOK /\ ArchiveInv /\ MailsInv
  BY DEF MonitorInv
<1>2. phase = "down" /\ phase' = "sweeping" /\ toSweep' = {n \in Names : InDrop(n) # {}}
      /\ UNCHANGED <<place, content, copying, ingest, stateFile, monDay, mails, analysed, excusedDocs,
                     crossed, monPlan>>
  BY DEF StartMonitor
<1>3. monState' = IF stateFile.whole THEN stateFile.state ELSE FreshState
  BY DEF StartMonitor
<1>4. \A t \in IngestThreads : ingest[t].step = "idle"
  BY <1>1, <1>2 DEF ArchiveInv, StateOK
<1>5. reporting' = [r \in Reporters |-> IF r \in monPlan.reporters THEN NoReport("check") ELSE NoReport("off")]
  BY DEF StartMonitor
<1>6. reporting' \in [Reporters -> ReportCalls] /\ \A r \in Reporters : reporting'[r].step # "send"
  <2>1. NoReport("check") \in ReportCalls /\ NoReport("off") \in ReportCalls
    BY NoReportTyped
  <2>2. NoReport("check").step # "send" /\ NoReport("off").step # "send"
    BY DEF NoReport
  <2> QED BY <1>5, <2>1, <2>2
<1>7. MonitorTypeOK'
  BY <1>1, <1>2, <1>3, <1>6, CallsTyped, FreshTyped, TypedNext DEF MonitorTypeOK
<1>8. PlaceOK' /\ StateOK' /\ ThreadsOK'
  <2>1. PlaceOK'
    BY <1>1, <1>2 DEF ArchiveInv, PlaceOK
  <2>2. StateOK'
    <3>1. Sweeper \in IngestThreads
      BY DEF IngestThreads
    <3>2. stateFile.whole => monState' = stateFile.state
      BY <1>3
    <3> QED BY <1>2, <1>4, <3>1, <3>2 DEF StateOK
  <2>3. ThreadsOK'
    BY <1>2, <1>4 DEF ThreadsOK, SavesState, Noted, Moved
  <2> QED BY <2>1, <2>2, <2>3
<1>9. \A d \in Documents : AtWork(d)' = {} /\ Sealers(d)' = {} /\ Sealers(d) = {}
  BY <1>2, <1>4 DEF AtWork, Busy, Sealers
<1>10. ASSUME NEW d \in Documents \ excusedDocs PROVE DropOK(d)' /\ SealsOK(d)'
  <2>1. DropOK(d) /\ SealsOK(d)
    BY <1>1 DEF ArchiveInv
  <2>2. SealsOK(d)'
    BY <1>2, <1>9, <2>1 DEF SealsOK
  <2>3. place[d] = "drop" => NameOf[d] \in toSweep' /\ NameOf[d] \notin monState'.processed
    BY <1>2, <1>3, <2>1 DEF DropOK, InDrop, Names, FreshState
  <2>4. DropOK(d)'
    BY <1>2, <1>9, <2>1, <2>3 DEF DropOK
  <2> QED BY <2>2, <2>4
<1>11. ArchiveInv'
  BY <1>2, <1>8, <1>10 DEF ArchiveInv
<1>12. monDay \in 0 .. MaxDay
  BY <1>1 DEF MonitorTypeOK
<1>13. ~crossed => monState' = monState
  BY <1>1, <1>2, <1>3 DEF MailsInv, MailsOK
<1>14. MailsInv'
  BY <1>1, <1>2, <1>4, <1>6, <1>7, <1>12, <1>13, MailsFrame
<1> QED BY <1>7, <1>11, <1>14 DEF MonitorInv

(* KillMonitor: what is not sealed and has a name that was recorded is       *)
(* excused; what else waits has a name that no state file has.               *)
LEMMA KillMonitorKeeps ==
  ASSUME MonitorInv, KillMonitor
  PROVE  MonitorInv'
<1> USE DEF fileVars, stateVars
<1>1. MonitorTypeOK /\ ArchiveInv /\ MailsInv
  BY DEF MonitorInv
<1>2. phase # "down" /\ phase' = "down" /\ toSweep' = {}
      /\ UNCHANGED <<place, content, copying, monState, stateFile, monDay, mails, analysed>>
  BY DEF KillMonitor
<1>3. excusedDocs' = excusedDocs \cup
        {d \in Documents : place[d] # "outside" /\ content[d] # "sealed" /\ NameOf[d] \in monState.processed}
  BY DEF KillMonitor
<1>4. /\ ingest' = [t \in IngestThreads |-> NoIngest]
      /\ reporting' = [r \in Reporters |-> NoReport("off")]
      /\ monPlan' = [monPlan EXCEPT !.kills = @ - 1] /\ monPlan.kills > 0
      /\ crossed' = (crossed \/ ~stateFile.whole \/ stateFile.state # monState)
  BY DEF KillMonitor
<1>5. ingest' \in [IngestThreads -> IngestCalls] /\ \A t \in IngestThreads : ingest'[t].step = "idle"
  <2>1. NoIngest.step = "idle"
    BY DEF NoIngest
  <2> QED BY <1>4, <2>1, NoCallTyped
<1>6. reporting' \in [Reporters -> ReportCalls] /\ \A r \in Reporters : reporting'[r].step = "off"
  <2>1. NoReport("off").step = "off" /\ NoReport("off") \in ReportCalls
    BY NoReportTyped DEF NoReport
  <2> QED BY <1>4, <2>1
<1>7. monPlan' \in PlansOfMonitor
  <2>1. monPlan \in PlansOfMonitor /\ monPlan.kills \in Nat /\ monPlan.kills - 1 \in Nat
    BY <1>1, <1>4, CallsTyped DEF PlansOfMonitor
  <2> QED BY <1>4, <2>1 DEF PlansOfMonitor
<1>8. MonitorTypeOK'
  BY <1>1, <1>2, <1>3, <1>4, <1>5, <1>6, <1>7, CallsTyped, TypedNext DEF MonitorTypeOK
<1>9. PlaceOK' /\ StateOK' /\ ThreadsOK'
  <2>1. PlaceOK'
    BY <1>1, <1>2 DEF ArchiveInv, PlaceOK
  <2>2. StateOK'
    BY <1>2, <1>5, <1>6 DEF StateOK
  <2>3. ThreadsOK'
    BY <1>5 DEF ThreadsOK, SavesState, Noted, Moved
  <2> QED BY <2>1, <2>2, <2>3
<1>10. \A d \in Documents : Sealers(d)' = {}
  BY <1>5 DEF AtWork, Busy, Sealers
<1>11. ASSUME NEW d \in Documents \ excusedDocs' PROVE DropOK(d)' /\ SealsOK(d)'
  <2>1. DropOK(d) /\ SealsOK(d) /\ StateOK /\ ThreadsOK
    BY <1>1, <1>3, <1>11 DEF ArchiveInv
  <2>2. place[d] # "outside" /\ content[d] # "sealed" => NameOf[d] \notin monState.processed
    BY <1>3, <1>11
  <2>3. stateFile.whole => stateFile.state.processed \subseteq monState.processed
    BY <1>2, <2>1 DEF StateOK
  <2>4. place[d] = "drop" => content[d] # "sealed"
    BY <2>1 DEF DropOK
  <2>5. DropOK(d)'
    BY <1>2, <2>1, <2>2, <2>3, <2>4 DEF DropOK
  <2>6. \A t \in Sealers(d) : NameOf[d] \in monState.processed
    BY <2>1 DEF Sealers, AtWork, Busy, ThreadsOK
  <2>7. place[d] \in {"archive", "stamped"} => content[d] = "sealed"
    BY <2>1, <2>2, <2>6 DEF SealsOK
  <2>8. SealsOK(d)'
    BY <1>2, <1>10, <2>1, <2>7 DEF SealsOK
  <2> QED BY <2>5, <2>8
<1>12. ArchiveInv'
  BY <1>9, <1>11 DEF ArchiveInv
<1>13. monDay \in 0 .. MaxDay
  BY <1>1 DEF MonitorTypeOK
<1>14. (crossed => crossed') /\ (~crossed' => stateFile.whole /\ stateFile.state = monState)
  BY <1>4
<1>15. MailsInv'
  BY <1>1, <1>2, <1>5, <1>6, <1>8, <1>13, <1>14, MailsFrame
<1> QED BY <1>8, <1>12, <1>15 DEF MonitorInv

(* Arrive: a document comes with a thread of its own or before the next      *)
(* sweep, or it is excused.                                                  *)
LEMMA ArriveKeeps ==
  ASSUME MonitorInv, NEW d \in Documents, NEW slow \in BOOLEAN, Arrive(d, slow)
  PROVE  MonitorInv'
<1> USE DEF fileVars, stateVars
<1> DEFINE n == NameOf[d]
           old == InDrop(n)
           c == [NoIngest EXCEPT !.step = "load", !.name = n]
<1>1. MonitorTypeOK /\ ArchiveInv /\ MailsInv
  BY DEF MonitorInv
<1>2. place[d] = "outside"
      /\ place' = [e \in Documents |-> IF e = d THEN "drop" ELSE IF e \in old THEN "gone" ELSE place[e]]
  BY DEF Arrive
<1>3. content' = [content EXCEPT ![d] = IF slow THEN "partial" ELSE "plain"]
      /\ copying' = IF slow THEN copying \cup {d} ELSE copying
  BY DEF Arrive
<1>4. UNCHANGED <<phase, toSweep, reporting, monState, stateFile, monDay, mails, analysed, crossed, monPlan>>
  BY DEF Arrive
<1>5. c \in IngestCalls /\ c.step = "load" /\ c.name = n
  BY NoCallTyped DEF IngestCalls, IngestSteps, Names
<1> HIDE DEF c
<1>6. \/ /\ phase = "watching"
         /\ \E t \in IngestThreads : ingest[t].step = "idle" /\ ingest' = [ingest EXCEPT ![t] = c]
         /\ excusedDocs' = IF \E u \in Busy : ingest[u].name = n THEN excusedDocs \cup {d} ELSE excusedDocs
      \/ /\ phase # "watching" /\ ingest' = ingest
         /\ excusedDocs' = IF phase = "sweeping" \/ n \in stateFile.state.processed
                           THEN excusedDocs \cup {d} ELSE excusedDocs
  <2>1. CASE phase = "watching"
    <3>1. PICK t \in Ingestors :
            /\ ingest[t].step = "idle" /\ ingest' = [ingest EXCEPT ![t] = c]
            /\ excusedDocs' = IF \E u \in Busy : ingest[u].name = n THEN excusedDocs \cup {d} ELSE excusedDocs
      BY <2>1 DEF Arrive, c
    <3> QED BY <2>1, <3>1 DEF IngestThreads
  <2>2. CASE phase # "watching"
    BY <2>2 DEF Arrive
  <2> QED BY <2>1, <2>2
<1>7. content'[d] = (IF slow THEN "partial" ELSE "plain")
      /\ \A e \in Documents : e # d => content'[e] = content[e]
  BY <1>1, <1>3 DEF MonitorTypeOK
<1>8. excusedDocs \subseteq excusedDocs' /\ excusedDocs' \subseteq Documents
  BY <1>1, <1>6, CallsTyped
<1>9. ingest' \in [IngestThreads -> IngestCalls]
  BY <1>1, <1>5, <1>6, CallsTyped
<1>10. MonitorTypeOK'
  <2>1. place' \in [Documents -> Places]
    BY <1>1, <1>2 DEF MonitorTypeOK, Places
  <2> QED BY <1>1, <1>3, <1>4, <1>8, <1>9, <2>1, CallsTyped, TypedNext DEF MonitorTypeOK
<1>11. \A t \in IngestThreads :
         ingest'[t] = ingest[t] \/ (ingest[t].step = "idle" /\ ingest'[t] = c /\ phase = "watching")
  BY <1>1, <1>6, CallsTyped
<1>12. PlaceOK'
  <2>1. \A e, f \in Documents :
          NameOf[e] = NameOf[f] /\ place'[e] = place'[f] /\ place'[e] \in {"drop", "archive", "stamped"} => e = f
    BY <1>1, <1>2 DEF ArchiveInv, PlaceOK, InDrop
  <2>2. \A e \in copying' : place'[e] # "outside"
    BY <1>1, <1>2, <1>3 DEF ArchiveInv, PlaceOK, MonitorTypeOK
  <2> QED BY <2>1, <2>2 DEF PlaceOK
<1>13. StateOK'
  BY <1>1, <1>4, <1>6 DEF ArchiveInv, StateOK
<1>14. ThreadsOK'
  BY <1>1, <1>4, <1>5, <1>11 DEF ArchiveInv, ThreadsOK, SavesState, Noted, Moved
<1>15. \A e \in Documents : \A t \in Sealers(e) : ingest'[t] = ingest[t]
  BY <1>11 DEF Sealers, AtWork, Busy
<1>16. \A e \in Documents : place'[e] = place[e] => Sealers(e)' = Sealers(e)
  <2> SUFFICES ASSUME NEW e \in Documents, place'[e] = place[e] PROVE Sealers(e)' = Sealers(e)
    OBVIOUS
  <2>1. \A t \in IngestThreads : (Moved(t)' <=> Moved(t)) /\ (Moved(t) => ingest'[t] = ingest[t])
    BY <1>5, <1>11 DEF Moved
  <2> QED BY <2>1 DEF Sealers, AtWork, Busy, Moved
<1>17. \A e \in Documents : NameOf[e] # n => AtWork(e)' = AtWork(e)
  BY <1>5, <1>11 DEF AtWork, Busy
<1>18. ASSUME NEW e \in Documents \ excusedDocs' PROVE DropOK(e)' /\ SealsOK(e)'
  <2>1. DropOK(e) /\ SealsOK(e) /\ PlaceOK
    BY <1>1, <1>8, <1>18 DEF ArchiveInv
  <2>2. ASSUME place'[e] \in {"archive", "stamped"} PROVE SealsOK(e)'
    <3>1. e # d /\ place'[e] = place[e]
      BY <1>2, <2>2
    <3>2. Sealers(e)' = Sealers(e) /\ \A t \in Sealers(e) : ingest'[t] = ingest[t]
      BY <1>15, <1>16, <3>1
    <3> QED BY <1>3, <1>4, <1>7, <2>1, <3>1, <3>2 DEF SealsOK
  <2>3. ASSUME place'[e] = "drop", e # d PROVE DropOK(e)'
    <3>1. place[e] = "drop" /\ NameOf[e] # n
      BY <1>2, <2>3 DEF InDrop
    <3>2. AtWork(e)' = AtWork(e) /\ \A t \in AtWork(e) : ingest'[t] = ingest[t]
      BY <1>11, <1>17, <3>1 DEF AtWork, Busy
    <3>3. content'[e] = content[e] /\ (e \in copying' <=> e \in copying)
      BY <1>3, <1>7, <2>3
    <3>4. Handled(e) => Handled(e)'
      BY <1>4, <3>2, <3>3 DEF Handled, Carries, Before, Noted, SavesState
    <3> QED BY <1>4, <2>1, <3>1, <3>2, <3>3, <3>4 DEF DropOK
  <2>4. ASSUME e = d PROVE DropOK(e)'
    <3>1. d \notin copying /\ content'[d] = IF d \in copying' THEN "partial" ELSE "plain"
      BY <1>2, <1>3, <1>7, <2>1 DEF PlaceOK
    <3>2. CASE phase = "watching"
      <4>1. AtWork(d) = {}
        BY <1>6, <1>18, <2>4, <3>2 DEF AtWork
      <4>2. PICK t \in IngestThreads : ingest'[t] = c /\ \A u \in IngestThreads : u # t => ingest'[u] = ingest[u]
        BY <1>1, <1>6, <3>2, CallsTyped
      <4>3. AtWork(d)' = {t}
        BY <1>5, <4>1, <4>2 DEF AtWork, Busy
      <4>4. Handled(d)'
        BY <1>5, <4>2, <4>3 DEF Handled, Carries
      <4> QED BY <1>4, <2>4, <3>1, <3>2, <4>4 DEF DropOK
    <3>3. CASE phase # "watching"
      <4>1. phase # "sweeping" /\ n \notin stateFile.state.processed
        BY <1>6, <1>18, <2>4, <3>3
      <4> QED BY <1>4, <2>4, <3>1, <3>3, <4>1 DEF DropOK
    <3> QED BY <3>2, <3>3
  <2> QED BY <2>2, <2>3, <2>4 DEF DropOK, SealsOK
<1>19. ArchiveInv'
  BY <1>12, <1>13, <1>14, <1>18 DEF ArchiveInv
<1>20. monDay \in 0 .. MaxDay
       /\ (~crossed /\ phase = "down" => monState = IF stateFile.whole THEN stateFile.state ELSE FreshState)
  BY <1>1 DEF MonitorTypeOK, MailsInv, MailsOK
<1>21. MailsInv'
  BY <1>1, <1>4, <1>5, <1>10, <1>11, <1>20, MailsFrame
<1> QED BY <1>10, <1>19, <1>21 DEF MonitorInv

(* Rename: the document its thread carries comes to the archive, and the one *)
(* it replaces is gone.                                                      *)
LEMMA RenameKeeps ==
  ASSUME MonitorInv, NEW t \in IngestThreads, Rename(t)
  PROVE  MonitorInv'
<1> USE DEF fileVars, stateVars
<1> DEFINE i == ingest[t]
           present == InDrop(i.name)
           over == Archived(i.name, i.dest)
           c == [i EXCEPT !.step = "seal"]
<1>1. i \in IngestCalls /\ i.step = "rename" /\ MonitorTypeOK /\ ArchiveInv /\ MailsInv
  BY CallsTyped DEF Rename, MonitorInv
<1>2. UNCHANGED <<content, copying, phase, toSweep, reporting, monState, stateFile, monDay,
                  mails, analysed, excusedDocs, crossed, monPlan>>
  BY DEF Rename
<1>3. monDay \in 0 .. MaxDay /\ phase # "down"
  BY <1>1 DEF MonitorTypeOK, ArchiveInv, StateOK
<1>4. CASE present = {}
  <2>1. ingest' = [ingest EXCEPT ![t] = NoIngest] /\ place' = place
    BY <1>4 DEF Rename
  <2>2. MonitorTypeOK'
    BY <1>1, <1>2, <2>1, CallsTyped, NoCallTyped, TypedNext DEF MonitorTypeOK
  <2>3. \A e \in Documents : place[e] = "drop" => NameOf[e] # i.name
    BY <1>4 DEF InDrop
  <2>4. ArchiveInv'
    BY <1>1, <1>2, <2>1, <2>3, ThreadEnds DEF Moved
  <2>5. \A u \in IngestThreads : ingest'[u].step = "mail" => ingest'[u] = ingest[u]
    BY <1>1, <2>1, CallsTyped DEF NoIngest
  <2>6. MailsInv'
    BY <1>1, <1>2, <1>3, <2>2, <2>5, MailsFrame
  <2> QED BY <2>2, <2>4, <2>6 DEF MonitorInv
<1>5. CASE present # {}
  <2>1. ingest' = [ingest EXCEPT ![t] = c]
        /\ place' = [e \in Documents |-> IF e \in present THEN i.dest
                                         ELSE IF e \in over THEN "gone" ELSE place[e]]
    BY <1>1, <1>5, CallsTyped DEF Rename, Go
  <2>2. c \in IngestCalls /\ c.step = "seal" /\ c.name = i.name /\ c.dest = i.dest
        /\ i.dest \in {"archive", "stamped"}
    BY <1>1 DEF IngestCalls, IngestSteps
  <2> HIDE DEF c
  <2>3. ingest'[t] = c /\ \A u \in IngestThreads : u # t => ingest'[u] = ingest[u]
    BY <1>1, <2>1, CallsTyped
  <2>4. MonitorTypeOK'
    <3>1. place' \in [Documents -> Places]
      BY <1>1, <2>1, <2>2 DEF MonitorTypeOK, Places
    <3> QED BY <1>1, <1>2, <2>1, <2>2, <3>1, CallsTyped, TypedNext DEF MonitorTypeOK
  <2>5. PlaceOK'
    <3>1. \A e, f \in Documents :
            NameOf[e] = NameOf[f] /\ place'[e] = place'[f] /\ place'[e] \in {"drop", "archive", "stamped"} => e = f
      BY <1>1, <2>1, <2>2 DEF ArchiveInv, PlaceOK, InDrop, Archived
    <3>2. \A e \in copying' : place'[e] # "outside"
      BY <1>1, <1>2, <2>1, <2>2 DEF ArchiveInv, PlaceOK, MonitorTypeOK
    <3> QED BY <3>1, <3>2 DEF PlaceOK
  <2>6. StateOK'
    <3>1. phase = "sweeping" => t = Sweeper
      BY <1>1 DEF ArchiveInv, StateOK
    <3> QED BY <1>1, <1>2, <1>3, <2>2, <2>3, <3>1 DEF ArchiveInv, StateOK
  <2>7. ThreadsOK'
    <3>1. i.name \in monState.processed
      BY <1>1 DEF ArchiveInv, ThreadsOK, Noted
    <3> QED BY <1>1, <1>2, <2>2, <2>3, <3>1 DEF ArchiveInv, ThreadsOK, SavesState, Noted, Moved
  <2>8. \A e \in Documents : AtWork(e)' = AtWork(e)
    BY <1>1, <2>2, <2>3 DEF AtWork, Busy
  <2>9. \A e \in Documents, u \in IngestThreads : u # t => (Carries(u, e)' <=> Carries(u, e))
    BY <1>2, <2>3 DEF Carries, Before, Noted, SavesState
  <2>10. t \in Busy
    BY <1>1 DEF Busy
  <2>11. ASSUME NEW e \in Documents \ excusedDocs PROVE DropOK(e)' /\ SealsOK(e)'
    <3>1. DropOK(e) /\ SealsOK(e)
      BY <1>1, <2>11 DEF ArchiveInv
    <3>2. CASE e \in present
      <4>1. place[e] = "drop" /\ NameOf[e] = i.name /\ t \in AtWork(e) /\ place'[e] = i.dest
        BY <2>1, <2>10, <3>2 DEF InDrop, AtWork
      <4>2. Handled(e) /\ content[e] = IF e \in copying THEN "partial" ELSE "plain"
        BY <1>1, <1>3, <3>1, <4>1 DEF DropOK, MonitorTypeOK
      <4>3. Carries(t, e) /\ \A u \in AtWork(e) : u = t
        BY <4>1, <4>2 DEF Handled
      <4>4. e \in analysed /\ content[e] = "plain" /\ e \notin copying
        BY <1>1, <4>2, <4>3 DEF Carries, Before, SavesState
      <4>5. t \in Sealers(e)' /\ \A u \in Sealers(e)' : u = t
        BY <2>2, <2>3, <2>8, <4>1, <4>3 DEF Sealers, Moved
      <4>6. SealsOK(e)'
        BY <1>2, <2>2, <2>3, <4>4, <4>5 DEF SealsOK
      <4> QED BY <2>2, <4>1, <4>6 DEF DropOK
    <3>3. CASE e \notin present
      <4>1. DropOK(e)'
        <5> SUFFICES ASSUME place'[e] = "drop" PROVE DropOK(e)'
          BY DEF DropOK
        <5>1. place[e] = "drop" /\ NameOf[e] # i.name
          BY <2>1, <3>3 DEF InDrop
        <5>2. t \notin AtWork(e) /\ AtWork(e) \subseteq IngestThreads
          BY <5>1 DEF AtWork, Busy
        <5>3. Handled(e) => Handled(e)'
          BY <2>8, <2>9, <5>2 DEF Handled
        <5> QED BY <1>2, <2>8, <3>1, <5>1, <5>3 DEF DropOK
      <4>2. SealsOK(e)'
        <5> SUFFICES ASSUME place'[e] \in {"archive", "stamped"} PROVE SealsOK(e)'
          BY DEF SealsOK
        <5>1. place'[e] = place[e] /\ ~(NameOf[e] = i.name /\ place[e] = i.dest)
          BY <2>1, <3>3 DEF Archived
        <5>2. t \notin Sealers(e) /\ t \notin Sealers(e)'
          BY <1>1, <2>2, <2>3, <5>1 DEF Sealers, Moved, AtWork
        <5>3. Sealers(e)' = Sealers(e) /\ \A u \in Sealers(e) : ingest'[u] = ingest[u]
          BY <2>3, <2>8, <5>1, <5>2 DEF Sealers, Moved, AtWork, Busy
        <5> QED BY <1>2, <3>1, <5>1, <5>3 DEF SealsOK
      <4> QED BY <4>1, <4>2
    <3> QED BY <3>2, <3>3
  <2>12. ArchiveInv'
    BY <1>2, <2>5, <2>6, <2>7, <2>11 DEF ArchiveInv
  <2>13. \A u \in IngestThreads : ingest'[u].step = "mail" => ingest'[u] = ingest[u]
    BY <2>2, <2>3
  <2>14. MailsInv'
    BY <1>1, <1>2, <1>3, <2>4, <2>13, MailsFrame
  <2> QED BY <2>4, <2>12, <2>14 DEF MonitorInv
<1> QED BY <1>4, <1>5

(* TruncateArchive: the thread has read the whole file before it is empty. *)
LEMMA TruncateArchiveKeeps ==
  ASSUME MonitorInv, NEW t \in IngestThreads, TruncateArchive(t)
  PROVE  MonitorInv'
<1> USE DEF fileVars, stateVars
<1> DEFINE i == ingest[t]
           file == Archived(i.name, i.dest)
           intact == \A d \in file : content[d] = "plain"
           c == [i EXCEPT !.step = "sealing", !.whole = intact]
<1>1. i \in IngestCalls /\ i.step = "seal" /\ MonitorTypeOK /\ ArchiveInv /\ MailsInv
  BY CallsTyped DEF TruncateArchive, MonitorInv
<1>2. UNCHANGED <<place, copying, phase, toSweep, reporting, monState, stateFile, monDay,
                  mails, analysed, excusedDocs, crossed, monPlan>>
      /\ content' = [d \in Documents |-> IF d \in file THEN "empty" ELSE content[d]]
  BY DEF TruncateArchive
<1>3. monDay \in 0 .. MaxDay /\ phase # "down"
  BY <1>1 DEF MonitorTypeOK, ArchiveInv, StateOK
<1>4. ingest' = [ingest EXCEPT ![t] = c]
  BY <1>1, CallsTyped DEF TruncateArchive
<1>5. c \in IngestCalls /\ c.step = "sealing" /\ c.name = i.name /\ c.dest = i.dest /\ c.whole = intact
      /\ i.dest \in {"archive", "stamped"}
  BY <1>1 DEF IngestCalls, IngestSteps
<1> HIDE DEF c
<1>6. ingest'[t] = c /\ \A u \in IngestThreads : u # t => ingest'[u] = ingest[u]
  BY <1>1, <1>4, CallsTyped
<1>7. MonitorTypeOK'
  <2>1. content' \in [Documents -> {"partial", "plain", "empty", "sealed", "spoiled"}]
    BY <1>1, <1>2 DEF MonitorTypeOK
  <2> QED BY <1>1, <1>2, <1>4, <1>5, <2>1, CallsTyped, TypedNext DEF MonitorTypeOK
<1>8. PlaceOK' /\ StateOK' /\ ThreadsOK'
  <2>1. PlaceOK'
    BY <1>1, <1>2 DEF ArchiveInv, PlaceOK
  <2>2. phase = "sweeping" => t = Sweeper
    BY <1>1 DEF ArchiveInv, StateOK
  <2>3. StateOK'
    BY <1>1, <1>2, <1>3, <1>5, <1>6, <2>2 DEF ArchiveInv, StateOK
  <2>4. ThreadsOK'
    BY <1>1, <1>2, <1>5, <1>6 DEF ArchiveInv, ThreadsOK, SavesState, Noted, Moved
  <2> QED BY <2>1, <2>3, <2>4
<1>9. \A e \in Documents : AtWork(e)' = AtWork(e)
  BY <1>1, <1>5, <1>6 DEF AtWork, Busy
<1>10. \A e \in Documents : Sealers(e)' = Sealers(e)
  <2> SUFFICES ASSUME NEW e \in Documents PROVE Sealers(e)' = Sealers(e)
    OBVIOUS
  <2>1. \A u \in IngestThreads : (Moved(u)' <=> Moved(u)) /\ ingest'[u].dest = ingest[u].dest
    BY <1>1, <1>5, <1>6 DEF Moved
  <2> QED BY <1>2, <1>9, <2>1 DEF Sealers, AtWork, Busy
<1>11. ASSUME NEW e \in Documents \ excusedDocs PROVE DropOK(e)' /\ SealsOK(e)'
  <2>1. DropOK(e) /\ SealsOK(e)
    BY <1>1, <1>11 DEF ArchiveInv
  <2>2. DropOK(e)'
    <3> SUFFICES ASSUME place[e] = "drop" PROVE DropOK(e)'
      BY <1>2 DEF DropOK
    <3>1. content'[e] = content[e]
      BY <1>2, <1>5 DEF Archived
    <3>2. ~Carries(t, e)
      BY <1>1 DEF Carries, Before, Noted, SavesState
    <3>3. \A u \in IngestThreads : Carries(u, e) => Carries(u, e)'
      BY <1>2, <1>6, <3>1, <3>2 DEF Carries, Before, Noted, SavesState
    <3>4. AtWork(e) \subseteq IngestThreads
      BY DEF AtWork, Busy
    <3>5. Handled(e) => Handled(e)'
      BY <1>9, <3>3, <3>4 DEF Handled
    <3> QED BY <1>2, <1>9, <2>1, <3>1, <3>5 DEF DropOK
  <2>3. SealsOK(e)'
    <3> SUFFICES ASSUME place[e] \in {"archive", "stamped"} PROVE SealsOK(e)'
      BY <1>2 DEF SealsOK
    <3>1. CASE e \in file
      <4>1. NameOf[e] = i.name /\ place[e] = i.dest
        BY <3>1 DEF Archived
      <4>2. t \in Sealers(e)
        BY <1>1, <4>1 DEF Sealers, AtWork, Busy, Moved
      <4>3. content[e] = "plain" /\ \A u \in Sealers(e) : u = t
        BY <1>1, <2>1, <4>2 DEF SealsOK
      <4>4. \A d \in file : d = e
        BY <1>1, <1>5, <4>1 DEF Archived, ArchiveInv, PlaceOK
      <4>5. c.whole /\ content'[e] = "empty"
        BY <1>2, <1>5, <3>1, <4>3, <4>4
      <4> QED BY <1>2, <1>5, <1>6, <1>10, <2>1, <4>2, <4>3, <4>5 DEF SealsOK
    <3>2. CASE e \notin file
      <4>1. content'[e] = content[e]
        BY <1>2, <3>2
      <4>2. t \notin Sealers(e)
        BY <3>2 DEF Archived, Sealers, AtWork
      <4>3. \A u \in Sealers(e) : ingest'[u] = ingest[u]
        BY <1>6, <4>2 DEF Sealers, AtWork, Busy
      <4> QED BY <1>2, <1>10, <2>1, <4>1, <4>3 DEF SealsOK
    <3> QED BY <3>1, <3>2
  <2> QED BY <2>2, <2>3
<1>12. ArchiveInv'
  BY <1>2, <1>8, <1>11 DEF ArchiveInv
<1>13. \A u \in IngestThreads : ingest'[u].step = "mail" => ingest'[u] = ingest[u]
  BY <1>5, <1>6
<1>14. MailsInv'
  BY <1>1, <1>2, <1>3, <1>7, <1>13, MailsFrame
<1> QED BY <1>7, <1>12, <1>14 DEF MonitorInv

(* WriteArchive: the file is sealed and nobody else seals it. *)
LEMMA WriteArchiveKeeps ==
  ASSUME MonitorInv, NEW t \in IngestThreads, WriteArchive(t)
  PROVE  MonitorInv'
<1> USE DEF fileVars, stateVars
<1> DEFINE i == ingest[t]
           file == Archived(i.name, i.dest)
<1>1. i \in IngestCalls /\ i.step = "sealing" /\ MonitorTypeOK /\ ArchiveInv /\ MailsInv
      /\ i.dest \in {"archive", "stamped"}
  BY CallsTyped DEF WriteArchive, MonitorInv, IngestCalls
<1>2. UNCHANGED <<place, copying, phase, toSweep, reporting, monState, stateFile, monDay,
                  mails, analysed, excusedDocs, crossed, monPlan>>
      /\ content' = [d \in Documents |-> IF d \in file THEN AsSealed(i.whole) ELSE content[d]]
  BY DEF WriteArchive
<1>3. monDay \in 0 .. MaxDay /\ phase # "down"
  BY <1>1 DEF MonitorTypeOK, ArchiveInv, StateOK
<1>4. ingest' = [ingest EXCEPT ![t] = NoIngest] /\ NoIngest.step = "idle"
  BY DEF WriteArchive, NoIngest
<1>5. ingest'[t] = NoIngest /\ \A u \in IngestThreads : u # t => ingest'[u] = ingest[u]
  BY <1>1, <1>4, CallsTyped
<1>6. MonitorTypeOK'
  <2>1. content' \in [Documents -> {"partial", "plain", "empty", "sealed", "spoiled"}]
    BY <1>1, <1>2 DEF MonitorTypeOK, AsSealed
  <2> QED BY <1>1, <1>2, <1>4, <2>1, CallsTyped, NoCallTyped, TypedNext DEF MonitorTypeOK
<1>7. PlaceOK' /\ StateOK' /\ ThreadsOK'
  <2>1. PlaceOK'
    BY <1>1, <1>2 DEF ArchiveInv, PlaceOK
  <2>2. StateOK'
    BY <1>1, <1>2, <1>3, <1>4, <1>5 DEF ArchiveInv, StateOK
  <2>3. ThreadsOK'
    BY <1>1, <1>2, <1>4, <1>5 DEF ArchiveInv, ThreadsOK, SavesState, Noted, Moved
  <2> QED BY <2>1, <2>2, <2>3
<1>8. \A e \in Documents : AtWork(e)' = AtWork(e) \ {t}
  BY <1>4, <1>5 DEF AtWork, Busy
<1>9. \A e \in Documents : Sealers(e)' = Sealers(e) \ {t}
  <2> SUFFICES ASSUME NEW e \in Documents PROVE Sealers(e)' = Sealers(e) \ {t}
    OBVIOUS
  <2>1. \A u \in IngestThreads \ {t} : (Moved(u)' <=> Moved(u)) /\ ingest'[u].dest = ingest[u].dest
    BY <1>5 DEF Moved
  <2>2. AtWork(e) \subseteq IngestThreads
    BY DEF AtWork, Busy
  <2> QED BY <1>2, <1>8, <2>1, <2>2 DEF Sealers
<1>10. ASSUME NEW e \in Documents \ excusedDocs PROVE DropOK(e)' /\ SealsOK(e)'
  <2>1. DropOK(e) /\ SealsOK(e)
    BY <1>1, <1>10 DEF ArchiveInv
  <2>2. DropOK(e)'
    <3> SUFFICES ASSUME place[e] = "drop" PROVE DropOK(e)'
      BY <1>2 DEF DropOK
    <3>1. content'[e] = content[e]
      BY <1>1, <1>2 DEF Archived
    <3>2. ~Carries(t, e)
      BY <1>1 DEF Carries, Before, Noted, SavesState
    <3>3. \A u \in IngestThreads : u # t /\ Carries(u, e) => Carries(u, e)'
      BY <1>2, <1>5, <3>1 DEF Carries, Before, Noted, SavesState
    <3>4. AtWork(e) \subseteq IngestThreads
      BY DEF AtWork, Busy
    <3>5. Handled(e) => Handled(e)'
      BY <1>8, <3>2, <3>3, <3>4 DEF Handled
    <3> QED BY <1>2, <1>8, <2>1, <3>1, <3>5 DEF DropOK
  <2>3. SealsOK(e)'
    <3> SUFFICES ASSUME place[e] \in {"archive", "stamped"} PROVE SealsOK(e)'
      BY <1>2 DEF SealsOK
    <3>1. CASE e \in file
      <4>1. NameOf[e] = i.name /\ place[e] = i.dest
        BY <3>1 DEF Archived
      <4>2. t \in Sealers(e)
        BY <1>1, <4>1 DEF Sealers, AtWork, Busy, Moved
      <4>3. i.whole /\ \A u \in Sealers(e) : u = t
        BY <1>1, <2>1, <4>2 DEF SealsOK
      <4>4. content'[e] = "sealed" /\ Sealers(e)' = {}
        BY <1>2, <1>9, <3>1, <4>3 DEF AsSealed
      <4> QED BY <1>2, <2>1, <4>4 DEF SealsOK
    <3>2. CASE e \notin file
      <4>1. content'[e] = content[e]
        BY <1>2, <3>2
      <4>2. t \notin Sealers(e)
        BY <3>2 DEF Archived, Sealers, AtWork
      <4>3. \A u \in Sealers(e) : ingest'[u] = ingest[u]
        BY <1>5, <4>2 DEF Sealers, AtWork, Busy
      <4>4. Sealers(e)' = Sealers(e)
        BY <1>9, <4>2
      <4> QED BY <1>2, <2>1, <4>1, <4>3, <4>4 DEF SealsOK
    <3> QED BY <3>1, <3>2
  <2> QED BY <2>2, <2>3
<1>11. ArchiveInv'
  BY <1>2, <1>7, <1>10 DEF ArchiveInv
<1>12. \A u \in IngestThreads : ingest'[u].step = "mail" => ingest'[u] = ingest[u]
  BY <1>4, <1>5
<1>13. MailsInv'
  BY <1>1, <1>2, <1>3, <1>6, <1>12, MailsFrame
<1> QED BY <1>6, <1>11, <1>13 DEF MonitorInv

(* A step of another component changes nothing here. *)
LEMMA MonitorStutters ==
  ASSUME MonitorInv, UNCHANGED monitorVars
  PROVE  MonitorInv'
<1> USE DEF fileVars, stateVars
<1>1. MonitorTypeOK /\ ArchiveInv /\ MailsInv
  BY DEF MonitorInv
<1>2. UNCHANGED <<place, content, copying, phase, toSweep, ingest, reporting, monState, stateFile,
                  monDay, mails, analysed, excusedDocs, crossed, monPlan>>
  BY DEF monitorVars
<1>3. MonitorTypeOK'
  BY <1>1, <1>2 DEF MonitorTypeOK
<1>4. ArchiveInv'
  BY <1>1, <1>2, StateStep
<1>5. monDay \in 0 .. MaxDay
      /\ (~crossed /\ phase = "down" => monState = IF stateFile.whole THEN stateFile.state ELSE FreshState)
  BY <1>1 DEF MonitorTypeOK, MailsInv, MailsOK
<1>6. MailsInv'
  BY <1>1, <1>2, <1>3, <1>5, MailsFrame
<1> QED BY <1>3, <1>4, <1>6 DEF MonitorInv

(* The invariant holds of the vault monitor, for any number of documents,    *)
(* names, event threads, reporters, days and kills (sentinel_monitor.py).    *)
THEOREM MonitorInvariant == MonitorSpec => []MonitorInv
<1>1. MonitorInit => MonitorInv
  BY InitTyped, InitHolds DEF MonitorInv
<1>2. MonitorInv /\ [MonitorNext]_monitorVars => MonitorInv'
  <2> SUFFICES ASSUME MonitorInv, [MonitorNext]_monitorVars PROVE MonitorInv'
    OBVIOUS
  <2>1. CASE UNCHANGED monitorVars
    BY <2>1, MonitorStutters
  <2>2. ASSUME NEW d \in Documents, (\E slow \in BOOLEAN : Arrive(d, slow)) \/ FinishCopy(d)
        PROVE  MonitorInv'
    BY <2>2, ArriveKeeps, FinishCopyKeeps
  <2>3. ASSUME NEW t \in IngestThreads,
               \/ Load(t) \/ IngestError(t) \/ CheckAlert(t) \/ Index(t) \/ RecordName(t)
               \/ \E success \in BOOLEAN : SendAlert(t, success)
        PROVE  MonitorInv'
    BY <2>3, LoadKeeps, IngestErrorKeeps, CheckAlertKeeps, IndexKeeps, RecordNameKeeps, SendAlertKeeps
  <2>4. ASSUME NEW t \in IngestThreads,
               \/ ChooseDest(t) \/ Rename(t) \/ TruncateArchive(t) \/ WriteArchive(t)
               \/ TruncateState(t) \/ WriteState(t)
        PROVE  MonitorInv'
    BY <2>4, ChooseDestKeeps, RenameKeeps, TruncateArchiveKeeps, WriteArchiveKeeps, TruncateStateKeeps,
       WriteStateKeeps
  <2>5. ASSUME NEW r \in Reporters,
               \/ CheckReport(r) \/ Heartbeat(r) \/ EndHeartbeat(r)
               \/ \E success \in BOOLEAN : SendReport(r, success)
        PROVE  MonitorInv'
    BY <2>5, CheckReportKeeps, HeartbeatKeeps, EndHeartbeatKeeps, SendReportKeeps
  <2>6. CASE StartMonitor \/ StartWatchdog \/ KillMonitor \/ NextDay
    BY <2>6, StartMonitorKeeps, StartWatchdogKeeps, KillMonitorKeeps, NextDayKeeps
  <2>7. ASSUME NEW n \in Names, SweepNext(n) PROVE MonitorInv'
    BY <2>7, SweepNextKeeps
  <2> QED BY <2>1, <2>2, <2>3, <2>4, <2>5, <2>6, <2>7 DEF MonitorNext
<1> QED BY <1>1, <1>2, PTL DEF MonitorSpec

(* What lies in the archive was scanned whole and indexed and is sealed once *)
(* no thread is at work on its name, through kills and restarts, unless it   *)
(* is excused: ingest_file and encrypt_file.                                 *)
THEOREM ArchiveIsSealed == MonitorSpec => []ArchiveSealed
<1>1. MonitorInv => ArchiveSealed
  <2> SUFFICES ASSUME MonitorInv, NEW d \in Documents \ excusedDocs, place[d] \in {"archive", "stamped"},
                      \A t \in Busy : ingest[t].name # NameOf[d]
               PROVE  content[d] = "sealed" /\ d \in analysed
    BY DEF ArchiveSealed
  <2>1. SealsOK(d)
    BY DEF MonitorInv, ArchiveInv
  <2>2. Sealers(d) = {}
    BY DEF Sealers, AtWork
  <2> QED BY <2>1, <2>2 DEF SealsOK
<1> QED BY <1>1, MonitorInvariant, PTL

(* Once the monitor watches and no thread works, no document waits in the    *)
(* drop zone unless it is excused: the sweep of the main program and the     *)
(* watchdog's threads.                                                       *)
THEOREM NoneIsForgotten == MonitorSpec => []NoneForgotten
<1>1. MonitorInv => NoneForgotten
  <2> SUFFICES ASSUME MonitorInv, phase = "watching", Busy = {}, NEW d \in Documents, place[d] = "drop",
                      d \notin excusedDocs
               PROVE  FALSE
    BY DEF NoneForgotten
  <2>1. Handled(d)
    BY DEF MonitorInv, ArchiveInv, DropOK
  <2> QED BY <2>1 DEF Handled, AtWork
<1> QED BY <1>1, MonitorInvariant, PTL

(* One alert a day and one report a cycle at most, over restarts, unless a   *)
(* mail was decided while another was being sent or a kill lost its date:    *)
(* trigger_alert and run_monthly_reporter.                                   *)
THEOREM MailsAreBounded == MonitorSpec => []MailsBounded
<1>1. MonitorInv => MailsBounded
  <2> SUFFICES ASSUME MonitorInv, ~crossed, NEW day \in 0 .. MaxDay
               PROVE  /\ mails[<<"alert", day>>] <= 1 /\ mails[<<"report", day>>] <= 1
                      /\ mails[<<"report", day>>] = 1 =>
                           \A other \in day + 1 .. MaxDay :
                             other < day + Cycle => mails[<<"report", other>>] = 0
    BY DEF MailsBounded
  <2>1. MailsOK /\ MaxDay \in Nat /\ Cycle \in Nat
    BY MonitorAssumption DEF MonitorInv, MailsInv
  <2>2. mails[<<"alert", day>>] <= 1 /\ mails[<<"report", day>>] <= 1
    BY <2>1 DEF MailsOK
  <2>3. ASSUME mails[<<"report", day>>] = 1, NEW other \in day + 1 .. MaxDay, other < day + Cycle
        PROVE  mails[<<"report", other>>] = 0
    <3>1. other \in 0 .. MaxDay /\ day < other
      BY <2>1
    <3>2. day \in Mailed("report")
      BY <2>3 DEF Mailed
    <3>3. \A x, y \in Mailed("report") : x < y => x + Cycle <= y
      BY <2>1 DEF MailsOK
    <3>4. other \notin Mailed("report")
      BY <2>1, <2>3, <3>1, <3>2, <3>3
    <3> QED BY <3>1, <3>4 DEF Mailed
  <2> QED BY <2>2, <2>3
<1> QED BY <1>1, MonitorInvariant, PTL
=============================================================================
