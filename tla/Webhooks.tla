------------------------------ MODULE Webhooks ------------------------------
(***************************************************************************)
(* backend/integrations/webhook_engine.py: the registry of outbound hooks, *)
(* kept as a list by every process and in one file that is read when a     *)
(* process starts and overwritten as a whole; the dispatch of an event to  *)
(* the hooks that match; and the queue file of the deliveries that were    *)
(* not confirmed, which a retry reads, posts and rewrites.  Nothing locks. *)
(***************************************************************************)
EXTENDS Naturals, Sequences, Functions, Deployment

CONSTANTS
  HookAdmins,    \* threads that register and deregister
  Dispatchers,   \* threads that dispatch
  Retriers,      \* threads that retry the queue
  HookIds,       \* pairs of a target URL and a tenant, by their hash
  Subscriptions, \* the sets of event types a hook may ask for
  EventTypes,    \* the event types that are dispatched
  BatchSize,     \* WEBHOOK_RETRY_BATCH_SIZE
  HookBudgets    \* bounds: how many processes, changes, events, retries and kills

ASSUME BatchAssumption == BatchSize \in Nat \ {0}
ASSUME HooksAssumption == HookIds # {} /\ Subscriptions # {} /\ EventTypes # {}
ASSUME HookBudgetsAssumption ==
  /\ HookBudgets \subseteq [workers : Nat, changes : Nat, events : Nat, retries : Nat, kills : Nat]
  /\ \A b \in HookBudgets : \E w \in SUBSET Servers : Cardinality(w) = b.workers

VARIABLES
  workers,      \* the processes that are up
  registry,     \* the _registry of each process
  hookFile,     \* [whole, hooks]: webhook_registry.json
  admin,        \* the registry call of each admin thread
  dispatching,  \* the dispatch of each dispatcher
  queueFile,    \* [whole, entries]: webhook_delivery_queue.jsonl
  retrying,     \* the retry of each retrier
  hookBudget,   \* [workers, changes, events, retries, kills] that may still come
  hooked,       \* a history: the hooks registered and not deregistered since
  clashes,      \* a history: a registry call overlapped another, was cut off in
                \* its write, or began from another list than the file's
  owed,         \* a history: the deliveries dispatches have begun
  confirmed,    \* a history: those that were answered with a 2xx in time
  excusable,    \* a history: those a known race may lose
  repeated,     \* a history: those posted after they were confirmed
  overlapped    \* a history: two retries ran at once, or one was killed

hookVars == <<workers, registry, hookFile, admin>>
deliveryVars == <<dispatching, queueFile, retrying>>
webhookVars == <<hookVars, deliveryVars, hookBudget, hooked, clashes, owed, confirmed,
                 excusable, repeated, overlapped>>

-----------------------------------------------------------------------------
Hooks == [id : HookIds, events : Subscriptions]
Deliveries == [hook : HookIds, nr : Nat]
QueueEntries == [hook : HookIds, nr : Nat, attempts : Nat]
SomeServer == CHOOSE s \in Servers : TRUE
SomeHook == CHOOSE h \in Hooks : TRUE
IdleAdmin == [stage |-> "idle", server |-> SomeServer, hook |-> SomeHook,
              register |-> FALSE, filtered |-> << >>]
IdleDispatch == [nr |-> 0, server |-> SomeServer, type |-> CHOOSE t \in EventTypes : TRUE,
                 live |-> FALSE, todo |-> << >>, failed |-> << >>]
IdleRetry == [stage |-> "idle", server |-> SomeServer, todo |-> << >>, kept |-> << >>, left |-> 0]

WebhooksTypeOK ==
  /\ workers \subseteq Servers
  /\ \A s \in Servers : registry[s] \in Seq(Hooks)
  /\ hookFile.whole \in BOOLEAN /\ hookFile.hooks \in Seq(Hooks)
  /\ \A a \in HookAdmins :
       /\ admin[a].stage \in {"idle", "assign", "append", "truncate", "write"}
       /\ admin[a].hook.id \in HookIds /\ admin[a].filtered \in Seq(Hooks)
  /\ \A d \in Dispatchers :
       /\ dispatching[d].todo \in Seq(HookIds) /\ dispatching[d].failed \in Seq(HookIds)
       /\ dispatching[d].nr \in Nat /\ dispatching[d].type \in EventTypes
  /\ queueFile.whole \in BOOLEAN /\ queueFile.entries \in Seq(QueueEntries)
  /\ \A r \in Retriers :
       /\ retrying[r].stage \in {"idle", "post", "write"}
       /\ retrying[r].todo \in Seq(QueueEntries) /\ retrying[r].kept \in Seq(QueueEntries)
       /\ retrying[r].left \in 0 .. BatchSize
  /\ hookBudget \in [workers : Nat, changes : Nat, events : Nat, retries : Nat, kills : Nat]
  /\ hooked \subseteq Hooks
  /\ UNION {owed, confirmed, excusable, repeated} \subseteq Deliveries
  /\ clashes \in BOOLEAN /\ overlapped \in BOOLEAN

WebhooksInit ==
  /\ hookBudget \in HookBudgets
  /\ workers = CHOOSE w \in SUBSET Servers : Cardinality(w) = hookBudget.workers
  /\ registry = [s \in Servers |-> << >>]
  /\ hookFile = [whole |-> TRUE, hooks |-> << >>]
  /\ admin = [a \in HookAdmins |-> IdleAdmin]
  /\ dispatching = [d \in Dispatchers |-> IdleDispatch]
  /\ queueFile = [whole |-> TRUE, entries |-> << >>]
  /\ retrying = [r \in Retriers |-> IdleRetry]
  /\ hooked = {} /\ clashes = FALSE
  /\ owed = {} /\ confirmed = {} /\ excusable = {} /\ repeated = {} /\ overlapped = FALSE

-----------------------------------------------------------------------------
(* register and deregister. *)

(* Those of a list that are in a set, in their order. *)
Sifted(list, set) ==
  LET upTo[n \in 0 .. Len(list)] ==
        IF n = 0 THEN << >>
        ELSE IF list[n] \in set THEN Append(upTo[n - 1], list[n]) ELSE upTo[n - 1]
  IN upTo[Len(list)]

(* Faulty variant: the earlier entry of the same hook stays in the list. *)
WithDuplicate(hooks, id) == hooks
Without(hooks, id) == Sifted(hooks, {h \in Range(hooks) : h.id # id})

BusyAdmins == {a \in HookAdmins : admin[a].stage # "idle"}

(* The list comprehension over the list of this moment. *)
BeginHookCall(a, s, hook, register) ==
  /\ admin[a].stage = "idle" /\ s \in workers /\ hookBudget.changes > 0
  /\ hookBudget' = [hookBudget EXCEPT !.changes = @ - 1]
  /\ admin' = [admin EXCEPT ![a] = [stage |-> "assign", server |-> s, hook |-> hook,
       register |-> register, filtered |-> Without(registry[s], hook.id)]]
  /\ clashes' = (clashes \/ BusyAdmins # {} \/ registry[s] # hookFile.hooks)
  /\ UNCHANGED <<workers, registry, hookFile, deliveryVars, hooked, owed, confirmed,
                 excusable, repeated, overlapped>>

(* The new list replaces the old one, which a running dispatch still walks. *)
AssignRegistry(a) ==
  /\ admin[a].stage = "assign"
  /\ registry' = [registry EXCEPT ![admin[a].server] = admin[a].filtered]
  /\ admin' = [admin EXCEPT ![a].stage = IF admin[a].register THEN "append" ELSE "truncate"]
  /\ dispatching' = [d \in Dispatchers |->
       IF dispatching[d].server = admin[a].server
       THEN [dispatching[d] EXCEPT !.live = FALSE] ELSE dispatching[d]]
  /\ UNCHANGED <<workers, hookFile, queueFile, retrying, hookBudget, hooked, clashes, owed,
                 confirmed, excusable, repeated, overlapped>>

(* A dispatch that walks this very list comes to the new entry too. *)
AppendHook(a) ==
  LET s == admin[a].server hook == admin[a].hook
      Reached(d) == dispatching[d].live /\ dispatching[d].server = s
                    /\ dispatching[d].type \in hook.events IN
  /\ admin[a].stage = "append"
  /\ registry' = [registry EXCEPT ![s] = Append(@, hook)]
  /\ admin' = [admin EXCEPT ![a].stage = "truncate"]
  /\ dispatching' = [d \in Dispatchers |->
       IF Reached(d) THEN [dispatching[d] EXCEPT !.todo = Append(@, hook.id)] ELSE dispatching[d]]
  /\ owed' = owed \cup {[hook |-> hook.id, nr |-> dispatching[d].nr] :
                          d \in {e \in Dispatchers : Reached(e)}}
  /\ UNCHANGED <<workers, hookFile, queueFile, retrying, hookBudget, hooked, clashes,
                 confirmed, excusable, repeated, overlapped>>

TruncateHookFile(a) ==
  /\ admin[a].stage = "truncate"
  /\ admin' = [admin EXCEPT ![a].stage = "write"]
  /\ hookFile' = [whole |-> FALSE, hooks |-> << >>]
  /\ UNCHANGED <<workers, registry, deliveryVars, hookBudget, hooked, clashes, owed, confirmed,
                 excusable, repeated, overlapped>>

(* The file is whole here only if another call has written it since the    *)
(* truncation: what is written over that may leave a tail of it.           *)
WriteHookFile(a) ==
  LET call == admin[a] IN
  /\ call.stage = "write"
  /\ \/ hookFile' = [whole |-> TRUE, hooks |-> registry[call.server]]
     \/ hookFile.whole /\ hookFile' = [whole |-> FALSE, hooks |-> << >>]
  /\ hooked' = {h \in hooked : h.id # call.hook.id} \cup (IF call.register THEN {call.hook} ELSE {})
  /\ admin' = [admin EXCEPT ![a] = IdleAdmin]
  /\ UNCHANGED <<workers, registry, deliveryVars, hookBudget, clashes, owed, confirmed,
                 excusable, repeated, overlapped>>

-----------------------------------------------------------------------------
(* dispatch: each hook of the list that asks for the event is posted to. *)
Delivery(hook, nr) == [hook |-> hook, nr |-> nr]

Dispatch(d, s, type) ==
  LET nr == hookBudget.events
      matching == Sifted(registry[s], {h \in Range(registry[s]) : type \in h.events}) IN
  /\ dispatching[d].nr = 0 /\ s \in workers /\ nr > 0
  /\ hookBudget' = [hookBudget EXCEPT !.events = @ - 1]
  /\ dispatching' = [dispatching EXCEPT ![d] = [nr |-> nr, server |-> s, type |-> type,
       live |-> TRUE, todo |-> [n \in DOMAIN matching |-> matching[n].id], failed |-> << >>]]
  /\ owed' = owed \cup {Delivery(h.id, nr) : h \in Range(matching)}
  /\ UNCHANGED <<hookVars, queueFile, retrying, hooked, clashes, confirmed, excusable, repeated,
                 overlapped>>

(* A 2xx in time is a delivery; any other answer, no answer, a late one or *)
(* an address that is refused is not.                                      *)
Post(d, success) ==
  LET h == Head(dispatching[d].todo) one == Delivery(h, dispatching[d].nr) IN
  /\ dispatching[d].todo # << >> /\ dispatching[d].failed = << >>
  /\ dispatching' = [dispatching EXCEPT ![d].todo = Tail(@),
       ![d].failed = IF success THEN << >> ELSE <<h>>]
  /\ confirmed' = IF success THEN confirmed \cup {one} ELSE confirmed
  /\ repeated' = IF one \in confirmed THEN repeated \cup {one} ELSE repeated
  /\ UNCHANGED <<hookVars, queueFile, retrying, hookBudget, hooked, clashes, owed, excusable,
                 overlapped>>

BusyRetriers == {r \in Retriers : retrying[r].stage # "idle"}
Writing == {r \in Retriers : retrying[r].stage = "write"}

(* _queue_delivery: one line is appended.  A retry that has read the queue *)
(* before and rewrites it after loses the line.                            *)
QueueDelivery(d) ==
  LET run == dispatching[d] IN
  /\ run.failed # << >>
  /\ queueFile' = [queueFile EXCEPT !.entries =
       @ \o [n \in DOMAIN run.failed |-> [hook |-> run.failed[n], nr |-> run.nr, attempts |-> 0]]]
  /\ dispatching' = [dispatching EXCEPT ![d].failed = << >>]
  /\ excusable' = IF BusyRetriers = {} THEN excusable
                  ELSE IF Writing = {} THEN excusable \cup {Delivery(h, run.nr) : h \in Range(run.failed)}
                  ELSE owed
  /\ UNCHANGED <<hookVars, retrying, hookBudget, hooked, clashes, owed, confirmed, repeated,
                 overlapped>>

EndDispatch(d) ==
  /\ dispatching[d].nr # 0 /\ dispatching[d].todo = << >> /\ dispatching[d].failed = << >>
  /\ dispatching' = [dispatching EXCEPT ![d] = IdleDispatch]
  /\ UNCHANGED <<hookVars, queueFile, retrying, hookBudget, hooked, clashes, owed, confirmed,
                 excusable, repeated, overlapped>>

-----------------------------------------------------------------------------
(* retry_queue: read all, post the first of them, write back the failed    *)
(* ones and the rest.  A queue that does not parse fails the call.         *)
BeginRetry(r, s) ==
  /\ retrying[r].stage = "idle" /\ s \in workers /\ hookBudget.retries > 0
  /\ queueFile.whole
  /\ hookBudget' = [hookBudget EXCEPT !.retries = @ - 1]
  /\ retrying' = [retrying EXCEPT ![r] = [stage |-> "post", server |-> s,
       todo |-> queueFile.entries, kept |-> << >>, left |-> BatchSize]]
  /\ overlapped' = (overlapped \/ BusyRetriers # {})
  /\ excusable' = IF Writing = {} THEN excusable ELSE owed
  /\ UNCHANGED <<hookVars, dispatching, queueFile, hooked, clashes, owed, confirmed, repeated>>

RetryPost(r, success) ==
  LET entry == Head(retrying[r].todo) one == Delivery(entry.hook, entry.nr) IN
  /\ retrying[r].stage = "post" /\ retrying[r].left > 0 /\ retrying[r].todo # << >>
  /\ retrying' = [retrying EXCEPT ![r].todo = Tail(@), ![r].left = @ - 1,
       ![r].kept = IF success THEN @ ELSE Append(@, [entry EXCEPT !.attempts = @ + 1])]
  /\ confirmed' = IF success THEN confirmed \cup {one} ELSE confirmed
  /\ repeated' = IF one \in confirmed THEN repeated \cup {one} ELSE repeated
  /\ UNCHANGED <<hookVars, dispatching, queueFile, hookBudget, hooked, clashes, owed, excusable,
                 overlapped>>

TruncateQueue(r) ==
  /\ retrying[r].stage = "post" /\ (retrying[r].left = 0 \/ retrying[r].todo = << >>)
  /\ retrying' = [retrying EXCEPT ![r].stage = "write"]
  /\ queueFile' = [whole |-> TRUE, entries |-> << >>]
  /\ excusable' = IF Writing = {} THEN excusable ELSE owed
  /\ UNCHANGED <<hookVars, dispatching, hookBudget, hooked, clashes, owed, confirmed, repeated,
                 overlapped>>

(* Faulty variant: what the batch left out is not written back. *)
KeptOfBatch(retry) == retry.kept
Remaining(retry) == retry.kept \o retry.todo

WriteQueue(r) ==
  /\ retrying[r].stage = "write"
  /\ \/ queueFile' = [whole |-> TRUE, entries |-> Remaining(retrying[r])]
     \/ queueFile.entries # << >> /\ queueFile' = [whole |-> FALSE, entries |-> << >>]
  /\ excusable' = IF Writing = {r} THEN excusable ELSE owed
  /\ retrying' = [retrying EXCEPT ![r] = IdleRetry]
  /\ UNCHANGED <<hookVars, dispatching, hookBudget, hooked, clashes, owed, confirmed, repeated,
                 overlapped>>

-----------------------------------------------------------------------------
InHand(d) == {Delivery(h, dispatching[d].nr) :
                h \in Range(dispatching[d].todo \o dispatching[d].failed)}

(* A process dies with its threads; a file it had truncated stays empty.   *)
KillWorker(s) ==
  LET calls == {a \in BusyAdmins : admin[a].server = s}
      runs == {d \in Dispatchers : dispatching[d].server = s}
      retries == {r \in BusyRetriers : retrying[r].server = s} IN
  /\ s \in workers /\ hookBudget.kills > 0
  /\ hookBudget' = [hookBudget EXCEPT !.kills = @ - 1]
  /\ workers' = workers \ {s}
  /\ admin' = [a \in HookAdmins |-> IF a \in calls THEN IdleAdmin ELSE admin[a]]
  /\ dispatching' = [d \in Dispatchers |-> IF d \in runs THEN IdleDispatch ELSE dispatching[d]]
  /\ retrying' = [r \in Retriers |-> IF r \in retries THEN IdleRetry ELSE retrying[r]]
  /\ clashes' = (clashes \/ \E a \in calls : admin[a].stage = "write")
  /\ excusable' = IF retries \cap Writing # {} THEN owed
       ELSE excusable \cup UNION {InHand(d) : d \in runs}
  /\ overlapped' = (overlapped \/ retries # {})
  /\ UNCHANGED <<registry, hookFile, queueFile, hooked, owed, confirmed, repeated>>

(* __init__ at import: a registry that does not parse stops the process. *)
StartWorker(s) ==
  /\ s \notin workers /\ Cardinality(workers) < hookBudget.workers
  /\ hookFile.whole
  /\ workers' = workers \cup {s}
  /\ registry' = [registry EXCEPT ![s] = hookFile.hooks]
  /\ UNCHANGED <<hookFile, admin, deliveryVars, hookBudget, hooked, clashes, owed, confirmed,
                 excusable, repeated, overlapped>>

WebhooksNext ==
  \/ \E a \in HookAdmins :
       \/ \E s \in Servers, h \in Hooks : BeginHookCall(a, s, h, TRUE)
       \/ \E s \in Servers, id \in HookIds : BeginHookCall(a, s, [id |-> id, events |-> {}], FALSE)
       \/ AssignRegistry(a) \/ AppendHook(a) \/ TruncateHookFile(a) \/ WriteHookFile(a)
  \/ \E d \in Dispatchers :
       \/ \E s \in Servers, t \in EventTypes : Dispatch(d, s, t)
       \/ \E success \in BOOLEAN : Post(d, success)
       \/ QueueDelivery(d) \/ EndDispatch(d)
  \/ \E r \in Retriers :
       \/ \E s \in Servers : BeginRetry(r, s)
       \/ \E success \in BOOLEAN : RetryPost(r, success)
       \/ TruncateQueue(r) \/ WriteQueue(r)
  \/ \E s \in Servers : KillWorker(s) \/ StartWorker(s)

WebhooksSpec == WebhooksInit /\ [][WebhooksNext]_webhookVars

-----------------------------------------------------------------------------
Queued == {Delivery(queueFile.entries[n].hook, queueFile.entries[n].nr) : n \in DOMAIN queueFile.entries}

(* A delivery that was begun and not confirmed is still to be posted by    *)
(* its dispatch or is in the queue, whatever dispatches, retries and       *)
(* changes of the registry run at once; the exceptions are a line queued   *)
(* between a retry's reading and its writing, an overlap with a truncated  *)
(* queue, and a killed process.  A confirmed delivery is posted again only *)
(* where two retries overlapped, one was killed, or two registrations of   *)
(* the hook overlapped and put it into the list twice.                     *)
DeliveriesKept ==
  /\ Writing = {} =>
       owed \ (confirmed \cup excusable) \subseteq Queued \cup UNION {InHand(d) : d \in Dispatchers}
  /\ repeated # {} => overlapped \/ clashes

(* The registry a process would load is exactly what was registered and    *)
(* not deregistered since, each hook with its last subscription, over any  *)
(* sequence of calls and restarts; the exceptions are overlapping calls, a *)
(* call in a process whose list is not the file's, and a kill in a write.  *)
RegistryKept ==
  ~clashes /\ BusyAdmins = {} =>
    /\ hookFile.whole /\ Range(hookFile.hooks) = hooked
    /\ Len(hookFile.hooks) = Cardinality(hooked)
=============================================================================
