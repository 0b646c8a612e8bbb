------------------------------ MODULE Gateway ------------------------------
(***************************************************************************)
(* The governed AI requests of backend/app.py: /ask, /api/v2/chat and the  *)
(* model benchmark are jobs of the queue.  The handler of /ask scans the   *)
(* prompt, counts it in the risk engine, evaluates the policies, chooses a *)
(* model and records the answer; the others only choose, chat records too. *)
(* A job is retried once after any exception, a refusal included, and an   *)
(* attempt whose time is up runs on beside the next one.                   *)
(***************************************************************************)
EXTENDS Policy
LOCAL INSTANCE FiniteSetsExt

CONSTANTS
  Requests,     \* the requests users may make
  Plans,        \* what a behaviour is about: prompts, adapters, bounds
  Provider,     \* the part of a model's name before the slash
  LocalModel    \* ollama/OLLAMA_MODEL

ASSUME ThreadsAssumption == Threads = [of : Requests, nr : 1 .. 2] /\ IsFiniteSet(Requests)

Models == DOMAIN Provider
ASSUME ModelsAssumption == LocalModel \in Models /\ Provider[LocalModel] = "ollama"

(* A prompt, with what the scanners find in it. *)
Prompts == [kind : {"ask", "chat", "benchmark"}, actor : STRING,
            findings : Seq([span : Nat, type : {"SECRET", "PII", "CLASSIFICATION", "INDIA_PII"},
                            label : STRING, high : BOOLEAN]),
            concepts : Seq([label : STRING, score : Nat]),
            injections : SUBSET STRING, hits : SUBSET STRING, words : SUBSET STRING,
            dept : STRING, model : Models \cup {"none"}]
ASSUME PlansAssumption ==
  Plans \subseteq [prompt : [Requests -> Prompts], asked : SUBSET Requests,
     servers : SUBSET Servers, timeouts : BOOLEAN, cancels : BOOLEAN, mode : STRING,
     adapters : SUBSET STRING, reloads : Nat, edits : Nat]

VARIABLES
  plan,         \* the plan of this behaviour
  job,          \* the job of each request
  attempt,      \* the attempts at each job
  counted,      \* the interceptions of PII each process has counted
  trail,        \* the audit ledger: who did what, with which model
  sent          \* a history: the models that were given an attempt's prompt

gatewayVars == <<policyVars, plan, job, attempt, counted, trail, sent>>

-----------------------------------------------------------------------------
(* What the scanners make of a prompt.  Scores are in hundredths.          *)
AtMost(n, cap) == IF n > cap THEN cap ELSE n
Total(weight, list) == MapThenSumSet(LAMBDA n : weight[list[n]], DOMAIN list)

(* calculate_risk_score is given what scan_content found, not India's types. *)
RiskScore(p) ==
  LET weight == [SECRET |-> 250, PII |-> 100, CLASSIFICATION |-> 80, INDIA_PII |-> 0]
  IN AtMost(Total(weight, [n \in DOMAIN p.findings |-> p.findings[n].type]), 1000)

(* SemanticDLP: a concept counts from 0.34 on; four times the sum. *)
Semantic(p) == {n \in DOMAIN p.concepts : p.concepts[n].score >= 34}
SemanticScore(p) ==
  AtMost(MapThenSumSet(LAMBDA n : 4 * p.concepts[n].score, Semantic(p)), 1000)

InjectionWeight(label) ==
  CASE label \in {"Instruction Hierarchy Attack", "Redaction Bypass"} -> 400
    [] label = "Prompt Leakage Attempt" -> 300
    [] OTHER -> 250
InjectionScore(p) == AtMost(MapThenSumSet(InjectionWeight, p.injections), 1000)

GuardianWeight(label) ==
  CASE label = "Roleplay Jailbreak" -> 350
    [] label \in {"Data Exfiltration Intent", "Encoded Payload Bypass"} -> 400
    [] OTHER -> 300
GuardianScore(p) == AtMost(MapThenSumSet(GuardianWeight, p.hits), 1000)
GuardianBlocks(p) == GuardianScore(p) >= 700

(* The masking proxy's own score, of findings without repetition.  high:   *)
(* the label names an identity.                                            *)
FindingWeight(f) ==
  CASE f.type = "SECRET" -> 300
    [] f.type # "SECRET" /\ f.high -> 200
    [] f.type \in {"PII", "INDIA_PII"} /\ ~f.high -> 125
    [] OTHER -> 75
GovernedScore(p) ==
  LET distinct == {p.findings[n] : n \in DOMAIN p.findings}
  IN AtMost(MapThenSumSet(FindingWeight, distinct), 1000)

Larger(a, b) == IF a > b THEN a ELSE b

(* risk_score as the policies see it, and as the router sees it. *)
PolicyScore(p) ==
  LET found == AtMost(Larger(RiskScore(p), SemanticScore(p)) + InjectionScore(p), 1000)
  IN Larger(found, GuardianScore(p))
RouteScore(p) == Larger(PolicyScore(p), GovernedScore(p))

(* The sums are numbers. *)
ASSUME ScoresAssumption ==
  \A p \in Plans, r \in Requests :
    PolicyScore(p.prompt[r]) \in Nat /\ GovernedScore(p.prompt[r]) \in Nat

(* all_findings, as the policies see a prompt. *)
Labels(p) ==
  {p.findings[n].label : n \in DOMAIN p.findings} \cup
  {p.concepts[n].label : n \in Semantic(p)} \cup p.injections \cup
  (IF GuardianBlocks(p) THEN p.hits ELSE {})
View(p) == [labels |-> Labels(p), words |-> p.words, score |-> PolicyScore(p),
            dept |-> p.dept, model |-> p.model]

Refused(p) == p.injections # {} \/ GuardianBlocks(p)
IsPII(p) == \E n \in DOMAIN p.findings : p.findings[n].type # "CLASSIFICATION"

-----------------------------------------------------------------------------
Prompt(r) == plan.prompt[r]
Actors == {p.prompt[r].actor : p \in Plans, r \in Requests}
Cases == 1 .. 3     \* the prompts of the benchmark

GatewayTypeOK ==
  /\ PolicyTypeOK
  /\ \E p \in Plans : plan = [p EXCEPT !.reloads = plan.reloads, !.edits = plan.edits]
  /\ job \in [Requests -> [status : {"new", "queued", "running", "succeeded",
                                     "failed", "timeout", "cancelled"}, attempts : 0 .. 2]]
  /\ attempt \in [Threads -> [pc : {"idle", "scan", "policy", "route", "fallback",
        "answered", "over"}, server : Servers, since : DOMAIN Editions,
        model : Models \cup {"none"}, case : Cases]]
  /\ counted \in [Servers -> [Actors -> Nat]]
  /\ trail \subseteq [by : Threads, action : {"USER_QUARANTINE_REVIEW_REQUIRED",
        "PROMPT_INJECTION_BLOCKED", "PROMPT_BLOCKED", "AI_QUERY",
        "AI_CHAT_INTERACTION"}, model : Models \cup {"none"}]
  /\ sent \in [Threads -> SUBSET Models]

GatewayInit ==
  /\ PolicyInit
  /\ plan \in Plans
  /\ job = [r \in Requests |-> [status |-> "new", attempts |-> 0]]
  /\ attempt = [t \in Threads |-> [pc |-> "idle", server |-> CHOOSE s \in Servers : TRUE,
                                   since |-> 1, model |-> "none", case |-> 1]]
  /\ counted = [s \in Servers |-> [a \in Actors |-> 0]]
  /\ trail = {}
  /\ sent = [t \in Threads |-> {}]

Goto(t, pc) == attempt' = [attempt EXCEPT ![t].pc = pc]
Log(t, actions, model) ==
  trail' = trail \cup {[by |-> t, action |-> a, model |-> model] : a \in actions}
KeepPolicy == UNCHANGED policyVars

(* A request is accepted: its job is queued. *)
Submit(r) ==
  /\ r \in plan.asked /\ job[r].status = "new"
  /\ job' = [job EXCEPT ![r].status = "queued"]
  /\ KeepPolicy /\ UNCHANGED <<plan, attempt, counted, trail, sent>>

(* A worker of some process claims the job and starts its handler. *)
Start(r, s) ==
  LET n == job[r].attempts + 1
      t == [of |-> r, nr |-> n] IN
  /\ job[r].status = "queued" /\ s \in plan.servers
  /\ job' = [job EXCEPT ![r] = [status |-> "running", attempts |-> n]]
  /\ attempt' = [attempt EXCEPT ![t].server = s,
       ![t].pc = IF Prompt(r).kind = "ask" THEN "scan" ELSE "route"]
  /\ KeepPolicy /\ UNCHANGED <<plan, counted, trail, sent>>

(* The current attempt at a job. *)
Runs(t) == job[t.of].status = "running" /\ job[t.of].attempts = t.nr

(* Faulty variant: the first attempt is not counted as one. *)
AfterFailureOnceMore(j, status) ==
  [j EXCEPT !.status = IF j.attempts <= 2 THEN "queued" ELSE status]
(* max_retries = 1 *)
AfterFailure(j, status) == [j EXCEPT !.status = IF j.attempts <= 1 THEN "queued" ELSE status]

(* An attempt raises: the queue hears of it unless it has given it up. *)
Fail(t) ==
  job' = IF Runs(t) THEN [job EXCEPT ![t.of] = AfterFailure(@, "failed")] ELSE job

(* future.result gives up waiting: the handler's thread goes on. *)
TimeUp(t) ==
  /\ plan.timeouts /\ Runs(t)
  /\ job' = [job EXCEPT ![t.of] = AfterFailure(@, "timeout")]
  /\ KeepPolicy /\ UNCHANGED <<plan, attempt, counted, trail, sent>>

(***************************************************************************)
(* _execute_query_vault_sync                                               *)
(***************************************************************************)
(* Faulty variant: the interception is counted for every actor. *)
CountForAll(p, s) ==
  IF IsPII(p) THEN [counted EXCEPT ![s] = [a \in Actors |-> @[a] + 1]] ELSE counted
(* record_interception; see RiskEngine. *)
Count(p, s) ==
  IF IsPII(p) THEN [counted EXCEPT ![s][p.actor] = @ + 1] ELSE counted

(* The scan, the interception, the review it may ask for, the refusal. *)
Scan(t) ==
  LET p == Prompt(t.of)
      s == attempt[t].server
      review == IF counted'[s][p.actor] > 3 THEN {"USER_QUARANTINE_REVIEW_REQUIRED"} ELSE {}
  IN
  /\ attempt[t].pc = "scan"
  /\ counted' = Count(p, s)
  /\ \/ /\ Refused(p)
        /\ Log(t, review \cup {"PROMPT_INJECTION_BLOCKED"}, "none")
        /\ Goto(t, "over")
        /\ Fail(t)
        /\ KeepPolicy
     \/ /\ ~Refused(p)
        /\ Log(t, review, "none")
        /\ attempt' = [attempt EXCEPT ![t].pc = "policy", ![t].since = known[s]]
        /\ BeginReading(t, s)
        /\ UNCHANGED <<edition, memory, loading, known, job>>
  /\ UNCHANGED <<plan, sent>>

(* The process in which a thread is reading its rules. *)
Reads(t) ==
  IF attempt[t].pc = "policy" /\ reading[t].stage # "read" THEN attempt[t].server ELSE "none"

LookUpRules(t) ==
  /\ attempt[t].pc = "policy"
  /\ Lookup(t, attempt[t].server, Prompt(t.of).dept, [u \in Threads |-> Reads(u)])
  /\ UNCHANGED <<edition, plan, job, attempt, counted, trail, sent>>

(* The decision: a refusal is recorded, a model out of the list is not. *)
Decide(t) ==
  LET rules == reading[t].rules
      view == View(Prompt(t.of)) IN
  /\ attempt[t].pc = "policy" /\ reading[t].stage = "read"
  /\ reading' = [reading EXCEPT ![t] = NotReading]
  /\ \/ /\ Blocked(rules, view)
        /\ Log(t, {"PROMPT_BLOCKED"}, view.model)
        /\ Goto(t, "over") /\ Fail(t)
     \/ /\ ~Blocked(rules, view) /\ ~ModelAllowed(rules, view)
        /\ Goto(t, "over") /\ Fail(t)
        /\ UNCHANGED trail
     \/ /\ ~Blocked(rules, view) /\ ModelAllowed(rules, view)
        /\ Goto(t, "route")
        /\ UNCHANGED <<job, trail>>
  /\ UNCHANGED <<edition, memory, loading, known, calm, plan, counted, sent>>

(***************************************************************************)
(* ModelRouter.route.  The benchmark passes 8.0, chat passes no score.     *)
(***************************************************************************)
BenchmarkScore == 800
(* Faulty variant: only the score that the policies saw is heeded. *)
ForcedByPolicyScore(p) == p.kind = "ask" /\ PolicyScore(p) > 700
Forced(p) ==
  \/ p.kind = "ask" /\ RouteScore(p) > 700
  \/ p.kind = "benchmark" /\ BenchmarkScore > 700

Target(p) == IF Forced(p) \/ p.model = "none" THEN LocalModel ELSE p.model
Adapters == plan.adapters

(* What complete of an adapter may do: two turn every error into an answer. *)
OllamaComplete == {"answer", "raise"}
OpenAIComplete == {"answer", "raise"}
AnthropicComplete == {"answer", "raise"}
GeminiComplete == {"answer"}
OpenRouterComplete == {"answer"}
Complete == [ollama |-> OllamaComplete, openai |-> OpenAIComplete,
             anthropic |-> AnthropicComplete, gemini |-> GeminiComplete,
             openrouter |-> OpenRouterComplete]

Answered(t, model) == attempt' = [attempt EXCEPT ![t].pc = "answered", ![t].model = model]

(* The primary adapter is called; its model is taken to get the prompt,    *)
(* whatever comes of the call.                                             *)
Route(t) ==
  LET target == Target(Prompt(t.of))
      provider == Provider[target] IN
  /\ attempt[t].pc = "route"
  /\ \/ /\ provider \in Adapters
        /\ sent' = [sent EXCEPT ![t] = @ \cup {target}]
        /\ \/ "answer" \in Complete[provider] /\ Answered(t, target)
           \/ "raise" \in Complete[provider] /\ Goto(t, "fallback")
     \/ /\ provider \notin Adapters
        /\ Goto(t, "fallback")
        /\ UNCHANGED sent
  /\ KeepPolicy /\ UNCHANGED <<plan, job, counted, trail>>

(* Faulty variant: the model that was asked for is asked again. *)
FallbackModelAgain(t) == Target(Prompt(t.of))
FallbackModel(t) == LocalModel

(* In hybrid mode the local model is asked next; then nobody is. *)
Fallback(t) ==
  /\ attempt[t].pc = "fallback"
  /\ \/ /\ plan.mode = "hybrid" /\ "ollama" \in Adapters
        /\ sent' = [sent EXCEPT ![t] = @ \cup {FallbackModel(t)}]
        /\ Answered(t, LocalModel) \/ Answered(t, "none")
     \/ /\ ~(plan.mode = "hybrid" /\ "ollama" \in Adapters)
        /\ Answered(t, "none")
        /\ UNCHANGED sent
  /\ KeepPolicy /\ UNCHANGED <<plan, job, counted, trail>>

(* The handler returns. *)
Succeed(t) == job' = IF Runs(t) THEN [job EXCEPT ![t.of].status = "succeeded"] ELSE job

(* The answer is recorded, the job done. *)
Record(t, kind, action) ==
  /\ attempt[t].pc = "answered" /\ Prompt(t.of).kind = kind
  /\ Log(t, {action}, attempt[t].model)
  /\ Goto(t, "over")
  /\ Succeed(t)
  /\ KeepPolicy /\ UNCHANGED <<plan, counted, sent>>

RecordQuery(t) == Record(t, "ask", "AI_QUERY")
RecordChat(t) == Record(t, "chat", "AI_CHAT_INTERACTION")

(* The benchmark goes on to its next prompt, which it was given, and keeps *)
(* no record of what it asked.                                             *)
NextCase(t) ==
  /\ attempt[t].pc = "answered" /\ Prompt(t.of).kind = "benchmark"
  /\ \/ /\ attempt[t].case + 1 \in Cases
        /\ attempt' = [attempt EXCEPT ![t].pc = "route", ![t].case = @ + 1]
        /\ UNCHANGED job
     \/ /\ attempt[t].case + 1 \notin Cases
        /\ Goto(t, "over")
        /\ Succeed(t)
  /\ KeepPolicy /\ UNCHANGED <<plan, counted, trail, sent>>

(* Before each prompt it sees whether the job was cancelled. *)
SeeCancel(t) ==
  /\ plan.cancels /\ attempt[t].pc = "route" /\ Prompt(t.of).kind = "benchmark"
  /\ Runs(t) \/ job[t.of].status = "cancelled"
  /\ job' = [job EXCEPT ![t.of].status = "cancelled"]
  /\ Goto(t, "over")
  /\ KeepPolicy /\ UNCHANGED <<plan, counted, trail, sent>>

-----------------------------------------------------------------------------
(* POST /policy/reload in a process, and the rest of any reload. *)
ReloadPolicies(s) ==
  LET l == [of |-> s, nr |-> 0] IN
  /\ plan.reloads > 0 /\ s \in plan.servers
  /\ plan' = [plan EXCEPT !.reloads = @ - 1]
  /\ EmptyDepartments(l, s, [u \in Threads |-> Reads(u)])
  /\ UNCHANGED <<edition, reading, known, job, attempt, counted, trail, sent>>

Reload(l) ==
  /\ ReloadStep(l)
  /\ UNCHANGED <<edition, reading, plan, job, attempt, counted, trail, sent>>

EditPolicies ==
  /\ plan.edits > 0
  /\ plan' = [plan EXCEPT !.edits = @ - 1]
  /\ EditFiles
  /\ UNCHANGED <<job, attempt, counted, trail, sent>>

GatewayNext ==
  \/ \E r \in Requests : Submit(r) \/ \E s \in Servers : Start(r, s)
  \/ \E t \in Threads :
       \/ TimeUp(t) \/ Scan(t) \/ LookUpRules(t) \/ Decide(t) \/ Route(t) \/ Fallback(t)
       \/ RecordQuery(t) \/ RecordChat(t) \/ NextCase(t) \/ SeeCancel(t)
  \/ \E s \in Servers : ReloadPolicies(s)
  \/ \E l \in Loaders : Reload(l)
  \/ EditPolicies

GatewaySpec == GatewayInit /\ [][GatewayNext]_gatewayVars

-----------------------------------------------------------------------------
(* A prompt that the policies block, in every edition its process can have *)
(* loaded, is given to no model, although the rules are rebuilt in place   *)
(* and read in four looks; the exception is a reload beside the reading.   *)
BlockedStaysUnsent ==
  \A t \in Threads :
    sent[t] # {} /\ Prompt(t.of).kind = "ask" /\ calm[t] =>
      ~AlwaysBlocked(View(Prompt(t.of)), attempt[t].since)

(* What the scanners or the masking proxy score above 7 on /ask, and each  *)
(* prompt of the benchmark, is given to local models only, whatever model  *)
(* was asked for, after failures of adapters, timeouts and retries.        *)
AskedHotStaysLocal ==
  \A t \in Threads :
    LET p == Prompt(t.of) IN
    \/ p.kind = "benchmark"
    \/ p.kind = "ask" /\ (PolicyScore(p) > 700 \/ GovernedScore(p) > 700)
    => \A m \in sent[t] : Provider[m] = "ollama"

(* An attempt that gave a user's prompt to a model and came to its end,    *)
(* even long after the queue gave it up, is in the ledger, with a model    *)
(* that did get the prompt or with none.                                   *)
SentIsRecorded ==
  \A t \in Threads :
    sent[t] # {} /\ attempt[t].pc = "over" /\ Prompt(t.of).kind # "benchmark" =>
    \E r \in trail : /\ r.by = t
                     /\ r.action \in {"AI_QUERY", "AI_CHAT_INTERACTION"}
                     /\ r.model \in sent[t] \cup {"none"}

(* A retry counts its prompt again, so four PII attempts need not be four  *)
(* prompts; but nobody is put up for review on fewer than two of his own.  *)
ReviewsEarned ==
  \A r \in trail : r.action = "USER_QUARANTINE_REVIEW_REQUIRED" =>
    Cardinality({q \in Requests : /\ job[q].status # "new"
                                  /\ Prompt(q).actor = Prompt(r.by.of).actor
                                  /\ IsPII(Prompt(q))}) >= 2
=============================================================================
