--------------------------- MODULE GatewayProofs ---------------------------
(***************************************************************************)
(* Theorems about the governed requests (Gateway), for any requests,       *)
(* prompts, models, rules files and numbers of processes. The invariant    *)
(* has a part for each question: the jobs and their attempts, what the     *)
(* models are given, what a process counts, and, the longest, what the     *)
(* tables of the rules hold while reloads rebuild them under the eyes of   *)
(* their readers.                                                          *)
(***************************************************************************)
EXTENDS Gateway, FiniteSetTheorems, TLAPS

(* A row of a rules file, whatever edition it is from. *)
RuleType == [table : {"global", "department"}, dept : STRING, entities : SUBSET STRING,
             keywords : SUBSET STRING, enforcement : STRING, threshold : Nat, models : SUBSET STRING]

(* The editions are numbered from 1, and each file of each of them is a list *)
(* of rows.                                                                  *)
LEMMA EditionTypes ==
  /\ Len(Editions) \in Nat /\ DOMAIN Editions = 1 .. Len(Editions) /\ 1 \in DOMAIN Editions
  /\ \A e \in DOMAIN Editions, f \in Files : Editions[e][f] \in Seq(RuleType)
<1>1. Editions \in Seq([Files -> Seq(RuleType)]) /\ Editions # << >>
  BY EditionsAssumption DEF RuleType
<1> QED BY <1>1

(* The rules a process can hold are rows of some edition, and what it loads  *)
(* of a file is among them.                                                  *)
LEMMA RuleSetTypes ==
  /\ RuleSet \subseteq RuleType
  /\ \A e \in DOMAIN Editions, f \in Files : Editions[e][f] \in Seq(RuleSet)
  /\ \A e \in DOMAIN Editions, f \in Files : Loadable(Editions[e][f]) \subseteq RuleSet
<1>1. RuleSet \subseteq RuleType
  <2> SUFFICES ASSUME NEW r \in RuleSet PROVE r \in RuleType OBVIOUS
  <2>0. PICK e \in DOMAIN Editions :
          r \in UNION {{Editions[e][f][i] : i \in DOMAIN Editions[e][f]} : f \in Files}
    BY DEF RuleSet
  <2>1. PICK f \in Files : \E i \in DOMAIN Editions[e][f] : r = Editions[e][f][i]
    BY <2>0
  <2>2. Editions[e][f] \in Seq(RuleType) BY EditionTypes
  <2> QED BY <2>1, <2>2
<1>2. ASSUME NEW e \in DOMAIN Editions, NEW f \in Files
      PROVE  Editions[e][f] \in Seq(RuleSet) /\ Loadable(Editions[e][f]) \subseteq RuleSet
  <2>1. Editions[e][f] \in Seq(RuleType) BY EditionTypes
  <2>2. ASSUME NEW i \in DOMAIN Editions[e][f] PROVE Editions[e][f][i] \in RuleSet
    <3> DEFINE Of(g) == {Editions[e][g][j] : j \in DOMAIN Editions[e][g]}
    <3>1. Editions[e][f][i] \in Of(f) OBVIOUS
    <3> HIDE DEF Of
    <3>2. Editions[e][f][i] \in UNION {Of(g) : g \in Files} BY <3>1
    <3> USE DEF Of
    <3>3. UNION {Of(g) : g \in Files} \in
            {UNION {{Editions[d][g][j] : j \in DOMAIN Editions[d][g]} : g \in Files} : d \in DOMAIN Editions}
      OBVIOUS
    <3> QED BY <3>2, <3>3, Zenon DEF RuleSet
  <2> DEFINE list == Editions[e][f]
  <2>3. list \in Seq(RuleType) /\ \A i \in DOMAIN list : list[i] \in RuleSet BY <2>1, <2>2
  <2> HIDE DEF list
  <2>4. list \in Seq(RuleSet) BY <2>3
  <2>5. Loadable(list) \subseteq RuleSet BY <2>3 DEF Loadable
  <2> QED BY <2>4, <2>5 DEF list
<1> QED BY <1>1, <1>2

(* What is loaded of a list is its first row, if it parses, and what is      *)
(* loaded of the rest; a row that does not parse ends the loading.           *)
LEMMA LoadableParts ==
  ASSUME NEW S \in SUBSET RuleType, NEW list \in Seq(S), list # << >>
  PROVE  Loadable(list) = IF Parses(Head(list)) THEN {Head(list)} \cup Loadable(Tail(list)) ELSE {}
<1>1. CASE ~Parses(Head(list))
  BY <1>1 DEF Loadable
<1>2. CASE Parses(Head(list))
  <2>1. ASSUME NEW r \in Loadable(list) PROVE r \in {Head(list)} \cup Loadable(Tail(list))
    <3>1. PICK i \in DOMAIN list : r = list[i] /\ \A j \in 1 .. i : Parses(list[j])
      BY <2>1 DEF Loadable
    <3>2. CASE i = 1 BY <3>1, <3>2
    <3>3. CASE i > 1
      <4>1. i - 1 \in DOMAIN Tail(list) /\ Tail(list)[i - 1] = r BY <3>1, <3>3
      <4>2. \A j \in 1 .. i - 1 : Tail(list)[j] = list[j + 1] /\ j + 1 \in 1 .. i BY <3>1, <3>3
      <4>3. \A j \in 1 .. i - 1 : Parses(Tail(list)[j]) BY <3>1, <4>2
      <4> QED BY <4>1, <4>3 DEF Loadable
    <3> QED BY <3>2, <3>3
  <2>2. Head(list) \in Loadable(list)
    <3>1. 1 \in DOMAIN list /\ list[1] = Head(list) /\ \A j \in 1 .. 1 : Parses(list[j]) BY <1>2
    <3> QED BY <3>1 DEF Loadable
  <2>3. ASSUME NEW r \in Loadable(Tail(list)) PROVE r \in Loadable(list)
    <3>1. PICK i \in DOMAIN Tail(list) : r = Tail(list)[i] /\ \A j \in 1 .. i : Parses(Tail(list)[j])
      BY <2>3 DEF Loadable
    <3>2. i + 1 \in DOMAIN list /\ list[i + 1] = r BY <3>1
    <3>3. ASSUME NEW j \in 1 .. i + 1 PROVE Parses(list[j])
      <4>1. CASE j = 1 BY <4>1, <1>2
      <4>2. CASE j > 1
        <5>1. j - 1 \in 1 .. i /\ Tail(list)[j - 1] = list[j] BY <4>2, <3>1
        <5> QED BY <5>1, <3>1
      <4> QED BY <4>1, <4>2
    <3> QED BY <3>2, <3>3 DEF Loadable
  <2> QED BY <1>2, <2>1, <2>2, <2>3
<1> QED BY <1>1, <1>2

(* Of an empty list nothing is loaded. *)
LEMMA LoadableNone == Loadable(<< >>) = {}
BY DEF Loadable

-----------------------------------------------------------------------------
(* The policies start well typed. *)
LEMMA PolicyInitTypes == PolicyInit => PolicyTypeOK
<1> SUFFICES ASSUME PolicyInit PROVE PolicyTypeOK OBVIOUS
<1> USE DEF PolicyInit
<1>1. edition \in DOMAIN Editions BY EditionTypes
<1>2. memory \in [Servers -> [global : SUBSET RuleSet, department : SUBSET RuleSet]]
  <2> DEFINE Held(t) == {r \in UNION {Loadable(Editions[1][f]) : f \in Files} : r.table = t}
  <2>1. ASSUME NEW t PROVE Held(t) \subseteq RuleSet BY RuleSetTypes, EditionTypes
  <2>2. memory = [s \in Servers |-> [t \in {"global", "department"} |-> Held(t)]] OBVIOUS
  <2>3. Held("global") \in SUBSET RuleSet /\ Held("department") \in SUBSET RuleSet BY <2>1
  <2> HIDE DEF Held
  <2>4. [t \in {"global", "department"} |-> Held(t)]
          = [global |-> Held("global"), department |-> Held("department")]
    OBVIOUS
  <2> QED BY <2>2, <2>3, <2>4
<1>3. NotLoading \in [stage : {"off", "begun", "emptied", "files"},
        server : Servers, files : SUBSET Files, data : Seq(RuleSet), began : DOMAIN Editions]
  BY EditionTypes, DeploymentAssumption DEF NotLoading
<1>4. NotReading \in [stage : {"off", "departments", "globals", "reload",
        "first", "second", "read"}, rules : SUBSET RuleSet]
  BY DEF NotReading
<1> QED BY <1>1, <1>2, <1>3, <1>4, EditionTypes DEF PolicyTypeOK

-----------------------------------------------------------------------------
(* The state of one reload of the tables. *)
LoadingRecord == [stage : {"off", "begun", "emptied", "files"}, server : Servers,
                  files : SUBSET Files, data : Seq(RuleSet), began : DOMAIN Editions]

(* The state of one reading of the rules. *)
ReadingRecord == [stage : {"off", "departments", "globals", "reload", "first", "second", "read"},
                  rules : SUBSET RuleSet]

(* The two tables of a process. *)
MemoryRecord == [global : SUBSET RuleSet, department : SUBSET RuleSet]

(* A job as the queue keeps it. *)
JobRecord == [status : {"new", "queued", "running", "succeeded", "failed", "timeout", "cancelled"},
              attempts : 0 .. 2]

(* An attempt at a job. *)
AttemptRecord == [pc : {"idle", "scan", "policy", "route", "fallback", "answered", "over"},
                  server : Servers, since : DOMAIN Editions, model : Models \cup {"none"},
                  case : Cases]

(* An entry of the audit ledger. *)
TrailRecord == [by : Threads, action : {"USER_QUARANTINE_REVIEW_REQUIRED",
        "PROMPT_INJECTION_BLOCKED", "PROMPT_BLOCKED", "AI_QUERY",
        "AI_CHAT_INTERACTION"}, model : Models \cup {"none"}]

(* PolicyTypeOK, with its records named. *)
PolicyTypes ==
  /\ edition \in DOMAIN Editions /\ memory \in [Servers -> MemoryRecord]
  /\ loading \in [Loaders -> LoadingRecord] /\ reading \in [Threads -> ReadingRecord]
  /\ known \in [Servers -> DOMAIN Editions] /\ calm \in [Threads -> BOOLEAN]

(* The type invariant, with its records named. *)
LEMMA TypesParts ==
  GatewayTypeOK <=>
    /\ PolicyTypes
    /\ \E p \in Plans : plan = [p EXCEPT !.reloads = plan.reloads, !.edits = plan.edits]
    /\ job \in [Requests -> JobRecord] /\ attempt \in [Threads -> AttemptRecord]
    /\ counted \in [Servers -> [Actors -> Nat]]
    /\ trail \subseteq TrailRecord
    /\ sent \in [Threads -> SUBSET Models]
BY DEF GatewayTypeOK, PolicyTypeOK, PolicyTypes, MemoryRecord, LoadingRecord, ReadingRecord, JobRecord,
       AttemptRecord, TrailRecord

(* What a behaviour is about, as PlansAssumption has it. *)
PlanRecord == [prompt : [Requests -> Prompts], asked : SUBSET Requests,
     servers : SUBSET Servers, timeouts : BOOLEAN, cancels : BOOLEAN, mode : STRING,
     adapters : SUBSET STRING, reloads : Nat, edits : Nat]

(* The prompt of a request is a prompt, by an actor, and its scores are      *)
(* numbers.                                                                  *)
LEMMA PromptTypes ==
  ASSUME GatewayTypeOK, NEW r \in Requests
  PROVE  /\ Prompt(r) \in Prompts /\ Prompt(r).actor \in Actors
         /\ PolicyScore(Prompt(r)) \in Nat /\ GovernedScore(Prompt(r)) \in Nat
<1>1. PICK p \in Plans : plan = [p EXCEPT !.reloads = plan.reloads, !.edits = plan.edits]
  BY TypesParts
<1>2. p \in PlanRecord BY PlansAssumption DEF PlanRecord
<1>3. plan.prompt = p.prompt BY <1>1, <1>2 DEF PlanRecord
<1>4. Prompt(r) = p.prompt[r] BY <1>3 DEF Prompt
<1>5. p.prompt[r] \in Prompts BY <1>2 DEF PlanRecord
<1>6. p.prompt[r].actor \in Actors BY DEF Actors
<1> QED BY <1>4, <1>5, <1>6, ScoresAssumption

(* A thread is one of the two attempts at a request, and reloads tables too. *)
LEMMA ThreadTypes ==
  /\ \A t \in Threads : t.of \in Requests /\ t.nr \in 1 .. 2 /\ t = [of |-> t.of, nr |-> t.nr]
  /\ \A r \in Requests, n \in 1 .. 2 : [of |-> r, nr |-> n] \in Threads
  /\ Threads \subseteq Loaders
BY ThreadsAssumption DEF Loaders

(* The gateway starts well typed. *)
LEMMA InitTypes == GatewayInit => GatewayTypeOK
<1> SUFFICES ASSUME GatewayInit PROVE GatewayTypeOK OBVIOUS
<1> USE DEF GatewayInit
<1>1. PolicyTypeOK BY PolicyInitTypes
<1>2. \E p \in Plans : plan = [p EXCEPT !.reloads = plan.reloads, !.edits = plan.edits]
  <2>1. plan \in PlanRecord BY PlansAssumption DEF PlanRecord
  <2>2. plan = [plan EXCEPT !.reloads = plan.reloads, !.edits = plan.edits] BY <2>1 DEF PlanRecord
  <2> QED BY <2>2
<1>3. (CHOOSE s \in Servers : TRUE) \in Servers BY DeploymentAssumption
<1>4. 0 \in 0 .. 2 /\ 1 \in Cases /\ 1 \in DOMAIN Editions BY EditionTypes DEF Cases
<1>5. attempt \in [Threads -> [pc : {"idle", "scan", "policy", "route", "fallback",
        "answered", "over"}, server : Servers, since : DOMAIN Editions,
        model : Models \cup {"none"}, case : Cases]]
  BY <1>3, <1>4
<1>6. counted \in [Servers -> [Actors -> Nat]] OBVIOUS
<1> QED BY <1>1, <1>2, <1>4, <1>5, <1>6 DEF GatewayTypeOK

-----------------------------------------------------------------------------
(* A record of an attempt is an entry of the ledger. *)
LEMMA LogTypes ==
  ASSUME trail \subseteq TrailRecord, NEW t \in Threads, NEW model \in Models \cup {"none"},
         NEW actions \in SUBSET {"USER_QUARANTINE_REVIEW_REQUIRED",
            "PROMPT_INJECTION_BLOCKED", "PROMPT_BLOCKED", "AI_QUERY", "AI_CHAT_INTERACTION"},
         Log(t, actions, model)
  PROVE  trail' \subseteq TrailRecord
BY DEF Log, TrailRecord

(* What an attempt's end does with its job leaves a job. *)
LEMMA FailTypes ==
  ASSUME job \in [Requests -> JobRecord], NEW t \in Threads
  PROVE  /\ Fail(t) => job' \in [Requests -> JobRecord]
         /\ Succeed(t) => job' \in [Requests -> JobRecord]
         /\ AfterFailure(job[t.of], "failed") \in JobRecord
         /\ AfterFailure(job[t.of], "timeout") \in JobRecord
BY ThreadTypes DEF Fail, Succeed, AfterFailure, JobRecord

(* A step of a reload keeps the types of the tables. *)
LEMMA ReloadTypes ==
  ASSUME PolicyTypes, NEW l \in Loaders, ReloadStep(l)
  PROVE  /\ memory' \in [Servers -> MemoryRecord] /\ loading' \in [Loaders -> LoadingRecord]
         /\ known' \in [Servers -> DOMAIN Editions] /\ calm' \in [Threads -> BOOLEAN]
<1> USE DEF PolicyTypes
<1>1. CASE EmptyGlobals(l)
  BY <1>1 DEF EmptyGlobals, LoadingRecord, MemoryRecord
<1>2. CASE ReadFile(l)
  <2>1. PICK f \in loading[l].files :
          loading' = [loading EXCEPT ![l].files = @ \ {f}, ![l].data = Editions[edition][f]]
    BY <1>2 DEF ReadFile
  <2>0. loading[l] \in LoadingRecord /\ f \in Files BY <2>1 DEF LoadingRecord
  <2>2. Editions[edition][f] \in Seq(RuleSet) BY <2>0, RuleSetTypes
  <2> DEFINE data == Editions[edition][f]
          files == loading[l].files \ {f}
  <2>3. data \in Seq(RuleSet) /\ files \in SUBSET Files BY <2>0, <2>2 DEF LoadingRecord
  <2>4. loading' = [loading EXCEPT ![l].files = files, ![l].data = data] BY <2>1
  <2> HIDE DEF data, files
  <2>5. loading' \in [Loaders -> LoadingRecord] BY <2>0, <2>3, <2>4 DEF LoadingRecord
  <2> QED BY <1>2, <2>5 DEF ReadFile
<1>3. CASE AddRule(l)
  <2> DEFINE rule == Head(loading[l].data)
  <2>1. loading[l] \in LoadingRecord /\ loading[l].data \in Seq(RuleSet) /\ loading[l].data # << >>
    BY <1>3 DEF AddRule, LoadingRecord
  <2>2. rule \in RuleSet /\ Tail(loading[l].data) \in Seq(RuleSet) BY <2>1
  <2>3. rule.table \in {"global", "department"} BY <2>2, RuleSetTypes DEF RuleType
  <2>4. loading' \in [Loaders -> LoadingRecord]
    <3> DEFINE rest == IF Parses(rule) THEN Tail(loading[l].data) ELSE << >>
    <3>1. rest \in Seq(RuleSet) BY <2>2
    <3>2. loading' = [loading EXCEPT ![l].data = rest] BY <1>3 DEF AddRule
    <3> HIDE DEF rest
    <3> QED BY <2>1, <3>1, <3>2 DEF LoadingRecord
  <2>5. CASE Parses(rule)
    <3>1. memory' = [memory EXCEPT ![loading[l].server][rule.table] = @ \cup {rule}]
      BY <1>3, <2>5 DEF AddRule
    <3>2. memory' \in [Servers -> MemoryRecord]
      <4>1. CASE rule.table = "global" BY <3>1, <4>1, <2>1, <2>2 DEF LoadingRecord, MemoryRecord
      <4>2. CASE rule.table = "department" BY <3>1, <4>2, <2>1, <2>2 DEF LoadingRecord, MemoryRecord
      <4> QED BY <4>1, <4>2, <2>3
    <3> QED BY <1>3, <2>4, <3>2 DEF AddRule
  <2>6. CASE ~Parses(rule) BY <1>3, <2>4, <2>6 DEF AddRule
  <2> QED BY <2>5, <2>6
<1>4. CASE EndReload(l)
  <2>1. NotLoading \in LoadingRecord
    BY EditionTypes, DeploymentAssumption DEF NotLoading, LoadingRecord
  <2> QED BY <1>4, <2>1 DEF EndReload, LoadingRecord
<1> QED BY <1>1, <1>2, <1>3, <1>4 DEF ReloadStep

(* Emptying the department table, where a reload begins, keeps the types of  *)
(* the tables.                                                               *)
LEMMA EmptyTypes ==
  ASSUME PolicyTypes, NEW l \in Loaders, NEW s \in Servers, NEW at, EmptyDepartments(l, s, at)
  PROVE  /\ memory' \in [Servers -> MemoryRecord] /\ loading' \in [Loaders -> LoadingRecord]
         /\ calm' \in [Threads -> BOOLEAN]
<1> USE DEF PolicyTypes
<1>1. << >> \in Seq(RuleSet) OBVIOUS
<1> QED BY <1>1 DEF EmptyDepartments, LoadingRecord, MemoryRecord

(* A look at the tables keeps the types of the tables and of what was read. *)
LEMMA LookupTypes ==
  ASSUME PolicyTypes, NEW t \in Threads, NEW s \in Servers, NEW dept, NEW at, Lookup(t, s, dept, at)
  PROVE  /\ memory' \in [Servers -> MemoryRecord] /\ loading' \in [Loaders -> LoadingRecord]
         /\ reading' \in [Threads -> ReadingRecord]
         /\ known' \in [Servers -> DOMAIN Editions] /\ calm' \in [Threads -> BOOLEAN]
<1> USE DEF PolicyTypes
<1>1. CASE TestDepartments(t, s) BY <1>1 DEF TestDepartments, ReadingRecord
<1>2. CASE TestGlobals(t, s) BY <1>2 DEF TestGlobals, ReadingRecord
<1>3. CASE ReloadFirst(t, s, at)
  <2>1. t \in Loaders /\ EmptyDepartments(t, s, at) BY <1>3, ThreadTypes DEF ReloadFirst
  <2> QED BY <1>3, <2>1, EmptyTypes DEF ReloadFirst, ReadingRecord
<1>4. CASE ReadGlobals(t, s) BY <1>4 DEF ReadGlobals, ReadingRecord, MemoryRecord
<1>5. CASE ReadDepartment(t, s, dept) BY <1>5 DEF ReadDepartment, ReadingRecord, MemoryRecord
<1> QED BY <1>1, <1>2, <1>3, <1>4, <1>5 DEF Lookup

-----------------------------------------------------------------------------
(* A job that waits has an attempt left, so that it never has a third; an    *)
(* attempt that the job has not come to is idle; who is not idle has a       *)
(* request that was made; and only questions are scanned and put to the      *)
(* policies.                                                                 *)
JobsOK ==
  /\ \A r \in Requests : job[r].status \in {"new", "queued"} => job[r].attempts <= 1
  /\ \A t \in Threads : t.nr > job[t.of].attempts => attempt[t].pc = "idle"
  /\ \A t \in Threads : attempt[t].pc # "idle" => job[t.of].status # "new"
  /\ \A t \in Threads : attempt[t].pc \in {"scan", "policy"} => Prompt(t.of).kind = "ask"

(* No step changes the prompts: a plan only runs out of reloads and edits. *)
LEMMA PromptsStay ==
  ASSUME GatewayTypeOK, [GatewayNext]_gatewayVars
  PROVE  /\ plan'.prompt = plan.prompt
         /\ \E p \in Plans : plan' = [p EXCEPT !.reloads = plan'.reloads, !.edits = plan'.edits]
<1>1. PICK p \in Plans : plan = [p EXCEPT !.reloads = plan.reloads, !.edits = plan.edits]
  BY TypesParts
<1>2. p \in PlanRecord BY PlansAssumption DEF PlanRecord
<1>3. \/ plan' = plan
      \/ plan' = [plan EXCEPT !.reloads = @ - 1]
      \/ plan' = [plan EXCEPT !.edits = @ - 1]
  BY DEF GatewayNext, gatewayVars, Submit, Start, TimeUp, Scan, LookUpRules, Decide, Route, Fallback,
         RecordQuery, RecordChat, Record, NextCase, SeeCancel, ReloadPolicies, Reload, EditPolicies
<1>4. plan' = [p EXCEPT !.reloads = plan'.reloads, !.edits = plan'.edits]
  BY <1>1, <1>2, <1>3 DEF PlanRecord
<1>5. plan'.prompt = plan.prompt BY <1>1, <1>2, <1>3 DEF PlanRecord
<1> QED BY <1>4, <1>5

(* What the queue does with the job of an attempt that fails, succeeds, is   *)
(* cancelled or late.                                                        *)
JobMoves(t) ==
  \/ job' = job
  \/ \E j \in JobRecord : /\ job' = [job EXCEPT ![t.of] = j]
                          /\ j.attempts = job[t.of].attempts /\ j.status # "new"
                          /\ j.status = "queued" => j.attempts <= 1

(* The ends of an attempt are such moves of its job. *)
LEMMA FailMoves ==
  ASSUME job \in [Requests -> JobRecord], NEW t \in Threads
  PROVE  /\ Fail(t) \/ Succeed(t) => JobMoves(t)
         /\ TimeUp(t) \/ SeeCancel(t) => JobMoves(t)
<1> DEFINE j == job[t.of]
<1>0. t.of \in Requests /\ j \in JobRecord /\ j.attempts \in 0 .. 2 BY ThreadTypes DEF JobRecord
<1>1. ASSUME NEW status \in {"failed", "timeout"}, job' = [job EXCEPT ![t.of] = AfterFailure(@, status)]
      PROVE  JobMoves(t)
  <2> DEFINE k == AfterFailure(j, status)
  <2>1. /\ k \in JobRecord /\ k.attempts = j.attempts /\ k.status # "new"
        /\ k.status = "queued" => k.attempts <= 1
    <3>1. CASE j.attempts <= 1 BY <1>0, <3>1 DEF AfterFailure, JobRecord
    <3>2. CASE ~(j.attempts <= 1) BY <1>0, <3>2 DEF AfterFailure, JobRecord
    <3> QED BY <3>1, <3>2
  <2>2. job' = [job EXCEPT ![t.of] = k] BY <1>1
  <2> HIDE DEF k
  <2> QED BY <2>1, <2>2 DEF JobMoves
<1>2. ASSUME NEW status \in {"succeeded", "cancelled"}, job' = [job EXCEPT ![t.of].status = status]
      PROVE  JobMoves(t)
  <2> DEFINE k == [j EXCEPT !.status = status]
  <2>1. k \in JobRecord /\ k.attempts = j.attempts /\ k.status = status BY <1>0 DEF JobRecord
  <2>2. job' = [job EXCEPT ![t.of] = k] BY <1>2
  <2> HIDE DEF k
  <2> QED BY <2>1, <2>2 DEF JobMoves
<1>3. Fail(t) => JobMoves(t) BY <1>1 DEF Fail, JobMoves
<1>4. Succeed(t) => JobMoves(t) BY <1>2 DEF Succeed, JobMoves
<1>5. TimeUp(t) => JobMoves(t) BY <1>1 DEF TimeUp
<1>6. SeeCancel(t) => JobMoves(t) BY <1>2 DEF SeeCancel
<1> QED BY <1>3, <1>4, <1>5, <1>6

(* Where one attempt and its job move that way, JobsOK is kept. *)
LEMMA JobsMove ==
  ASSUME JobsOK, job \in [Requests -> JobRecord], NEW t \in Threads, JobMoves(t),
         attempt[t].pc # "idle" \/ attempt'[t] = attempt[t],
         \A u \in Threads \ {t} : attempt'[u] = attempt[u],
         attempt'[t].pc \in {"scan", "policy"} => Prompt(t.of).kind = "ask",
         \A r : Prompt(r)' = Prompt(r)
  PROVE  JobsOK' /\ job' \in [Requests -> JobRecord]
<1>0. \A u \in Threads : u.of \in Requests /\ u.nr \in 1 .. 2 BY ThreadTypes
<1>1. job' \in [Requests -> JobRecord] BY <1>0 DEF JobMoves
<1>2. \A r \in Requests :
        /\ job'[r].attempts = job[r].attempts
        /\ job[r].status # "new" => job'[r].status # "new"
        /\ job'[r].status \in {"new", "queued"} => job'[r].attempts <= 1
  BY <1>0 DEF JobMoves, JobsOK
<1>3. ASSUME NEW u \in Threads
      PROVE  /\ u.nr > job'[u.of].attempts => attempt'[u].pc = "idle"
             /\ attempt'[u].pc # "idle" => job'[u.of].status # "new"
             /\ attempt'[u].pc \in {"scan", "policy"} => Prompt(u.of).kind = "ask"
  <2>1. CASE attempt'[u] = attempt[u] BY <1>0, <1>2, <2>1 DEF JobsOK
  <2>2. CASE u = t /\ attempt[t].pc # "idle" BY <1>0, <1>2, <2>2 DEF JobsOK
  <2> QED BY <2>1, <2>2
<1> QED BY <1>1, <1>2, <1>3 DEF JobsOK

(* Every step keeps the types and JobsOK. *)
LEMMA JobsStep ==
  ASSUME GatewayTypeOK, JobsOK, [GatewayNext]_gatewayVars
  PROVE  GatewayTypeOK' /\ JobsOK'
<1>1. /\ plan'.prompt = plan.prompt
      /\ \E p \in Plans : plan' = [p EXCEPT !.reloads = plan'.reloads, !.edits = plan'.edits]
  BY PromptsStay
<1>2. /\ PolicyTypes
      /\ job \in [Requests -> JobRecord] /\ attempt \in [Threads -> AttemptRecord]
      /\ counted \in [Servers -> [Actors -> Nat]] /\ trail \subseteq TrailRecord
      /\ sent \in [Threads -> SUBSET Models]
  BY TypesParts
<1>3. \A r : Prompt(r)' = Prompt(r) BY <1>1 DEF Prompt
<1>4. \A r \in Requests :
        /\ Prompt(r) \in Prompts /\ Prompt(r).actor \in Actors
        /\ Prompt(r).model \in Models \cup {"none"}
  BY PromptTypes DEF Prompts
<1> DEFINE TypesLater == /\ PolicyTypes'
        /\ job' \in [Requests -> JobRecord] /\ attempt' \in [Threads -> AttemptRecord]
        /\ counted' \in [Servers -> [Actors -> Nat]] /\ trail' \subseteq TrailRecord
        /\ sent' \in [Threads -> SUBSET Models]
<1>5. SUFFICES TypesLater /\ JobsOK'
  <2>1. TypesLater => GatewayTypeOK'
    BY <1>1 DEF GatewayTypeOK, PolicyTypeOK, PolicyTypes, MemoryRecord, LoadingRecord, ReadingRecord,
                JobRecord, AttemptRecord, TrailRecord
  <2> QED BY <2>1
<1>6. UNCHANGED policyVars => PolicyTypes' BY <1>2 DEF PolicyTypes, policyVars
<1>7. ASSUME NEW t \in Threads
      PROVE  /\ t.of \in Requests /\ t.nr \in 1 .. 2 /\ job[t.of] \in JobRecord
             /\ attempt[t] \in AttemptRecord
  BY <1>2, ThreadTypes
<1>8. CASE UNCHANGED gatewayVars
  BY <1>2, <1>3, <1>6, <1>8 DEF gatewayVars, JobsOK
<1>9. ASSUME NEW r \in Requests, Submit(r) PROVE TypesLater /\ JobsOK'
  <2> DEFINE j == [job[r] EXCEPT !.status = "queued"]
  <2>1. j \in JobRecord /\ j.status = "queued" /\ j.attempts = job[r].attempts BY <1>2 DEF JobRecord
  <2>2. job' = [job EXCEPT ![r] = j] /\ job[r].status = "new" BY <1>9 DEF Submit
  <2> HIDE DEF j
  <2>3. job' \in [Requests -> JobRecord] BY <1>2, <2>1, <2>2
  <2>4. TypesLater BY <1>2, <1>6, <1>9, <2>3 DEF Submit, KeepPolicy
  <2>5. /\ job'[r] = j /\ \A q \in Requests \ {r} : job'[q] = job[q]
        /\ attempt' = attempt
    BY <1>2, <1>9, <2>2 DEF Submit
  <2>6. \A q \in Requests : job'[q].status \in {"new", "queued"} => job'[q].attempts <= 1
    BY <2>1, <2>2, <2>5 DEF JobsOK
  <2>7. ASSUME NEW u \in Threads
        PROVE  /\ u.nr > job'[u.of].attempts => attempt'[u].pc = "idle"
               /\ attempt'[u].pc # "idle" => job'[u.of].status # "new"
               /\ attempt'[u].pc \in {"scan", "policy"} => Prompt(u.of).kind = "ask"
    BY <1>7, <2>1, <2>2, <2>5 DEF JobsOK
  <2> QED BY <1>3, <2>4, <2>6, <2>7 DEF JobsOK
<1>10. ASSUME NEW r \in Requests, NEW s \in Servers, Start(r, s) PROVE TypesLater /\ JobsOK'
  <2> DEFINE n == job[r].attempts + 1
             t == [of |-> r, nr |-> n]
  <2>0. job[r] \in JobRecord /\ job[r].attempts \in 0 .. 2 BY <1>2 DEF JobRecord
  <2>1. job[r].attempts <= 1 BY <1>10 DEF Start, JobsOK
  <2>n. n \in 1 .. 2 BY <2>0, <2>1
  <2> HIDE DEF n
  <2>2. t \in Threads BY <2>n, ThreadTypes
  <2>3. t.of = r /\ t.nr = n OBVIOUS
  <2>4. /\ job' = [job EXCEPT ![r] = [status |-> "running", attempts |-> n]]
        /\ attempt' = [attempt EXCEPT ![t].server = s,
             ![t].pc = IF Prompt(r).kind = "ask" THEN "scan" ELSE "route"]
    BY <1>10, Zenon DEF Start, n
  <2> HIDE DEF t
  <2>5. job' \in [Requests -> JobRecord] BY <1>2, <2>n, <2>4 DEF JobRecord
  <2> DEFINE a == [attempt[t] EXCEPT !.server = s, !.pc = IF Prompt(r).kind = "ask" THEN "scan" ELSE "route"]
  <2>a. /\ a \in AttemptRecord
        /\ a.pc = (IF Prompt(r).kind = "ask" THEN "scan" ELSE "route")
    BY <1>7, <2>2 DEF AttemptRecord
  <2>b. attempt' = [attempt EXCEPT ![t] = a] BY <2>4, Zenon
  <2> HIDE DEF a
  <2>6. attempt' \in [Threads -> AttemptRecord] BY <1>2, <2>2, <2>a, <2>b
  <2>7. TypesLater BY <1>2, <1>6, <1>10, <2>5, <2>6 DEF Start, KeepPolicy
  <2>8. attempt'[t].pc = (IF Prompt(r).kind = "ask" THEN "scan" ELSE "route")
    BY <1>2, <2>2, <2>a, <2>b
  <2>9. \A u \in Threads \ {t} : attempt'[u] = attempt[u] BY <1>2, <2>b
  <2>10. job'[r] = [status |-> "running", attempts |-> n] /\ n = job[r].attempts + 1
    BY <1>2, <2>4 DEF n
  <2>11. \A q \in Requests \ {r} : job'[q] = job[q] BY <1>2, <2>4
  <2>12. JobsOK'
    <3>1. ASSUME NEW u \in Threads, u.nr > job'[u.of].attempts PROVE attempt'[u].pc = "idle"
      <4>1. CASE u.of = r
        <5>1. u.nr > n /\ u.nr > job[r].attempts
          BY <1>7, <3>1, <4>1, <2>0, <2>10
        <5>2. u # t BY <5>1, <2>3, <2>n
        <5> QED BY <2>9, <5>1, <5>2, <4>1 DEF JobsOK
      <4>2. CASE u.of # r
        <5>1. u # t BY <2>3, <4>2
        <5> QED BY <1>7, <2>9, <2>11, <3>1, <4>2, <5>1 DEF JobsOK
      <4> QED BY <4>1, <4>2
    <3>2. ASSUME NEW u \in Threads
          PROVE  /\ attempt'[u].pc # "idle" => job'[u.of].status # "new"
                 /\ attempt'[u].pc \in {"scan", "policy"} => Prompt(u.of).kind = "ask"
      <4>1. CASE u = t BY <4>1, <2>3, <2>8, <2>10
      <4>2. CASE u # t BY <4>2, <1>7, <2>9, <2>10, <2>11 DEF JobsOK
      <4> QED BY <4>1, <4>2
    <3>3. ASSUME NEW q \in Requests
          PROVE  job'[q].status \in {"new", "queued"} => job'[q].attempts <= 1
      BY <2>10, <2>11 DEF JobsOK
    <3> QED BY <1>3, <3>1, <3>2, <3>3 DEF JobsOK
  <2> QED BY <2>7, <2>12
<1>11. ASSUME NEW t \in Threads, TimeUp(t) PROVE TypesLater /\ JobsOK'
  <2>1. job' \in [Requests -> JobRecord] BY <1>2, <1>7, <1>11, FailTypes DEF TimeUp
  <2>2. TypesLater BY <1>2, <1>6, <1>11, <2>1 DEF TimeUp, KeepPolicy
  <2>3. JobMoves(t) /\ attempt' = attempt BY <1>2, <1>11, FailMoves DEF TimeUp
  <2>4. attempt[t].pc \in {"scan", "policy"} => Prompt(t.of).kind = "ask" BY DEF JobsOK
  <2> QED BY <1>2, <1>3, <2>2, <2>3, <2>4, JobsMove
<1>12. ASSUME NEW t \in Threads, Scan(t) PROVE TypesLater /\ JobsOK'
  <2> DEFINE p == Prompt(t.of)
             s == attempt[t].server
             review == IF counted'[s][p.actor] > 3 THEN {"USER_QUARANTINE_REVIEW_REQUIRED"} ELSE {}
  <2>1. /\ attempt[t].pc = "scan" /\ p.kind = "ask" /\ p.actor \in Actors /\ s \in Servers
        /\ review \in SUBSET {"USER_QUARANTINE_REVIEW_REQUIRED"}
    BY <1>4, <1>7, <1>12 DEF Scan, JobsOK, AttemptRecord
  <2>2. counted' \in [Servers -> [Actors -> Nat]]
    <3>1. counted' = Count(p, s) BY <1>12 DEF Scan
    <3> HIDE DEF p, s
    <3> QED BY <1>2, <2>1, <3>1 DEF Count
  <2>3. sent' = sent BY <1>12 DEF Scan
  <2>4. CASE Refused(p)
    <3>1. /\ Log(t, review \cup {"PROMPT_INJECTION_BLOCKED"}, "none")
          /\ Goto(t, "over") /\ Fail(t) /\ KeepPolicy
      BY <1>12, <2>4, Zenon DEF Scan
    <3> HIDE DEF p, s, review
    <3>2. trail' \subseteq TrailRecord BY <1>2, <2>1, <3>1, LogTypes
    <3>3. JobMoves(t) BY <1>2, <3>1, FailMoves
    <3>4. /\ attempt' \in [Threads -> AttemptRecord] /\ attempt'[t].pc = "over"
          /\ \A u \in Threads \ {t} : attempt'[u] = attempt[u]
      BY <1>2, <3>1 DEF Goto, AttemptRecord
    <3>5. JobsOK' /\ job' \in [Requests -> JobRecord] BY <1>2, <1>3, <2>1, <3>3, <3>4, JobsMove
    <3>6. PolicyTypes' BY <1>6, <3>1 DEF KeepPolicy
    <3> QED BY <1>2, <2>2, <2>3, <3>2, <3>4, <3>5, <3>6
  <2>5. CASE ~Refused(p)
    <3>1. /\ Log(t, review, "none")
          /\ attempt' = [attempt EXCEPT ![t].pc = "policy", ![t].since = known[s]]
          /\ BeginReading(t, s) /\ job' = job
          /\ UNCHANGED <<edition, memory, loading, known>>
      BY <1>12, <2>5, Zenon DEF Scan
    <3>2. known[s] \in DOMAIN Editions BY <1>2, <2>1 DEF PolicyTypes
    <3>7. review \in SUBSET {"USER_QUARANTINE_REVIEW_REQUIRED", "PROMPT_INJECTION_BLOCKED",
                             "PROMPT_BLOCKED", "AI_QUERY", "AI_CHAT_INTERACTION"} BY <2>1
    <3>8. p.kind = "ask" BY <2>1
    <3> HIDE DEF review, s
    <3>3. trail' \subseteq TrailRecord BY <1>2, <3>1, <3>7, LogTypes
    <3>4. /\ attempt' \in [Threads -> AttemptRecord]
          /\ \A u \in Threads \ {t} : attempt'[u] = attempt[u]
      BY <1>2, <3>1, <3>2 DEF AttemptRecord
    <3>5. JobsOK' /\ job' \in [Requests -> JobRecord]
      BY <1>2, <1>3, <2>1, <3>1, <3>4, <3>8, JobsMove DEF JobMoves
    <3>6. PolicyTypes'
      <4>1. reading' \in [Threads -> ReadingRecord] /\ calm' \in [Threads -> BOOLEAN]
        BY <1>2, <3>1 DEF BeginReading, PolicyTypes, ReadingRecord, NotReading
      <4> QED BY <1>2, <3>1, <4>1 DEF PolicyTypes
    <3> QED BY <1>2, <2>2, <2>3, <3>3, <3>4, <3>5, <3>6
  <2> QED BY <2>4, <2>5
<1>13. ASSUME NEW t \in Threads, LookUpRules(t) PROVE TypesLater /\ JobsOK'
  <2>1. PICK at : Lookup(t, attempt[t].server, Prompt(t.of).dept, at) BY <1>13 DEF LookUpRules
  <2>2. attempt[t].server \in Servers BY <1>7 DEF AttemptRecord
  <2>3. PolicyTypes'
    <3>1. edition' = edition BY <1>13 DEF LookUpRules
    <3>2. /\ memory' \in [Servers -> MemoryRecord] /\ loading' \in [Loaders -> LoadingRecord]
          /\ reading' \in [Threads -> ReadingRecord]
          /\ known' \in [Servers -> DOMAIN Editions] /\ calm' \in [Threads -> BOOLEAN]
      BY <1>2, <2>1, <2>2, LookupTypes
    <3> QED BY <1>2, <3>1, <3>2 DEF PolicyTypes
  <2> QED BY <1>2, <1>3, <1>13, <2>3 DEF LookUpRules, JobsOK
<1>14. ASSUME NEW t \in Threads, Decide(t) PROVE TypesLater /\ JobsOK'
  <2> DEFINE view == View(Prompt(t.of))
  <2>1. PICK pc \in {"over", "route"} : Goto(t, pc) BY <1>14, Zenon DEF Decide
  <2>2. attempt[t].pc = "policy" /\ (Fail(t) \/ job' = job) BY <1>14 DEF Decide
  <2>3. JobMoves(t) BY <1>2, <2>2, FailMoves DEF JobMoves
  <2>4. /\ attempt' \in [Threads -> AttemptRecord] /\ attempt'[t].pc = pc
        /\ \A u \in Threads \ {t} : attempt'[u] = attempt[u]
    BY <1>2, <2>1 DEF Goto, AttemptRecord
  <2>5. JobsOK' /\ job' \in [Requests -> JobRecord] BY <1>2, <1>3, <2>2, <2>3, <2>4, JobsMove
  <2>6. trail' \subseteq TrailRecord
    <3>1. view.model = Prompt(t.of).model BY DEF View
    <3>2. view.model \in Models \cup {"none"} BY <1>4, <1>7, <3>1
    <3>3. trail' = trail \/ Log(t, {"PROMPT_BLOCKED"}, view.model) BY <1>14, Zenon DEF Decide
    <3> HIDE DEF view
    <3> QED BY <1>2, <3>2, <3>3, LogTypes
  <2>7. PolicyTypes'
    <3>1. reading' = [reading EXCEPT ![t] = NotReading] /\ UNCHANGED <<edition, memory, loading, known, calm>>
      BY <1>14 DEF Decide
    <3> QED BY <1>2, <3>1 DEF PolicyTypes, ReadingRecord, NotReading
  <2>8. UNCHANGED <<counted, sent>> BY <1>14 DEF Decide
  <2> QED BY <1>2, <2>4, <2>5, <2>6, <2>7, <2>8
<1>15. ASSUME NEW t \in Threads, Route(t) PROVE TypesLater /\ JobsOK'
  <2> DEFINE target == Target(Prompt(t.of))
  <2>1. target \in Models BY <1>4, <1>7, ModelsAssumption DEF Target
  <2>2. sent' = sent \/ sent' = [sent EXCEPT ![t] = @ \cup {target}] BY <1>15 DEF Route
  <2>3. Answered(t, target) \/ Goto(t, "fallback") BY <1>15 DEF Route
  <2>4. attempt[t].pc = "route" /\ job' = job /\ KeepPolicy /\ UNCHANGED <<counted, trail>>
    BY <1>15 DEF Route
  <2> HIDE DEF target
  <2>5. /\ attempt' \in [Threads -> AttemptRecord] /\ attempt'[t].pc \in {"fallback", "answered"}
        /\ \A u \in Threads \ {t} : attempt'[u] = attempt[u]
    <3> DEFINE a(model) == [attempt[t] EXCEPT !.pc = "answered", !.model = model]
    <3>1. a(target) \in AttemptRecord /\ a(target).pc = "answered" BY <1>7, <2>1 DEF AttemptRecord
    <3>2. CASE Goto(t, "fallback") BY <1>2, <3>2 DEF Goto, AttemptRecord
    <3>3. CASE Answered(t, target)
      <4>1. attempt' = [attempt EXCEPT ![t] = a(target)] BY <3>3, Zenon DEF Answered
      <4> HIDE DEF a
      <4> QED BY <1>2, <3>1, <4>1
    <3> QED BY <2>3, <3>2, <3>3
  <2>6. JobsOK' BY <1>2, <1>3, <2>4, <2>5, JobsMove DEF JobMoves
  <2>7. sent' \in [Threads -> SUBSET Models] BY <1>2, <2>1, <2>2
  <2> QED BY <1>2, <1>6, <2>4, <2>5, <2>6, <2>7 DEF KeepPolicy
<1>16. ASSUME NEW t \in Threads, Fallback(t) PROVE TypesLater /\ JobsOK'
  <2>1. sent' = sent \/ sent' = [sent EXCEPT ![t] = @ \cup {LocalModel}]
    BY <1>16 DEF Fallback, FallbackModel
  <2>2. Answered(t, LocalModel) \/ Answered(t, "none") BY <1>16 DEF Fallback
  <2>3. attempt[t].pc = "fallback" /\ job' = job /\ KeepPolicy /\ UNCHANGED <<counted, trail>>
    BY <1>16 DEF Fallback
  <2>4. /\ attempt' \in [Threads -> AttemptRecord] /\ attempt'[t].pc = "answered"
        /\ \A u \in Threads \ {t} : attempt'[u] = attempt[u]
    <3> DEFINE a(model) == [attempt[t] EXCEPT !.pc = "answered", !.model = model]
    <3>1. \A model \in {LocalModel, "none"} : a(model) \in AttemptRecord /\ a(model).pc = "answered"
      BY <1>7, ModelsAssumption DEF AttemptRecord
    <3>2. ASSUME NEW model \in {LocalModel, "none"}, Answered(t, model)
          PROVE  attempt' = [attempt EXCEPT ![t] = a(model)]
      BY <3>2, Zenon DEF Answered
    <3> HIDE DEF a
    <3> QED BY <1>2, <2>2, <3>1, <3>2
  <2>5. JobsOK' BY <1>2, <1>3, <2>3, <2>4, JobsMove DEF JobMoves
  <2>6. sent' \in [Threads -> SUBSET Models] BY <1>2, <2>1, ModelsAssumption
  <2> QED BY <1>2, <1>6, <2>3, <2>4, <2>5, <2>6 DEF KeepPolicy
<1>17. ASSUME NEW t \in Threads, NEW kind, NEW action \in {"AI_QUERY", "AI_CHAT_INTERACTION"},
              Record(t, kind, action)
       PROVE  TypesLater /\ JobsOK'
  <2>1. /\ attempt[t].pc = "answered" /\ Log(t, {action}, attempt[t].model) /\ Goto(t, "over")
        /\ Succeed(t) /\ KeepPolicy /\ UNCHANGED <<counted, sent>>
    BY <1>17 DEF Record
  <2>2. trail' \subseteq TrailRecord
    <3>1. attempt[t].model \in Models \cup {"none"} BY <1>7 DEF AttemptRecord
    <3> QED BY <1>2, <2>1, <3>1, LogTypes
  <2>3. JobMoves(t) BY <1>2, <2>1, FailMoves
  <2>4. /\ attempt' \in [Threads -> AttemptRecord] /\ attempt'[t].pc = "over"
        /\ \A u \in Threads \ {t} : attempt'[u] = attempt[u]
    BY <1>2, <2>1 DEF Goto, AttemptRecord
  <2>5. JobsOK' /\ job' \in [Requests -> JobRecord] BY <1>2, <1>3, <2>1, <2>3, <2>4, JobsMove
  <2> QED BY <1>2, <1>6, <2>1, <2>2, <2>4, <2>5 DEF KeepPolicy
<1>18. ASSUME NEW t \in Threads, NextCase(t) PROVE TypesLater /\ JobsOK'
  <2>1. /\ attempt[t].pc = "answered" /\ KeepPolicy /\ UNCHANGED <<counted, trail, sent>>
        /\ job' = job \/ Succeed(t)
        /\ \/ /\ attempt[t].case + 1 \in Cases
              /\ attempt' = [attempt EXCEPT ![t].pc = "route", ![t].case = @ + 1]
           \/ Goto(t, "over")
    BY <1>18 DEF NextCase
  <2>2. JobMoves(t) BY <1>2, <2>1, FailMoves DEF JobMoves
  <2>3. /\ attempt' \in [Threads -> AttemptRecord] /\ attempt'[t].pc \in {"route", "over"}
        /\ \A u \in Threads \ {t} : attempt'[u] = attempt[u]
    <3>1. CASE Goto(t, "over") BY <1>2, <3>1 DEF Goto, AttemptRecord
    <3>2. CASE /\ attempt[t].case + 1 \in Cases
               /\ attempt' = [attempt EXCEPT ![t].pc = "route", ![t].case = @ + 1]
      BY <1>2, <3>2 DEF AttemptRecord
    <3> QED BY <2>1, <3>1, <3>2
  <2>4. JobsOK' /\ job' \in [Requests -> JobRecord] BY <1>2, <1>3, <2>1, <2>2, <2>3, JobsMove
  <2> QED BY <1>2, <1>6, <2>1, <2>3, <2>4 DEF KeepPolicy
<1>19. ASSUME NEW t \in Threads, SeeCancel(t) PROVE TypesLater /\ JobsOK'
  <2>1. /\ attempt[t].pc = "route" /\ KeepPolicy /\ UNCHANGED <<counted, trail, sent>>
        /\ Goto(t, "over")
    BY <1>19 DEF SeeCancel
  <2>2. JobMoves(t) BY <1>2, <1>19, FailMoves
  <2>3. /\ attempt' \in [Threads -> AttemptRecord] /\ attempt'[t].pc = "over"
        /\ \A u \in Threads \ {t} : attempt'[u] = attempt[u]
    BY <1>2, <2>1 DEF Goto, AttemptRecord
  <2>4. JobsOK' /\ job' \in [Requests -> JobRecord] BY <1>2, <1>3, <2>1, <2>2, <2>3, JobsMove
  <2> QED BY <1>2, <1>6, <2>1, <2>3, <2>4 DEF KeepPolicy
<1>20. ASSUME NEW s \in Servers, ReloadPolicies(s) PROVE TypesLater /\ JobsOK'
  <2>1. PICK at : EmptyDepartments([of |-> s, nr |-> 0], s, at) BY <1>20, Zenon DEF ReloadPolicies
  <2>2. [of |-> s, nr |-> 0] \in Loaders BY DEF Loaders, Reloaders
  <2>3. UNCHANGED <<edition, reading, known, job, attempt, counted, trail, sent>>
    BY <1>20 DEF ReloadPolicies
  <2>4. PolicyTypes' BY <1>2, <2>1, <2>2, <2>3, EmptyTypes DEF PolicyTypes
  <2> QED BY <1>2, <1>3, <2>3, <2>4 DEF JobsOK
<1>21. ASSUME NEW l \in Loaders, Reload(l) PROVE TypesLater /\ JobsOK'
  <2>1. ReloadStep(l) /\ UNCHANGED <<edition, reading, job, attempt, counted, trail, sent>>
    BY <1>21 DEF Reload
  <2>2. PolicyTypes' BY <1>2, <2>1, ReloadTypes DEF PolicyTypes
  <2> QED BY <1>2, <1>3, <2>1, <2>2 DEF JobsOK
<1>22. CASE EditPolicies
  <2>1. edition < Len(Editions) /\ edition' = edition + 1
     /\ UNCHANGED <<memory, loading, reading, known, calm, job, attempt, counted, trail, sent>>
    BY <1>22 DEF EditPolicies, EditFiles
  <2>2. edition' \in DOMAIN Editions BY <1>2, <2>1, EditionTypes DEF PolicyTypes
  <2>3. PolicyTypes' BY <1>2, <2>1, <2>2 DEF PolicyTypes
  <2> QED BY <1>2, <1>3, <2>1, <2>3 DEF JobsOK
<1> QED BY <1>8, <1>9, <1>10, <1>11, <1>12, <1>13, <1>14, <1>15, <1>16, <1>17, <1>18, <1>19, <1>20,
           <1>21, <1>22, Zenon DEF GatewayNext, RecordQuery, RecordChat

-----------------------------------------------------------------------------
(* Before it comes to a model an attempt has given its prompt to none, and   *)
(* the answer it returns is of a model that has it, or of none.              *)
SentAt(t) ==
  /\ attempt[t].pc \in {"idle", "scan", "policy"} => sent[t] = {}
  /\ attempt[t].pc = "route" /\ Prompt(t.of).kind # "benchmark" => sent[t] = {}
  /\ attempt[t].pc = "answered" => attempt[t].model \in sent[t] \cup {"none"}

(* What AskedHotStaysLocal is about: a prompt that the router has to keep. *)
Hot(p) ==
  \/ p.kind = "benchmark"
  \/ p.kind = "ask" /\ (PolicyScore(p) > 700 \/ GovernedScore(p) > 700)

(* What an attempt gave of a hot prompt, it gave to local models. *)
LocalAt(t) == Hot(Prompt(t.of)) => \A m \in sent[t] : Provider[m] = "ollama"

(* SentIsRecorded, of one attempt. *)
RecordedAt(t) ==
  sent[t] # {} /\ attempt[t].pc = "over" /\ Prompt(t.of).kind # "benchmark" =>
    \E r \in trail : /\ r.by = t
                     /\ r.action \in {"AI_QUERY", "AI_CHAT_INTERACTION"}
                     /\ r.model \in sent[t] \cup {"none"}

(* The invariant of what the models are given. *)
SendingOK == \A t \in Threads : SentAt(t) /\ LocalAt(t) /\ RecordedAt(t)

(* The invariant of the sendings implies the two properties about them. *)
LEMMA SendingSays == SendingOK => AskedHotStaysLocal /\ SentIsRecorded
BY DEF SendingOK, LocalAt, Hot, RecordedAt, AskedHotStaysLocal, SentIsRecorded

(* Where only one attempt moves and the ledger grows, its own part of the    *)
(* invariant is all there is to see.                                         *)
LEMMA SendingFrame ==
  ASSUME SendingOK, NEW t \in Threads, \A r : Prompt(r)' = Prompt(r), trail \subseteq trail',
         \A u \in Threads \ {t} : attempt'[u] = attempt[u] /\ sent'[u] = sent[u],
         SentAt(t)', LocalAt(t)', RecordedAt(t)'
  PROVE  SendingOK'
<1> SUFFICES ASSUME NEW u \in Threads \ {t} PROVE SentAt(u)' /\ LocalAt(u)' /\ RecordedAt(u)'
  BY DEF SendingOK
<1>1. SentAt(u) /\ LocalAt(u) /\ RecordedAt(u) BY DEF SendingOK
<1>2. SentAt(u)' BY <1>1 DEF SentAt
<1>3. LocalAt(u)' BY <1>1 DEF LocalAt
<1>4. RecordedAt(u)' BY <1>1 DEF RecordedAt
<1> QED BY <1>2, <1>3, <1>4

(* The model the router chooses for a hot prompt is local: it heeds the      *)
(* larger of the policies' score and the masking proxy's.                    *)
LEMMA HotIsForced ==
  ASSUME GatewayTypeOK, NEW r \in Requests, Hot(Prompt(r))
  PROVE  Provider[Target(Prompt(r))] = "ollama"
<1>1. PolicyScore(Prompt(r)) \in Nat /\ GovernedScore(Prompt(r)) \in Nat BY PromptTypes
<1>2. Forced(Prompt(r)) BY <1>1 DEF Hot, Forced, BenchmarkScore, RouteScore, Larger
<1> QED BY <1>2, ModelsAssumption DEF Target

(* Every step keeps the invariant of the sendings. *)
LEMMA SendingStep ==
  ASSUME GatewayTypeOK, JobsOK, SendingOK, [GatewayNext]_gatewayVars
  PROVE  SendingOK'
<1>1. \A r : Prompt(r)' = Prompt(r) BY PromptsStay DEF Prompt
<1>2. /\ job \in [Requests -> JobRecord] /\ attempt \in [Threads -> AttemptRecord]
      /\ sent \in [Threads -> SUBSET Models]
  BY TypesParts
<1>3. ASSUME NEW t \in Threads
      PROVE  /\ t.of \in Requests /\ t.nr \in 1 .. 2 /\ attempt[t] \in AttemptRecord
             /\ SentAt(t) /\ LocalAt(t) /\ RecordedAt(t)
  BY <1>2, ThreadTypes DEF SendingOK
<1>4. ASSUME UNCHANGED <<attempt, sent>>, trail \subseteq trail' PROVE SendingOK'
  <2> SUFFICES ASSUME NEW u \in Threads PROVE SentAt(u)' /\ LocalAt(u)' /\ RecordedAt(u)'
    BY DEF SendingOK
  <2>1. SentAt(u) /\ LocalAt(u) /\ RecordedAt(u) BY DEF SendingOK
  <2>2. SentAt(u)' BY <1>1, <1>4, <2>1 DEF SentAt
  <2>3. LocalAt(u)' BY <1>1, <1>4, <2>1 DEF LocalAt
  <2>4. RecordedAt(u)' BY <1>1, <1>4, <2>1 DEF RecordedAt
  <2> QED BY <2>2, <2>3, <2>4
<1>5. ASSUME NEW t \in Threads, trail \subseteq trail', sent' = sent, sent[t] = {},
             \A u \in Threads \ {t} : attempt'[u] = attempt[u],
             attempt'[t].pc # "answered"
      PROVE  SendingOK'
  <2>1. sent'[t] = {} BY <1>5
  <2>2. SentAt(t)' BY <1>5, <2>1 DEF SentAt
  <2>3. LocalAt(t)' BY <2>1 DEF LocalAt
  <2>4. RecordedAt(t)' BY <2>1 DEF RecordedAt
  <2> QED BY <1>1, <1>5, <2>2, <2>3, <2>4, SendingFrame
<1>6. \A t, actions, model : Log(t, actions, model) => trail \subseteq trail' BY DEF Log
<1>7. CASE UNCHANGED gatewayVars BY <1>4, <1>7 DEF gatewayVars
<1>8. ASSUME NEW r \in Requests, Submit(r) PROVE SendingOK' BY <1>4, <1>8 DEF Submit
<1>9. ASSUME NEW r \in Requests, NEW s \in Servers, Start(r, s) PROVE SendingOK'
  <2> DEFINE n == job[r].attempts + 1
             t == [of |-> r, nr |-> n]
             a == [attempt[t] EXCEPT !.server = s, !.pc = IF Prompt(r).kind = "ask" THEN "scan" ELSE "route"]
  <2>1. job[r] \in JobRecord /\ job[r].attempts \in 0 .. 2 BY <1>2 DEF JobRecord
  <2>2. job[r].attempts <= 1 BY <1>9 DEF Start, JobsOK
  <2>3. n \in 1 .. 2 /\ n > job[r].attempts BY <2>1, <2>2
  <2>4. /\ attempt' = [attempt EXCEPT ![t].server = s,
             ![t].pc = IF Prompt(r).kind = "ask" THEN "scan" ELSE "route"]
        /\ UNCHANGED <<trail, sent>>
    BY <1>9, Zenon DEF Start
  <2> HIDE DEF n
  <2>5. t \in Threads /\ t.of = r /\ t.nr = n BY <2>3, ThreadTypes
  <2>6. attempt' = [attempt EXCEPT ![t] = a] BY <2>4, Zenon
  <2> HIDE DEF t
  <2>7. attempt[t].pc = "idle" BY <2>3, <2>5 DEF JobsOK
  <2>8. sent[t] = {} BY <1>3, <2>5, <2>7 DEF SentAt
  <2>9. a.pc \in {"scan", "route"} BY <1>3, <2>5 DEF AttemptRecord
  <2> HIDE DEF a
  <2>10. /\ attempt'[t].pc # "answered" /\ \A u \in Threads \ {t} : attempt'[u] = attempt[u]
    BY <1>2, <2>5, <2>6, <2>9
  <2> QED BY <1>5, <2>4, <2>5, <2>8, <2>10
<1>10. ASSUME NEW t \in Threads, TimeUp(t) PROVE SendingOK' BY <1>4, <1>10 DEF TimeUp
<1>11. ASSUME NEW t \in Threads, Scan(t) PROVE SendingOK'
  <2>1. attempt[t].pc = "scan" /\ sent' = sent /\ trail \subseteq trail' BY <1>6, <1>11, Zenon DEF Scan
  <2>2. \/ Goto(t, "over")
        \/ attempt' = [attempt EXCEPT ![t].pc = "policy", ![t].since = known[attempt[t].server]]
    BY <1>11, Zenon DEF Scan
  <2>3. /\ attempt'[t].pc # "answered" /\ \A u \in Threads \ {t} : attempt'[u] = attempt[u]
    <3>1. CASE Goto(t, "over") BY <1>2, <3>1 DEF Goto, AttemptRecord
    <3>2. CASE attempt' = [attempt EXCEPT ![t].pc = "policy", ![t].since = known[attempt[t].server]]
      <4> DEFINE a == [attempt[t] EXCEPT !.pc = "policy", !.since = known[attempt[t].server]]
      <4>1. a.pc = "policy" BY <1>3 DEF AttemptRecord
      <4>2. attempt' = [attempt EXCEPT ![t] = a] BY <3>2, Zenon
      <4> HIDE DEF a
      <4> QED BY <1>2, <4>1, <4>2
    <3> QED BY <2>2, <3>1, <3>2
  <2>4. sent[t] = {} BY <1>3, <2>1 DEF SentAt
  <2> QED BY <1>5, <2>1, <2>3, <2>4
<1>12. ASSUME NEW t \in Threads, LookUpRules(t) PROVE SendingOK' BY <1>4, <1>12 DEF LookUpRules
<1>13. ASSUME NEW t \in Threads, Decide(t) PROVE SendingOK'
  <2>1. attempt[t].pc = "policy" /\ sent' = sent /\ trail \subseteq trail' BY <1>6, <1>13 DEF Decide
  <2>2. Goto(t, "over") \/ Goto(t, "route") BY <1>13, Zenon DEF Decide
  <2>3. /\ attempt'[t].pc # "answered" /\ \A u \in Threads \ {t} : attempt'[u] = attempt[u]
    BY <1>2, <2>2 DEF Goto, AttemptRecord
  <2>4. sent[t] = {} BY <1>3, <2>1 DEF SentAt
  <2> QED BY <1>5, <2>1, <2>3, <2>4
<1>14. ASSUME NEW t \in Threads, NEW model \in Models, Answered(t, model) \/ Answered(t, "none")
       PROVE  /\ attempt'[t].pc = "answered" /\ attempt'[t].model \in {model, "none"}
              /\ \A u \in Threads \ {t} : attempt'[u] = attempt[u]
  <2> DEFINE a(m) == [attempt[t] EXCEPT !.pc = "answered", !.model = m]
  <2>1. \A m : a(m).pc = "answered" /\ a(m).model = m BY <1>3 DEF AttemptRecord
  <2>2. \E m \in {model, "none"} : attempt' = [attempt EXCEPT ![t] = a(m)]
    BY <1>14, Zenon DEF Answered
  <2> HIDE DEF a
  <2> QED BY <1>2, <2>1, <2>2
<1>15. ASSUME NEW t \in Threads, Route(t) PROVE SendingOK'
  <2> DEFINE target == Target(Prompt(t.of))
  <2>0. target \in Models
    <3>1. Prompt(t.of).model \in Models \cup {"none"} BY <1>3, PromptTypes DEF Prompts
    <3> QED BY <3>1, ModelsAssumption DEF Target
  <2>1. attempt[t].pc = "route" /\ UNCHANGED trail BY <1>15 DEF Route
  <2>2. \/ /\ sent' = [sent EXCEPT ![t] = @ \cup {target}]
           /\ Answered(t, target) \/ Goto(t, "fallback")
        \/ sent' = sent /\ Goto(t, "fallback")
    BY <1>15 DEF Route
  <2>3. LocalAt(t) /\ (Hot(Prompt(t.of)) => Provider[target] = "ollama") BY <1>3, HotIsForced
  <2> HIDE DEF target
  <2>4. /\ sent'[t] \in {sent[t], sent[t] \cup {target}}
        /\ \A u \in Threads \ {t} : sent'[u] = sent[u]
    BY <1>2, <2>2
  <2>5. LocalAt(t)' BY <1>1, <2>3, <2>4 DEF LocalAt
  <2>6. /\ attempt'[t].pc \in {"answered", "fallback"}
        /\ attempt'[t].pc = "answered" => attempt'[t].model \in sent'[t] \cup {"none"}
        /\ \A u \in Threads \ {t} : attempt'[u] = attempt[u]
    <3>1. CASE Answered(t, target) /\ sent' = [sent EXCEPT ![t] = @ \cup {target}]
      BY <1>2, <1>14, <2>0, <3>1
    <3>2. CASE Goto(t, "fallback") BY <1>2, <3>2 DEF Goto, AttemptRecord
    <3> QED BY <2>2, <3>1, <3>2
  <2>7. SentAt(t)' BY <2>6 DEF SentAt
  <2>8. RecordedAt(t)' BY <2>6 DEF RecordedAt
  <2> QED BY <1>1, <2>1, <2>4, <2>5, <2>6, <2>7, <2>8, SendingFrame
<1>16. ASSUME NEW t \in Threads, Fallback(t) PROVE SendingOK'
  <2>1. UNCHANGED trail BY <1>16 DEF Fallback
  <2>2. \/ /\ sent' = [sent EXCEPT ![t] = @ \cup {LocalModel}]
           /\ Answered(t, LocalModel) \/ Answered(t, "none")
        \/ sent' = sent /\ Answered(t, "none")
    BY <1>16 DEF Fallback, FallbackModel
  <2>3. LocalModel \in Models /\ Provider[LocalModel] = "ollama" BY ModelsAssumption
  <2>4. /\ sent'[t] \in {sent[t], sent[t] \cup {LocalModel}}
        /\ \A u \in Threads \ {t} : sent'[u] = sent[u]
    BY <1>2, <2>2
  <2>5. LocalAt(t)' BY <1>1, <1>3, <2>3, <2>4 DEF LocalAt
  <2>6. /\ attempt'[t].pc = "answered" /\ attempt'[t].model \in {LocalModel, "none"}
        /\ \A u \in Threads \ {t} : attempt'[u] = attempt[u]
    BY <1>14, <2>2, <2>3
  <2>7. attempt'[t].model \in sent'[t] \cup {"none"}
    <3>1. CASE sent' = [sent EXCEPT ![t] = @ \cup {LocalModel}] BY <1>2, <2>6, <3>1
    <3>2. CASE Answered(t, "none")
      <4> DEFINE a == [attempt[t] EXCEPT !.pc = "answered", !.model = "none"]
      <4>1. a.model = "none" BY <1>3 DEF AttemptRecord
      <4>2. attempt' = [attempt EXCEPT ![t] = a] BY <3>2, Zenon DEF Answered
      <4> HIDE DEF a
      <4> QED BY <1>2, <4>1, <4>2
    <3> QED BY <2>2, <3>1, <3>2
  <2>8. SentAt(t)' BY <2>6, <2>7 DEF SentAt
  <2>9. RecordedAt(t)' BY <2>6 DEF RecordedAt
  <2> QED BY <1>1, <2>1, <2>4, <2>5, <2>6, <2>8, <2>9, SendingFrame
<1>17. ASSUME NEW t \in Threads, NEW kind, NEW action \in {"AI_QUERY", "AI_CHAT_INTERACTION"},
              Record(t, kind, action)
       PROVE  SendingOK'
  <2>1. /\ attempt[t].pc = "answered" /\ Log(t, {action}, attempt[t].model) /\ Goto(t, "over")
        /\ sent' = sent
    BY <1>17 DEF Record
  <2>2. attempt'[t].pc = "over" /\ \A u \in Threads \ {t} : attempt'[u] = attempt[u]
    BY <1>2, <2>1 DEF Goto, AttemptRecord
  <2>3. SentAt(t)' BY <2>2 DEF SentAt
  <2>4. LocalAt(t)' BY <1>1, <1>3, <2>1 DEF LocalAt
  <2>5. RecordedAt(t)'
    <3> DEFINE r == [by |-> t, action |-> action, model |-> attempt[t].model]
    <3>1. r \in trail' BY <2>1 DEF Log
    <3>2. attempt[t].model \in sent[t] \cup {"none"} BY <1>3, <2>1 DEF SentAt
    <3>3. /\ r.by = t /\ r.action \in {"AI_QUERY", "AI_CHAT_INTERACTION"}
          /\ r.model \in sent'[t] \cup {"none"}
      BY <2>1, <3>2
    <3> HIDE DEF r
    <3> QED BY <3>1, <3>3 DEF RecordedAt
  <2> QED BY <1>1, <1>6, <2>1, <2>2, <2>3, <2>4, <2>5, SendingFrame
<1>18. ASSUME NEW t \in Threads, NextCase(t) \/ SeeCancel(t) PROVE SendingOK'
  <2>1. Prompt(t.of).kind = "benchmark" /\ UNCHANGED <<sent, trail>> BY <1>18 DEF NextCase, SeeCancel
  <2>2. \/ attempt' = [attempt EXCEPT ![t].pc = "route", ![t].case = @ + 1]
        \/ Goto(t, "over")
    BY <1>18, Zenon DEF NextCase, SeeCancel
  <2>3. attempt'[t].pc \in {"route", "over"} /\ \A u \in Threads \ {t} : attempt'[u] = attempt[u]
    <3>1. CASE Goto(t, "over") BY <1>2, <3>1 DEF Goto, AttemptRecord
    <3>2. CASE attempt' = [attempt EXCEPT ![t].pc = "route", ![t].case = @ + 1]
      <4> DEFINE a == [attempt[t] EXCEPT !.pc = "route", !.case = @ + 1]
      <4>1. a.pc = "route" BY <1>3 DEF AttemptRecord
      <4>2. attempt' = [attempt EXCEPT ![t] = a] BY <3>2, Zenon
      <4> HIDE DEF a
      <4> QED BY <1>2, <4>1, <4>2
    <3> QED BY <2>2, <3>1, <3>2
  <2>4. SentAt(t)' BY <1>1, <2>1, <2>3 DEF SentAt
  <2>5. LocalAt(t)' BY <1>1, <1>3, <2>1 DEF LocalAt
  <2>6. RecordedAt(t)' BY <1>1, <2>1 DEF RecordedAt
  <2> QED BY <1>1, <2>1, <2>3, <2>4, <2>5, <2>6, SendingFrame
<1>19. ASSUME NEW s \in Servers, ReloadPolicies(s) PROVE SendingOK' BY <1>4, <1>19 DEF ReloadPolicies
<1>20. ASSUME NEW l \in Loaders, Reload(l) PROVE SendingOK' BY <1>4, <1>20 DEF Reload
<1>21. CASE EditPolicies BY <1>4, <1>21 DEF EditPolicies
<1> QED BY <1>7, <1>8, <1>9, <1>10, <1>11, <1>12, <1>13, <1>15, <1>16, <1>17, <1>18, <1>19, <1>20,
           <1>21, Zenon DEF GatewayNext, RecordQuery, RecordChat

-----------------------------------------------------------------------------
(* Of some requests there are at most twice as many attempts. *)
LEMMA AttemptsOf ==
  ASSUME NEW Q \in SUBSET Requests
  PROVE  /\ IsFiniteSet({t \in Threads : t.of \in Q}) /\ IsFiniteSet(Q)
         /\ Cardinality({t \in Threads : t.of \in Q}) \in Nat /\ Cardinality(Q) \in Nat
         /\ Cardinality({t \in Threads : t.of \in Q}) <= 2 * Cardinality(Q)
<1> DEFINE A(n) == {t \in Threads : t.of \in Q /\ t.nr = n}
<1>1. IsFiniteSet(Q) /\ Cardinality(Q) \in Nat
  <2>1. IsFiniteSet(Requests) BY ThreadsAssumption
  <2>2. IsFiniteSet(Q) BY <2>1, FS_Subset
  <2> QED BY <2>2, FS_CardinalityType
<1>2. ASSUME NEW n \in 1 .. 2
      PROVE  IsFiniteSet(A(n)) /\ Cardinality(A(n)) \in Nat /\ Cardinality(A(n)) <= Cardinality(Q)
  <2> DEFINE f == [t \in A(n) |-> t.of]
  <2>1. f \in [A(n) -> Q] OBVIOUS
  <2>2. ASSUME NEW t \in A(n), NEW u \in A(n), f[t] = f[u] PROVE t = u
    BY <2>2, ThreadTypes
  <2>3. f \in Injection(A(n), Q) BY <2>1, <2>2 DEF Injection, IsInjective
  <2> HIDE DEF f, A
  <2>4. IsFiniteSet(A(n)) /\ Cardinality(A(n)) <= Cardinality(Q) BY <1>1, <2>3, FS_Injection
  <2> QED BY <2>4, FS_CardinalityType
<1>3. {t \in Threads : t.of \in Q} = A(1) \cup A(2) BY ThreadTypes
<1> HIDE DEF A
<1>4. /\ IsFiniteSet(A(1) \cup A(2))
      /\ Cardinality(A(1) \cup A(2)) = Cardinality(A(1)) + Cardinality(A(2)) - Cardinality(A(1) \cap A(2))
  BY <1>2, FS_Union
<1>5. IsFiniteSet(A(1) \cap A(2)) BY <1>2, FS_Intersection
<1>6. Cardinality(A(1) \cap A(2)) \in Nat /\ Cardinality(A(1) \cup A(2)) \in Nat
  BY <1>4, <1>5, FS_CardinalityType
<1>7. Cardinality(A(1) \cup A(2)) <= 2 * Cardinality(Q) BY <1>1, <1>2, <1>4, <1>6
<1> QED BY <1>1, <1>3, <1>4, <1>6, <1>7

(* There are finitely many attempts. *)
LEMMA ThreadsFinite == IsFiniteSet(Threads)
<1>1. {t \in Threads : t.of \in Requests} = Threads BY ThreadTypes
<1> QED BY <1>1, AttemptsOf

(* The attempts whose interception a process has counted for an actor. *)
Scanned(s, a) ==
  {t \in Threads : /\ attempt[t].pc \notin {"idle", "scan"} /\ attempt[t].server = s
                   /\ Prompt(t.of).kind = "ask" /\ Prompt(t.of).actor = a /\ IsPII(Prompt(t.of))}

(* A process has counted no more interceptions of an actor than it scanned   *)
(* attempts of his with PII in their prompts.                                *)
CountsOK == \A s \in Servers, a \in Actors : counted[s][a] <= Cardinality(Scanned(s, a))

(* The requests an actor has made whose prompts hold PII. *)
Own(a) == {q \in Requests : job[q].status # "new" /\ Prompt(q).actor = a /\ IsPII(Prompt(q))}

(* The scanned attempts can be counted, before and after a step. *)
LEMMA ScannedFinite ==
  ASSUME NEW s, NEW a
  PROVE  /\ IsFiniteSet(Scanned(s, a)) /\ Cardinality(Scanned(s, a)) \in Nat
         /\ IsFiniteSet(Scanned(s, a)') /\ Cardinality(Scanned(s, a)') \in Nat
<1>1. Scanned(s, a) \subseteq Threads /\ Scanned(s, a)' \subseteq Threads BY DEF Scanned
<1> QED BY <1>1, ThreadsFinite, FS_Subset, FS_CardinalityType

(* More than three attempts are attempts at two requests or more. *)
LEMMA TwoRequests ==
  ASSUME NEW S \in SUBSET Threads, NEW Q \in SUBSET Requests, \A t \in S : t.of \in Q,
         Cardinality(S) > 3
  PROVE  Cardinality(Q) >= 2
<1> DEFINE all == {t \in Threads : t.of \in Q}
<1>1. S \in SUBSET all OBVIOUS
<1>2. /\ IsFiniteSet(all) /\ Cardinality(all) \in Nat /\ Cardinality(Q) \in Nat
      /\ Cardinality(all) <= 2 * Cardinality(Q)
  BY AttemptsOf
<1> HIDE DEF all
<1>3. Cardinality(S) <= Cardinality(all) BY <1>1, <1>2, FS_Subset
<1>4. Cardinality(S) \in Nat BY <1>1, <1>2, FS_Subset, FS_CardinalityType
<1> QED BY <1>2, <1>3, <1>4

(* A request that was made stays made, an attempt that was scanned stays     *)
(* scanned and in its process, and only a scan counts or asks for a review.  *)
LEMMA MovesOn ==
  ASSUME GatewayTypeOK, JobsOK, [GatewayNext]_gatewayVars
  PROVE  /\ \A q \in Requests : job[q].status # "new" => job'[q].status # "new"
         /\ \A t \in Threads : attempt[t].pc \notin {"idle", "scan"} =>
              attempt'[t].pc \notin {"idle", "scan"} /\ attempt'[t].server = attempt[t].server
         /\ \/ /\ counted' = counted
               /\ \A r \in trail' : r.action = "USER_QUARANTINE_REVIEW_REQUIRED" => r \in trail
            \/ \E t \in Threads : Scan(t)
<1>2. /\ job \in [Requests -> JobRecord] /\ attempt \in [Threads -> AttemptRecord]
  BY TypesParts
<1>3. ASSUME NEW t \in Threads
      PROVE  t.of \in Requests /\ t.nr \in 1 .. 2 /\ attempt[t] \in AttemptRecord
  BY <1>2, ThreadTypes
<1> DEFINE JobsOn == \A q \in Requests : job[q].status # "new" => job'[q].status # "new"
           ThreadsOn == \A t \in Threads : attempt[t].pc \notin {"idle", "scan"} =>
              attempt'[t].pc \notin {"idle", "scan"} /\ attempt'[t].server = attempt[t].server
           Quiet == /\ counted' = counted
                    /\ \A r \in trail' : r.action = "USER_QUARANTINE_REVIEW_REQUIRED" => r \in trail
<1>4. ASSUME NEW t \in Threads, JobMoves(t) PROVE JobsOn
  BY <1>2, <1>3, <1>4 DEF JobMoves
<1>5. ASSUME NEW t \in Threads, NEW pc \in {"over", "route", "fallback"}, Goto(t, pc) PROVE ThreadsOn
  BY <1>2, <1>5 DEF Goto, AttemptRecord
<1>6. ASSUME NEW t \in Threads, NEW model, Answered(t, model) PROVE ThreadsOn
  <2> DEFINE a == [attempt[t] EXCEPT !.pc = "answered", !.model = model]
  <2>1. a.pc = "answered" /\ a.server = attempt[t].server BY <1>3 DEF AttemptRecord
  <2>2. attempt' = [attempt EXCEPT ![t] = a] BY <1>6, Zenon DEF Answered
  <2> HIDE DEF a
  <2> QED BY <1>2, <2>1, <2>2
<1>7. ASSUME NEW t, NEW actions, NEW model, Log(t, actions, model), counted' = counted,
             "USER_QUARANTINE_REVIEW_REQUIRED" \notin actions
      PROVE  Quiet
  BY <1>7 DEF Log
<1>8. job' = job => JobsOn OBVIOUS
<1>9. attempt' = attempt => ThreadsOn OBVIOUS
<1>10. UNCHANGED <<counted, trail>> => Quiet OBVIOUS
<1> HIDE DEF JobsOn, ThreadsOn, Quiet
<1>11. SUFFICES JobsOn /\ ThreadsOn /\ (Quiet \/ \E t \in Threads : Scan(t))
  BY DEF JobsOn, ThreadsOn, Quiet
<1>12. CASE UNCHANGED gatewayVars BY <1>8, <1>9, <1>10, <1>12 DEF gatewayVars
<1>13. ASSUME NEW r \in Requests, Submit(r) PROVE JobsOn /\ ThreadsOn /\ Quiet
  <2>1. JobsOn BY <1>2, <1>13 DEF Submit, JobsOn, JobRecord
  <2> QED BY <1>9, <1>10, <1>13, <2>1 DEF Submit
<1>14. ASSUME NEW r \in Requests, NEW s \in Servers, Start(r, s) PROVE JobsOn /\ ThreadsOn /\ Quiet
  <2> DEFINE n == job[r].attempts + 1
             t == [of |-> r, nr |-> n]
             a == [attempt[t] EXCEPT !.server = s, !.pc = IF Prompt(r).kind = "ask" THEN "scan" ELSE "route"]
  <2>1. job[r] \in JobRecord /\ job[r].attempts \in 0 .. 2 BY <1>2 DEF JobRecord
  <2>2. job[r].attempts <= 1 BY <1>14 DEF Start, JobsOK
  <2>3. n \in 1 .. 2 /\ n > job[r].attempts BY <2>1, <2>2
  <2>4. /\ attempt' = [attempt EXCEPT ![t].server = s,
             ![t].pc = IF Prompt(r).kind = "ask" THEN "scan" ELSE "route"]
        /\ job' = [job EXCEPT ![r] = [status |-> "running", attempts |-> n]]
        /\ UNCHANGED <<counted, trail>>
    BY <1>14, Zenon DEF Start
  <2> HIDE DEF n
  <2>5. t \in Threads /\ t.of = r /\ t.nr = n BY <2>3, ThreadTypes
  <2>6. attempt' = [attempt EXCEPT ![t] = a] BY <2>4, Zenon
  <2> HIDE DEF t, a
  <2>7. attempt[t].pc = "idle" BY <2>3, <2>5 DEF JobsOK
  <2>8. ThreadsOn BY <1>2, <2>6, <2>7 DEF ThreadsOn
  <2>9. JobsOn BY <1>2, <2>4 DEF JobsOn
  <2> QED BY <1>10, <2>4, <2>8, <2>9
<1>15. ASSUME NEW t \in Threads, TimeUp(t) PROVE JobsOn /\ ThreadsOn /\ Quiet
  <2>1. UNCHANGED <<attempt, counted, trail>> BY <1>15 DEF TimeUp
  <2> QED BY <1>2, <1>4, <1>9, <1>10, <1>15, <2>1, FailMoves
<1>16. ASSUME NEW t \in Threads, Scan(t) PROVE JobsOn /\ ThreadsOn
  <2>1. attempt[t].pc = "scan" /\ (job' = job \/ Fail(t)) BY <1>16 DEF Scan
  <2>2. JobsOn BY <1>2, <1>4, <1>8, <2>1, FailMoves
  <2>3. \A u \in Threads \ {t} : attempt'[u] = attempt[u] BY <1>2, <1>16 DEF Scan, Goto
  <2> QED BY <2>1, <2>2, <2>3 DEF ThreadsOn
<1>17. ASSUME NEW t \in Threads, LookUpRules(t) PROVE JobsOn /\ ThreadsOn /\ Quiet
  BY <1>8, <1>9, <1>10, <1>17 DEF LookUpRules
<1>18. ASSUME NEW t \in Threads, Decide(t) PROVE JobsOn /\ ThreadsOn /\ Quiet
  <2>1. /\ job' = job \/ Fail(t)
        /\ \E pc \in {"over", "route"} : Goto(t, pc)
        /\ counted' = counted
        /\ UNCHANGED trail \/ \E model : Log(t, {"PROMPT_BLOCKED"}, model)
    BY <1>18, Zenon DEF Decide
  <2>2. JobsOn BY <1>2, <1>4, <1>8, <2>1, FailMoves
  <2>3. "USER_QUARANTINE_REVIEW_REQUIRED" \notin {"PROMPT_BLOCKED"} OBVIOUS
  <2> QED BY <1>5, <1>7, <1>10, <2>1, <2>2, <2>3
<1>19. ASSUME NEW t \in Threads, Route(t) PROVE JobsOn /\ ThreadsOn /\ Quiet
  <2>1. Goto(t, "fallback") \/ Answered(t, Target(Prompt(t.of))) BY <1>19 DEF Route
  <2>2. UNCHANGED <<job, counted, trail>> BY <1>19 DEF Route
  <2> QED BY <1>5, <1>6, <1>8, <1>10, <2>1, <2>2
<1>20. ASSUME NEW t \in Threads, Fallback(t) PROVE JobsOn /\ ThreadsOn /\ Quiet
  <2>1. Answered(t, LocalModel) \/ Answered(t, "none") BY <1>20 DEF Fallback
  <2>2. UNCHANGED <<job, counted, trail>> BY <1>20 DEF Fallback
  <2> QED BY <1>6, <1>8, <1>10, <2>1, <2>2
<1>21. ASSUME NEW t \in Threads, NEW kind, NEW action \in {"AI_QUERY", "AI_CHAT_INTERACTION"},
              Record(t, kind, action)
       PROVE  JobsOn /\ ThreadsOn /\ Quiet
  <2>1. /\ Succeed(t) /\ Goto(t, "over") /\ counted' = counted /\ Log(t, {action}, attempt[t].model)
    BY <1>21 DEF Record
  <2>2. JobsOn BY <1>2, <1>4, <2>1, FailMoves
  <2>3. ThreadsOn BY <1>5, <2>1
  <2>4. "USER_QUARANTINE_REVIEW_REQUIRED" \notin {action} OBVIOUS
  <2> QED BY <1>7, <2>1, <2>2, <2>3, <2>4
<1>22. ASSUME NEW t \in Threads, NextCase(t) PROVE JobsOn /\ ThreadsOn /\ Quiet
  <2>1. /\ job' = job \/ Succeed(t)
        /\ \/ attempt' = [attempt EXCEPT ![t].pc = "route", ![t].case = @ + 1]
           \/ Goto(t, "over")
        /\ UNCHANGED <<counted, trail>>
    BY <1>22, Zenon DEF NextCase
  <2>2. JobsOn BY <1>2, <1>4, <1>8, <2>1, FailMoves
  <2>3. ThreadsOn
    <3>1. CASE attempt' = [attempt EXCEPT ![t].pc = "route", ![t].case = @ + 1]
      <4> DEFINE a == [attempt[t] EXCEPT !.pc = "route", !.case = @ + 1]
      <4>1. a.pc = "route" /\ a.server = attempt[t].server BY <1>3 DEF AttemptRecord
      <4>2. attempt' = [attempt EXCEPT ![t] = a] BY <3>1, Zenon
      <4> HIDE DEF a
      <4> QED BY <1>2, <4>1, <4>2 DEF ThreadsOn
    <3> QED BY <1>5, <2>1, <3>1
  <2> QED BY <1>10, <2>1, <2>2, <2>3
<1>23. ASSUME NEW t \in Threads, SeeCancel(t) PROVE JobsOn /\ ThreadsOn /\ Quiet
  <2>1. Goto(t, "over") /\ UNCHANGED <<counted, trail>> BY <1>23 DEF SeeCancel
  <2> QED BY <1>2, <1>4, <1>5, <1>10, <1>23, <2>1, FailMoves
<1>24. ASSUME NEW s \in Servers, ReloadPolicies(s) PROVE JobsOn /\ ThreadsOn /\ Quiet
  BY <1>8, <1>9, <1>10, <1>24 DEF ReloadPolicies
<1>25. ASSUME NEW l \in Loaders, Reload(l) PROVE JobsOn /\ ThreadsOn /\ Quiet
  BY <1>8, <1>9, <1>10, <1>25 DEF Reload
<1>26. CASE EditPolicies BY <1>8, <1>9, <1>10, <1>26 DEF EditPolicies
<1> QED BY <1>12, <1>13, <1>14, <1>15, <1>16, <1>17, <1>18, <1>19, <1>20, <1>21, <1>22, <1>23,
           <1>24, <1>25, <1>26, Zenon DEF GatewayNext, RecordQuery, RecordChat

(* Every step keeps the counts, and asks for a review only if it was earned: *)
(* the counter is then beyond three, and so are the attempts it counted.     *)
LEMMA CountsStep ==
  ASSUME GatewayTypeOK, JobsOK, CountsOK, ReviewsEarned, [GatewayNext]_gatewayVars
  PROVE  CountsOK' /\ ReviewsEarned'
<1>1. \A r : Prompt(r)' = Prompt(r) BY PromptsStay DEF Prompt
<1>2. JobsOK' /\ GatewayTypeOK' BY JobsStep
<1>3. /\ attempt \in [Threads -> AttemptRecord]
      /\ counted \in [Servers -> [Actors -> Nat]] /\ counted' \in [Servers -> [Actors -> Nat]]
      /\ trail \subseteq TrailRecord
  BY <1>2, TypesParts DEF GatewayTypeOK
<1>4. ASSUME NEW s, NEW a
      PROVE  /\ Scanned(s, a) \subseteq Scanned(s, a)'
             /\ Cardinality(Scanned(s, a)) <= Cardinality(Scanned(s, a)')
  <2>1. Scanned(s, a) \subseteq Scanned(s, a)' BY <1>1, MovesOn DEF Scanned
  <2> QED BY <2>1, ScannedFinite, FS_Subset
<1>5. ASSUME NEW a PROVE Cardinality(Own(a)) \in Nat /\ Cardinality(Own(a)') \in Nat
                         /\ Cardinality(Own(a)) <= Cardinality(Own(a)')
  <2>1. Own(a) \subseteq Own(a)' BY <1>1, MovesOn DEF Own
  <2>2. Own(a)' \in SUBSET Requests /\ Own(a) \in SUBSET Requests BY DEF Own
  <2> QED BY <2>1, <2>2, ThreadsAssumption, FS_Subset, FS_CardinalityType

<1>6. ASSUME NEW r \in trail, NEW a, r.action = "USER_QUARANTINE_REVIEW_REQUIRED",
             a = Prompt(r.by.of).actor
      PROVE  Cardinality(Own(a)') >= 2
  <2>1. Cardinality(Own(a)) >= 2 BY <1>6 DEF ReviewsEarned, Own
  <2> QED BY <1>5, <2>1
<1>7. SUFFICES /\ CountsOK'
               /\ \A r \in trail' : \A a : r.action = "USER_QUARANTINE_REVIEW_REQUIRED"
                    /\ a = Prompt(r.by.of).actor => Cardinality(Own(a)') >= 2
  <2>1. ASSUME \A r \in trail' : \A a : r.action = "USER_QUARANTINE_REVIEW_REQUIRED"
                    /\ a = Prompt(r.by.of).actor => Cardinality(Own(a)') >= 2,
               NEW r \in trail', r.action = "USER_QUARANTINE_REVIEW_REQUIRED"
        PROVE  Cardinality({q \in Requests : /\ job'[q].status # "new"
                                             /\ Prompt(q)'.actor = Prompt(r.by.of)'.actor
                                             /\ IsPII(Prompt(q)')}) >= 2
    <3>1. PICK a : a = Prompt(r.by.of).actor OBVIOUS
    <3>2. Own(a)' = {q \in Requests : /\ job'[q].status # "new"
                                      /\ Prompt(q)'.actor = Prompt(r.by.of)'.actor
                                      /\ IsPII(Prompt(q)')}
      BY <1>1, <3>1 DEF Own
    <3>3. Cardinality(Own(a)') >= 2 BY <2>1, <3>1
    <3> QED BY <3>2, <3>3
  <2> QED BY <2>1 DEF ReviewsEarned
<1>8. CASE /\ counted' = counted
           /\ \A r \in trail' : r.action = "USER_QUARANTINE_REVIEW_REQUIRED" => r \in trail
  <2>1. ASSUME NEW s \in Servers, NEW a \in Actors
        PROVE  counted'[s][a] <= Cardinality(Scanned(s, a)')
    <3>1. counted[s][a] <= Cardinality(Scanned(s, a)) /\ counted[s][a] \in Nat BY <1>3 DEF CountsOK
    <3> QED BY <1>4, <1>8, <3>1, ScannedFinite
  <2> QED BY <1>6, <1>8, <2>1 DEF CountsOK
<1>9. ASSUME NEW t \in Threads, Scan(t)
      PROVE  /\ CountsOK'
             /\ \A r \in trail' : \A a : r.action = "USER_QUARANTINE_REVIEW_REQUIRED"
                  /\ a = Prompt(r.by.of).actor => Cardinality(Own(a)') >= 2
  <2>0. /\ t.of \in Requests /\ Prompt(t.of).actor \in Actors /\ Prompt(t.of) \in Prompts
        /\ attempt[t].server \in Servers
    BY <1>3, ThreadTypes, PromptTypes DEF AttemptRecord
  <2>1. PICK home \in Servers, who \in Actors, p \in Prompts :
          home = attempt[t].server /\ p = Prompt(t.of) /\ who = p.actor
    BY <2>0
  <2>2. attempt[t].pc = "scan" /\ counted' = Count(p, home) BY <1>9, <2>1 DEF Scan
  <2>3. p.kind = "ask" BY <2>1, <2>2 DEF JobsOK
  <2>4. trail' \subseteq trail \cup {[by |-> t, action |-> a, model |-> "none"] :
          a \in (IF counted'[home][who] > 3 THEN {"USER_QUARANTINE_REVIEW_REQUIRED"} ELSE {})
                  \cup {"PROMPT_INJECTION_BLOCKED"}}
    BY <1>9, <2>1 DEF Scan, Log
  <2>5. attempt'[t].pc \in {"over", "policy"} /\ attempt'[t].server = home
    <3>1. CASE Goto(t, "over") BY <1>3, <2>1, <3>1 DEF Goto, AttemptRecord
    <3>2. CASE attempt' = [attempt EXCEPT ![t].pc = "policy", ![t].since = known[home]]
      <4> DEFINE a == [attempt[t] EXCEPT !.pc = "policy", !.since = known[home]]
      <4>1. a.pc = "policy" /\ a.server = home BY <1>3, <2>1 DEF AttemptRecord
      <4>2. attempt' = [attempt EXCEPT ![t] = a] BY <3>2, Zenon
      <4> HIDE DEF a
      <4> QED BY <1>3, <4>1, <4>2
    <3> QED BY <1>9, <2>1, <3>1, <3>2, Zenon DEF Scan
  <2>6. ASSUME IsPII(p) PROVE t \in Scanned(home, who)' /\ t \notin Scanned(home, who)
    BY <1>1, <2>1, <2>2, <2>3, <2>5, <2>6 DEF Scanned
  <2>7. CountsOK'
    <3> SUFFICES ASSUME NEW s \in Servers, NEW a \in Actors
                 PROVE  counted'[s][a] <= Cardinality(Scanned(s, a)')
      BY DEF CountsOK
    <3>1. counted[s][a] <= Cardinality(Scanned(s, a)) /\ counted[s][a] \in Nat BY <1>3 DEF CountsOK
    <3>2. CASE IsPII(p) /\ s = home /\ a = who
      <4>1. counted'[s][a] = counted[s][a] + 1 BY <1>3, <2>1, <2>2, <3>2 DEF Count
      <4>2. Scanned(s, a) \cup {t} \subseteq Scanned(s, a)' BY <1>4, <2>6, <3>2
      <4>3. Cardinality(Scanned(s, a) \cup {t}) = Cardinality(Scanned(s, a)) + 1
        BY <2>6, <3>2, ScannedFinite, FS_AddElement
      <4>4. Cardinality(Scanned(s, a) \cup {t}) <= Cardinality(Scanned(s, a)')
        BY <4>2, ScannedFinite, FS_Subset
      <4> QED BY <3>1, <4>1, <4>3, <4>4, ScannedFinite
    <3>3. CASE ~(IsPII(p) /\ s = home /\ a = who)
      <4>1. counted'[s][a] = counted[s][a] BY <1>3, <2>1, <2>2, <3>3 DEF Count
      <4> QED BY <1>4, <3>1, <4>1, ScannedFinite
    <3> QED BY <3>2, <3>3
  <2>8. ASSUME counted'[home][who] > 3 PROVE Cardinality(Own(who)') >= 2
    <3>1. counted'[home][who] <= Cardinality(Scanned(home, who)') /\ counted'[home][who] \in Nat
      BY <1>3, <2>7 DEF CountsOK
    <3>2. Scanned(home, who)' \in SUBSET Threads /\ Own(who)' \in SUBSET Requests
      BY DEF Scanned, Own
    <3>3. \A u \in Scanned(home, who)' : u.of \in Own(who)'
      BY <1>2, ThreadTypes DEF Scanned, Own, JobsOK
    <3>4. Cardinality(Scanned(home, who)') > 3 BY <2>8, <3>1, ScannedFinite
    <3> QED BY <3>2, <3>3, <3>4, TwoRequests
  <2>9. ASSUME NEW r \in trail', NEW a, r.action = "USER_QUARANTINE_REVIEW_REQUIRED",
               a = Prompt(r.by.of).actor
        PROVE  Cardinality(Own(a)') >= 2
    <3>1. CASE r \in trail BY <1>6, <2>9, <3>1
    <3>2. CASE r \notin trail
      <4>1. r.by = t /\ counted'[home][who] > 3 BY <2>4, <2>9, <3>2
      <4>2. a = who BY <2>1, <2>9, <4>1
      <4> QED BY <2>8, <4>1, <4>2
    <3> QED BY <3>1, <3>2
  <2> QED BY <2>7, <2>9
<1> QED BY <1>8, <1>9, MovesOn

-----------------------------------------------------------------------------
(* A process holds a rule in the table it belongs to. *)
Holds(s, rule) == rule \in memory[s][rule.table]

(* The threads that reload the tables of a process. *)
Reloading(s) == {l \in Loaders : loading[l].stage # "off" /\ loading[l].server = s}

(* Such a thread has a file still to read. *)
Owes(l, f) == loading[l].stage = "begun" \/ f \in loading[l].files

(* Of file f a process holds the rules of edition e, but those that are in   *)
(* data; an edition no older than the last whole reload, or than the reloads *)
(* that go on.                                                               *)
FileHeld(s, f, e, data) ==
  /\ e >= known[s] /\ e <= edition
  /\ \A l \in Reloading(s) : e >= loading[l].began
  /\ \A rule \in Loadable(Editions[e][f]) : Holds(s, rule) \/ rule \in Loadable(data)

(* A file is provided for: a reload has still to read it, or has read an     *)
(* edition of it and holds what is missing in memory, or nothing of an       *)
(* edition is missing.                                                       *)
Provided(s, f) ==
  \/ \E l \in Reloading(s) : Owes(l, f)
  \/ \E l \in Reloading(s), e \in DOMAIN Editions : FileHeld(s, f, e, loading[l].data)
  \/ \E e \in DOMAIN Editions : FileHeld(s, f, e, << >>)

(* Every process provides for every file, although a reload empties a table  *)
(* before it fills it and reloads overlap.                                   *)
TablesOK == \A s \in Servers, f \in Files : Provided(s, f)

(* The reloads know editions that there are, a reload that has just begun    *)
(* has all files before it, and the rules are in the tables they belong to.  *)
LoadersOK ==
  /\ \A l \in Loaders : loading[l].stage # "off" => loading[l].began <= edition
  /\ \A l \in Loaders : loading[l].stage = "begun" => loading[l].files = Files /\ loading[l].data = << >>
  /\ \A s \in Servers : known[s] <= edition
  /\ \A s \in Servers : \A rule \in memory[s].global : rule.table = "global"
  /\ \A s \in Servers : \A rule \in memory[s].department : rule.table = "department"

(* What the types say of editions, reloads and rules. *)
LEMMA HeldRules ==
  ASSUME PolicyTypes
  PROVE  /\ edition \in Nat /\ \A s \in Servers : known[s] \in Nat
         /\ \A l \in Loaders : loading[l] \in LoadingRecord /\ loading[l].began \in Nat
         /\ \A e \in DOMAIN Editions : e \in Nat
         /\ \A e \in DOMAIN Editions, f \in Files : \A rule \in Loadable(Editions[e][f]) :
              rule \in RuleSet /\ rule.table \in {"global", "department"}
  BY EditionTypes, RuleSetTypes DEF PolicyTypes, LoadingRecord, RuleType

(* A step that takes no rule away and leaves the reloads of a process alone  *)
(* leaves its files provided for.                                            *)
LEMMA ProvidedKept ==
  ASSUME PolicyTypes, NEW s \in Servers, NEW f \in Files, Provided(s, f), known'[s] = known[s],
         edition' \in Nat, edition' >= edition,
         \A rule \in RuleSet : Holds(s, rule) => Holds(s, rule)',
         Reloading(s)' = Reloading(s), \A l \in Reloading(s) : loading'[l] = loading[l]
  PROVE  Provided(s, f)'
<1>1. ASSUME NEW e \in DOMAIN Editions, NEW data, FileHeld(s, f, e, data)
      PROVE  FileHeld(s, f, e, data)'
  BY <1>1, HeldRules DEF FileHeld
<1>2. ASSUME NEW l \in Reloading(s), Owes(l, f) PROVE Provided(s, f)'
  <2>1. l \in Reloading(s)' /\ Owes(l, f)' BY <1>2 DEF Owes
  <2> QED BY <2>1 DEF Provided
<1>3. ASSUME NEW l \in Reloading(s), NEW e \in DOMAIN Editions, FileHeld(s, f, e, loading[l].data)
      PROVE  Provided(s, f)'
  <2>1. PICK data : data = loading[l].data OBVIOUS
  <2>2. FileHeld(s, f, e, data)' BY <1>1, <1>3, <2>1
  <2>3. l \in Reloading(s)' /\ data = loading'[l].data BY <2>1
  <2>4. FileHeld(s, f, e, loading[l].data)' BY <2>2, <2>3
  <2> QED BY <2>3, <2>4 DEF Provided
<1>4. ASSUME NEW e \in DOMAIN Editions, FileHeld(s, f, e, << >>) PROVE Provided(s, f)'
  <2>1. FileHeld(s, f, e, << >>)' BY <1>1, <1>4
  <2> QED BY <2>1 DEF Provided
<1> QED BY <1>2, <1>3, <1>4 DEF Provided

(* A reload that empties the department table owes all files, so every file  *)
(* stays provided for.                                                       *)
LEMMA EmptyStep ==
  ASSUME PolicyTypes, TablesOK, LoadersOK, NEW l \in Loaders, NEW s \in Servers, NEW at,
         EmptyDepartments(l, s, at), UNCHANGED <<edition, known>>
  PROVE  /\ TablesOK' /\ LoadersOK'
         /\ l \in Reloading(s)' /\ memory'[s].global = memory[s].global
         /\ \A r \in Servers \ {s} : memory'[r] = memory[r] /\ Reloading(r)' = Reloading(r)
<1> DEFINE new == [stage |-> "begun", server |-> s, files |-> Files, data |-> << >>, began |-> edition]
<1>1. /\ loading[l].stage = "off" /\ loading' = [loading EXCEPT ![l] = new]
      /\ memory' = [memory EXCEPT ![s].department = {}]
  BY DEF EmptyDepartments
<1>2. /\ new.stage = "begun" /\ new.server = s /\ new.files = Files /\ new.data = << >>
      /\ new.began = edition
  OBVIOUS
<1> HIDE DEF new
<1>3. /\ loading \in [Loaders -> LoadingRecord] /\ memory \in [Servers -> MemoryRecord]
      /\ edition \in Nat
  BY HeldRules DEF PolicyTypes
<1>4. loading'[l] = new /\ \A k \in Loaders \ {l} : loading'[k] = loading[k] BY <1>1, <1>3
<1>5. /\ memory'[s].department = {} /\ memory'[s].global = memory[s].global
      /\ \A r \in Servers \ {s} : memory'[r] = memory[r]
  BY <1>1, <1>3 DEF MemoryRecord
<1>6. l \in Reloading(s)' BY <1>2, <1>4 DEF Reloading
<1>7. ASSUME NEW r \in Servers \ {s}
      PROVE  Reloading(r)' = Reloading(r) /\ \A k \in Reloading(r) : loading'[k] = loading[k]
  BY <1>1, <1>2, <1>4 DEF Reloading
<1>8. LoadersOK' BY <1>2, <1>3, <1>4, <1>5 DEF LoadersOK
<1>9. ASSUME NEW r \in Servers, NEW f \in Files PROVE Provided(r, f)'
  <2>1. CASE r = s
    <3>1. Owes(l, f)' BY <1>2, <1>4 DEF Owes
    <3> QED BY <1>6, <2>1, <3>1 DEF Provided
  <2>2. CASE r # s
    <3>1. \A rule \in RuleSet : Holds(r, rule) => Holds(r, rule)' BY <1>5, <2>2 DEF Holds
    <3>2. Provided(r, f) BY DEF TablesOK
    <3>3. known'[r] = known[r] /\ edition' \in Nat /\ edition' >= edition BY <1>3
    <3>4. Reloading(r)' = Reloading(r) /\ \A k \in Reloading(r) : loading'[k] = loading[k]
      BY <1>7, <2>2
    <3> QED BY <3>1, <3>2, <3>3, <3>4, ProvidedKept
  <2> QED BY <2>1, <2>2
<1> QED BY <1>5, <1>6, <1>7, <1>8, <1>9 DEF TablesOK

(* A step of a reload keeps every file provided for: when it reads a file it *)
(* holds the rules it has not put in a table yet; when it ends, what it      *)
(* leaves is as new as its beginning.                                        *)
LEMMA ReloadMoves ==
  ASSUME PolicyTypes, TablesOK, LoadersOK, NEW l \in Loaders, ReloadStep(l), edition' = edition
  PROVE  /\ TablesOK' /\ LoadersOK'
         /\ \A r \in Servers : Reloading(r)' \subseteq Reloading(r) /\ known'[r] >= known[r]
         /\ \A r \in Servers : l \notin Reloading(r) => memory'[r] = memory[r]
         /\ \E r \in Servers : l \in Reloading(r)
         /\ calm' = calm
<1> DEFINE s == loading[l].server
<1>1. /\ loading \in [Loaders -> LoadingRecord] /\ memory \in [Servers -> MemoryRecord]
      /\ known \in [Servers -> DOMAIN Editions] /\ edition \in DOMAIN Editions
      /\ edition \in Nat /\ \A r \in Servers : known[r] \in Nat
      /\ \A k \in Loaders : loading[k].began \in Nat
      /\ \A e \in DOMAIN Editions : e \in Nat
      /\ PolicyTypes
  BY HeldRules DEF PolicyTypes
<1>2. PICK home \in Servers : home = loading[l].server BY <1>1 DEF LoadingRecord
<1>3. /\ loading[l].stage # "off" /\ calm' = calm
      /\ \A k \in Loaders \ {l} : loading'[k] = loading[k]
      /\ \A r \in Servers \ {home} : memory'[r] = memory[r] /\ known'[r] = known[r]
  BY <1>1, <1>2 DEF ReloadStep, EmptyGlobals, ReadFile, AddRule, EndReload
<1>4. l \in Reloading(home) /\ \A r \in Servers : l \in Reloading(r) => r = home
  BY <1>2, <1>3 DEF Reloading
<1>5. loading' \in [Loaders -> LoadingRecord] /\ memory' \in [Servers -> MemoryRecord]
      /\ known' \in [Servers -> DOMAIN Editions]
  BY <1>1, ReloadTypes
<1>6. loading'[l].server = home \/ loading'[l].stage = "off"
  <2>1. CASE EmptyGlobals(l) BY <1>1, <1>2, <2>1 DEF EmptyGlobals, LoadingRecord
  <2>2. CASE ReadFile(l)
    <3>1. PICK f, data : loading' = [loading EXCEPT ![l].files = f, ![l].data = data]
      BY <2>2 DEF ReadFile
    <3> DEFINE a == [loading[l] EXCEPT !.files = f, !.data = data]
    <3>2. loading' = [loading EXCEPT ![l] = a] BY <3>1, Zenon
    <3>3. a.server = home BY <1>1, <1>2 DEF LoadingRecord
    <3> HIDE DEF a
    <3> QED BY <1>1, <3>2, <3>3
  <2>3. CASE AddRule(l)
    <3>1. PICK data : loading' = [loading EXCEPT ![l].data = data] BY <2>3 DEF AddRule
    <3> QED BY <1>1, <1>2, <3>1 DEF LoadingRecord
  <2>4. CASE EndReload(l) BY <1>1, <2>4 DEF EndReload, NotLoading
  <2> QED BY <2>1, <2>2, <2>3, <2>4 DEF ReloadStep
<1>7. \A r \in Servers : Reloading(r)' \subseteq Reloading(r) BY <1>3, <1>4, <1>6 DEF Reloading
<1>8. ASSUME NEW r \in Servers \ {home}, NEW f \in Files PROVE Provided(r, f)'
  <2>1. Reloading(r)' = Reloading(r) /\ \A k \in Reloading(r) : loading'[k] = loading[k]
    BY <1>3, <1>4, <1>6, <1>7 DEF Reloading
  <2>2. \A rule \in RuleSet : Holds(r, rule) => Holds(r, rule)' BY <1>3 DEF Holds
  <2>3. Provided(r, f) /\ known'[r] = known[r] /\ edition' \in Nat /\ edition' >= edition
    BY <1>1, <1>3 DEF TablesOK
  <2> QED BY <1>1, <2>1, <2>2, <2>3, ProvidedKept
<1>9. ASSUME \A f \in Files : Provided(home, f)' PROVE TablesOK'
  <2>1. ASSUME NEW r \in Servers, NEW f \in Files PROVE Provided(r, f)'
    <3>1. CASE r = home BY <1>9, <3>1
    <3>2. CASE r # home BY <1>8, <3>2
    <3> QED BY <3>1, <3>2
  <2> QED BY <2>1 DEF TablesOK
<1>10. ASSUME NEW f \in Files PROVE Provided(home, f) BY DEF TablesOK
<1>11. CASE EmptyGlobals(l)
  <2>1. /\ loading[l].stage = "begun" /\ loading' = [loading EXCEPT ![l].stage = "files"]
        /\ memory' = [memory EXCEPT ![home].global = {}] /\ known' = known
    BY <1>2, <1>11 DEF EmptyGlobals
  <2>2. loading'[l].stage = "files" /\ loading'[l].files = Files /\ loading'[l].server = home
        /\ loading'[l].began = loading[l].began
    BY <1>1, <1>2, <2>1 DEF LoadingRecord, LoadersOK
  <2>3. memory'[home].global = {} /\ memory'[home].department = memory[home].department
    BY <1>1, <2>1 DEF MemoryRecord
  <2>4. LoadersOK' BY <1>1, <1>3, <2>1, <2>2, <2>3 DEF LoadersOK
  <2>5. \A f \in Files : Provided(home, f)' BY <2>2 DEF Provided, Reloading, Owes
  <2> QED BY <1>1, <1>3, <1>4, <1>7, <1>9, <2>1, <2>4, <2>5
<1>12. CASE ReadFile(l)
  <2>0. PICK f0 \in Files : /\ f0 \in loading[l].files
          /\ loading' = [loading EXCEPT ![l].files = @ \ {f0}, ![l].data = Editions[edition][f0]]
    BY <1>1, <1>12 DEF ReadFile, LoadingRecord
  <2>1. /\ loading[l].stage = "files" /\ loading[l].data = << >> /\ memory' = memory /\ known' = known
    BY <1>12 DEF ReadFile
  <2> DEFINE a == [loading[l] EXCEPT !.files = @ \ {f0}, !.data = Editions[edition][f0]]
  <2>2. loading' = [loading EXCEPT ![l] = a] BY <2>0, Zenon
  <2>3. /\ a.stage = "files" /\ a.files = loading[l].files \ {f0} /\ a.server = home
        /\ a.began = loading[l].began /\ a.data = Editions[edition][f0]
    BY <1>1, <1>2, <2>1 DEF LoadingRecord
  <2> HIDE DEF a
  <2>4. /\ loading'[l].stage = "files" /\ loading'[l].files = loading[l].files \ {f0}
        /\ loading'[l].server = home
        /\ loading'[l].began = loading[l].began /\ loading'[l].data = Editions[edition][f0]
    BY <1>1, <2>2, <2>3
  <2>5. LoadersOK' BY <1>1, <1>3, <2>1, <2>4 DEF LoadersOK
  <2>6. Reloading(home)' = Reloading(home) BY <1>2, <1>3, <2>1, <2>4 DEF Reloading
  <2>7. \A k \in Reloading(home) : loading'[k].began = loading[k].began BY <1>3, <2>4 DEF Reloading
  <2>8. ASSUME NEW f \in Files, NEW e \in DOMAIN Editions, NEW data, FileHeld(home, f, e, data)
        PROVE  FileHeld(home, f, e, data)'
    BY <1>1, <2>1, <2>6, <2>7, <2>8 DEF FileHeld, Holds
  <2>9. ASSUME NEW f \in Files PROVE Provided(home, f)'
    <3>1. CASE f = f0
      <4>1. \A k \in Reloading(home) : loading[k].began <= edition BY DEF Reloading, LoadersOK
      <4>2. FileHeld(home, f0, edition, loading[l].data)'
        <5>1. PICK e \in DOMAIN Editions : e = edition BY <1>1
        <5>2. FileHeld(home, f0, e, loading[l].data)'
          BY <1>1, <2>1, <2>4, <2>6, <2>7, <4>1, <5>1 DEF FileHeld, LoadersOK
        <5> QED BY <5>1, <5>2
      <4> QED BY <1>1, <1>4, <2>6, <3>1, <4>2 DEF Provided
    <3>2. CASE f # f0
      <4>1. CASE \E k \in Reloading(home) : Owes(k, f)
        <5>1. PICK k \in Reloading(home) : Owes(k, f) BY <4>1
        <5>2. Owes(k, f)' BY <1>3, <2>1, <2>4, <3>2, <5>1 DEF Owes, Reloading
        <5> QED BY <2>6, <5>1, <5>2 DEF Provided
      <4>2. ASSUME NEW k \in Reloading(home), NEW e \in DOMAIN Editions,
                   FileHeld(home, f, e, loading[k].data)
            PROVE  Provided(home, f)'
        <5>1. CASE k = l
          <6>1. FileHeld(home, f, e, << >>)' BY <2>1, <2>8, <4>2, <5>1
          <6> QED BY <6>1 DEF Provided
        <5>2. CASE k # l
          <6>1. PICK data : data = loading[k].data OBVIOUS
          <6>2. FileHeld(home, f, e, data)' BY <2>8, <4>2, <6>1
          <6>3. loading'[k].data = data BY <1>3, <5>2, <6>1 DEF Reloading
          <6>4. FileHeld(home, f, e, loading[k].data)' BY <6>2, <6>3
          <6> QED BY <2>6, <6>4 DEF Provided
        <5> QED BY <5>1, <5>2
      <4>3. ASSUME NEW e \in DOMAIN Editions, FileHeld(home, f, e, << >>) PROVE Provided(home, f)'
        <5>1. FileHeld(home, f, e, << >>)' BY <2>8, <4>3
        <5> QED BY <5>1 DEF Provided
      <4> QED BY <1>10, <4>1, <4>2, <4>3 DEF Provided
    <3> QED BY <3>1, <3>2
  <2> QED BY <1>1, <1>3, <1>4, <1>7, <1>9, <2>1, <2>5, <2>9
<1>13. CASE AddRule(l)
  <2>1. /\ loading[l].stage = "files" /\ loading[l].data # << >> /\ known' = known
        /\ loading[l].data \in Seq(RuleSet)
    BY <1>1, <1>13 DEF AddRule, LoadingRecord
  <2>2. PICK rule \in RuleSet, list \in Seq(RuleSet) : list = loading[l].data /\ list # << >> /\ rule = Head(list)
    BY <2>1
  <2>3. rule.table \in {"global", "department"} BY RuleSetTypes DEF RuleType
  <2>4. PICK rest : rest = IF Parses(rule) THEN Tail(list) ELSE << >> OBVIOUS
  <2>5. loading' = [loading EXCEPT ![l].data = rest] BY <1>13, <2>2, <2>4 DEF AddRule
  <2>6. /\ loading'[l].stage = "files" /\ loading'[l].files = loading[l].files
        /\ loading'[l].server = home
        /\ loading'[l].began = loading[l].began /\ loading'[l].data = rest
    BY <1>1, <1>2, <2>1, <2>5 DEF LoadingRecord
  <2>7. /\ memory'[home].global = memory[home].global \cup
             (IF Parses(rule) /\ rule.table = "global" THEN {rule} ELSE {})
        /\ memory'[home].department = memory[home].department \cup
             (IF Parses(rule) /\ rule.table = "department" THEN {rule} ELSE {})
    <3>1. CASE Parses(rule)
      <4>1. memory' = [memory EXCEPT ![home][rule.table] = @ \cup {rule}]
        BY <1>2, <1>13, <2>2, <3>1 DEF AddRule
      <4>2. CASE rule.table = "global" BY <1>1, <3>1, <4>1, <4>2 DEF MemoryRecord
      <4>3. CASE rule.table = "department" BY <1>1, <3>1, <4>1, <4>3 DEF MemoryRecord
      <4> QED BY <2>3, <4>2, <4>3
    <3>2. CASE ~Parses(rule) BY <1>13, <2>2, <3>2 DEF AddRule
    <3> QED BY <3>1, <3>2
  <2>8. LoadersOK'
    <3>1. \A k \in Loaders : loading'[k].stage # "off" => loading'[k].began <= edition'
      BY <1>3, <2>1, <2>6 DEF LoadersOK
    <3>2. \A k \in Loaders :
            loading'[k].stage = "begun" => loading'[k].files = Files /\ loading'[k].data = << >>
      BY <1>3, <2>6 DEF LoadersOK
    <3>3. \A r \in Servers : known'[r] <= edition' BY <2>1 DEF LoadersOK
    <3>4. ASSUME NEW r \in Servers
          PROVE  /\ \A q \in memory'[r].global : q.table = "global"
                 /\ \A q \in memory'[r].department : q.table = "department"
      <4>1. CASE r = home BY <2>7, <4>1 DEF LoadersOK
      <4>2. CASE r # home BY <1>3, <4>2 DEF LoadersOK
      <4> QED BY <4>1, <4>2
    <3> QED BY <3>1, <3>2, <3>3, <3>4 DEF LoadersOK
  <2>9. Reloading(home)' = Reloading(home) BY <1>2, <1>3, <2>1, <2>6 DEF Reloading
  <2>10. \A k \in Reloading(home) : loading'[k].began = loading[k].began BY <1>3, <2>6 DEF Reloading
  <2>11. \A r \in RuleSet : Holds(home, r) => Holds(home, r)'
    BY <2>7, RuleSetTypes DEF Holds, RuleType
  <2>12. Parses(rule) => Holds(home, rule)' BY <2>3, <2>7 DEF Holds
  <2>13. Loadable(list) = IF Parses(rule) THEN {rule} \cup Loadable(rest) ELSE {}
    <3>1. RuleSet \in SUBSET RuleType BY RuleSetTypes
    <3> QED BY <2>2, <2>4, <3>1, LoadableParts
  <2>14. ASSUME NEW f \in Files, NEW e \in DOMAIN Editions, NEW data, NEW left,
                FileHeld(home, f, e, data),
                left = data \/ (data = list /\ left = rest)
         PROVE  FileHeld(home, f, e, left)'
    <3>1. ASSUME NEW r \in Loadable(Editions[e][f]) PROVE Holds(home, r)' \/ r \in Loadable(left)
      <4>1. r \in RuleSet BY <1>1, HeldRules
      <4>2. Holds(home, r) \/ r \in Loadable(data) BY <2>14 DEF FileHeld
      <4>3. CASE left = data BY <2>11, <4>1, <4>2, <4>3
      <4>4. CASE data = list /\ left = rest BY <2>11, <2>12, <2>13, <4>1, <4>2, <4>4
      <4> QED BY <2>14, <4>3, <4>4
    <3>2. /\ e >= known'[home] /\ e <= edition'
          /\ \A k \in Reloading(home)' : e >= loading'[k].began
      BY <2>1, <2>9, <2>10, <2>14 DEF FileHeld
    <3> QED BY <3>1, <3>2 DEF FileHeld
  <2>15. ASSUME NEW f \in Files PROVE Provided(home, f)'
    <3>1. CASE \E k \in Reloading(home) : Owes(k, f)
      <4>1. PICK k \in Reloading(home) : Owes(k, f) BY <3>1
      <4>2. Owes(k, f)' BY <1>3, <2>1, <2>6, <4>1 DEF Owes, Reloading
      <4> QED BY <2>9, <4>1, <4>2 DEF Provided
    <3>2. ASSUME NEW k \in Reloading(home), NEW e \in DOMAIN Editions,
                 FileHeld(home, f, e, loading[k].data)
          PROVE  Provided(home, f)'
      <4>1. PICK data, left : data = loading[k].data /\ left = loading'[k].data OBVIOUS
      <4>2. left = data \/ (data = list /\ left = rest) BY <1>3, <2>2, <2>6, <4>1 DEF Reloading
      <4>3. FileHeld(home, f, e, left)' BY <2>14, <3>2, <4>1, <4>2
      <4>4. FileHeld(home, f, e, loading[k].data)' BY <4>1, <4>3
      <4> QED BY <2>9, <4>4 DEF Provided
    <3>3. ASSUME NEW e \in DOMAIN Editions, FileHeld(home, f, e, << >>) PROVE Provided(home, f)'
      <4>1. FileHeld(home, f, e, << >>)' BY <2>14, <3>3
      <4> QED BY <4>1 DEF Provided
    <3> QED BY <1>10, <3>1, <3>2, <3>3 DEF Provided
  <2> QED BY <1>1, <1>3, <1>4, <1>7, <1>9, <2>1, <2>8, <2>15
<1>14. CASE EndReload(l)
  <2>1. /\ loading[l].stage = "files" /\ loading[l].data = << >> /\ loading[l].files = {}
        /\ loading' = [loading EXCEPT ![l] = NotLoading] /\ memory' = memory
        /\ known' = [known EXCEPT ![home] = IF loading[l].began > @ THEN loading[l].began ELSE @]
    BY <1>2, <1>14 DEF EndReload
  <2>2. loading'[l].stage = "off" BY <1>1, <2>1 DEF NotLoading
  <2>3. /\ known'[home] >= known[home] /\ known'[home] \in {known[home], loading[l].began}
        /\ loading[l].began <= edition
    BY <1>1, <2>1 DEF LoadersOK
  <2>4. \A r \in Servers : known'[r] >= known[r] BY <1>1, <1>3, <2>3
  <2>5. LoadersOK' BY <1>1, <1>3, <2>1, <2>2, <2>3 DEF LoadersOK
  <2>6. Reloading(home)' = Reloading(home) \ {l} BY <1>3, <2>2 DEF Reloading
  <2>7. ASSUME NEW f \in Files, NEW e \in DOMAIN Editions, NEW data, FileHeld(home, f, e, data)
        PROVE  FileHeld(home, f, e, data)'
    <3>1. e >= known'[home] /\ e <= edition' BY <1>4, <2>3, <2>7 DEF FileHeld
    <3>2. \A k \in Reloading(home)' : e >= loading'[k].began
      BY <1>3, <2>6, <2>7 DEF FileHeld, Reloading
    <3>3. \A r \in Loadable(Editions[e][f]) : Holds(home, r)' \/ r \in Loadable(data)
      BY <2>1, <2>7 DEF FileHeld, Holds
    <3> QED BY <3>1, <3>2, <3>3 DEF FileHeld
  <2>8. ASSUME NEW f \in Files PROVE Provided(home, f)'
    <3>1. CASE \E k \in Reloading(home) : Owes(k, f)
      <4>1. PICK k \in Reloading(home) : Owes(k, f) BY <3>1
      <4>2. k # l BY <2>1, <4>1 DEF Owes
      <4>3. Owes(k, f)' BY <1>3, <4>1, <4>2 DEF Owes, Reloading
      <4> QED BY <2>6, <4>1, <4>2, <4>3 DEF Provided
    <3>2. ASSUME NEW k \in Reloading(home), NEW e \in DOMAIN Editions,
                 FileHeld(home, f, e, loading[k].data)
          PROVE  Provided(home, f)'
      <4>1. CASE k = l
        <5>1. FileHeld(home, f, e, << >>)' BY <2>1, <2>7, <3>2, <4>1
        <5> QED BY <5>1 DEF Provided
      <4>2. CASE k # l
        <5>1. PICK data : data = loading[k].data OBVIOUS
        <5>2. FileHeld(home, f, e, data)' BY <2>7, <3>2, <5>1
        <5>3. loading'[k].data = data BY <1>3, <4>2, <5>1 DEF Reloading
        <5>4. FileHeld(home, f, e, loading[k].data)' BY <5>2, <5>3
        <5> QED BY <2>6, <4>2, <5>4 DEF Provided
      <4> QED BY <4>1, <4>2
    <3>3. ASSUME NEW e \in DOMAIN Editions, FileHeld(home, f, e, << >>) PROVE Provided(home, f)'
      <4>1. FileHeld(home, f, e, << >>)' BY <2>7, <3>3
      <4> QED BY <4>1 DEF Provided
    <3> QED BY <1>10, <3>1, <3>2, <3>3 DEF Provided
  <2> QED BY <1>1, <1>3, <1>4, <1>7, <1>9, <2>1, <2>4, <2>5, <2>8
<1> QED BY <1>11, <1>12, <1>13, <1>14 DEF ReloadStep

-----------------------------------------------------------------------------
(* A thread has read what edition e has in file f for its prompt. *)
SeesFile(t, f, e) ==
  \A rule \in Loadable(Editions[e][f]) : Concerns(rule, Prompt(t.of).dept) => rule \in reading[t].rules

(* A thread was let pass by the policies. *)
Passed(t) == attempt[t].pc \in {"route", "fallback", "answered"} \/ sent[t] # {}

(* A thread is at the policies, in one of these stages of reading. *)
AtPolicy(t, stages) == attempt[t].pc = "policy" /\ reading[t].stage \in stages

(* The stages in which a thread has still to look at a table. *)
Looking == {"off", "departments", "globals", "reload", "first", "second"}

(* What a thread in process s has read: while nobody reloads beside it, no   *)
(* reload goes on as it looks, its first look has all the global rules, and  *)
(* in the end it has for every file the rules of some edition since its      *)
(* beginning; so who was let pass was not always to be blocked.              *)
ReadingAt(t, s) ==
  /\ attempt[t].pc = "policy" => attempt[t].since <= known[s]
  /\ AtPolicy(t, Looking) /\ calm[t] => Reloading(s) = {}
  /\ AtPolicy(t, {"second"}) /\ calm[t] => reading[t].rules = memory[s].global
  /\ AtPolicy(t, {"read"}) /\ calm[t] =>
       \A f \in Files : \E e \in attempt[t].since .. edition : SeesFile(t, f, e)
  /\ Passed(t) /\ calm[t] /\ Prompt(t.of).kind = "ask" =>
       ~AlwaysBlocked(View(Prompt(t.of)), attempt[t].since)

(* The invariant of the readings. *)
ReadersOK == \A t \in Threads : \E s \in Servers : s = attempt[t].server /\ ReadingAt(t, s)

(* The invariant of the readings implies BlockedStaysUnsent. *)
LEMMA ReadersSay == ReadersOK => BlockedStaysUnsent
BY DEF ReadersOK, ReadingAt, Passed, BlockedStaysUnsent

(* A prompt that some edition lets pass is not always blocked once there are *)
(* more editions.                                                            *)
LEMMA StillNotBlocked ==
  ASSUME edition \in Nat, edition' \in Nat, edition' >= edition, NEW v, NEW n \in Nat,
         ~AlwaysBlocked(v, n)
  PROVE  ~AlwaysBlocked(v, n)'
BY DEF AlwaysBlocked

(* A thread that looks no further keeps what it was let pass with. *)
LEMMA PassedKept ==
  ASSUME PolicyTypes, edition' \in Nat, edition' >= edition, NEW t \in Threads,
         attempt[t].since \in Nat, attempt'[t].since = attempt[t].since,
         Prompt(t.of)' = Prompt(t.of), calm'[t] => calm[t],
         Passed(t)' /\ Prompt(t.of).kind = "ask" => Passed(t),
         Passed(t) /\ calm[t] /\ Prompt(t.of).kind = "ask" =>
           ~AlwaysBlocked(View(Prompt(t.of)), attempt[t].since)
  PROVE  (Passed(t) /\ calm[t] /\ Prompt(t.of).kind = "ask" =>
           ~AlwaysBlocked(View(Prompt(t.of)), attempt[t].since))'
<1>1. PICK v, n : v = View(Prompt(t.of)) /\ n = attempt[t].since OBVIOUS
<1>2. n \in Nat /\ v = View(Prompt(t.of))' /\ n = attempt'[t].since BY <1>1
<1>3. ~AlwaysBlocked(v, n) => ~AlwaysBlocked(v, n)' BY <1>2, HeldRules, StillNotBlocked
<1>4. SUFFICES ASSUME Passed(t)', calm'[t], Prompt(t.of).kind = "ask"
               PROVE  ~AlwaysBlocked(View(Prompt(t.of)), attempt[t].since)'
  OBVIOUS
<1>5. ~AlwaysBlocked(v, n)' BY <1>1, <1>3, <1>4
<1> QED BY <1>2, <1>5

(* A thread that does not move keeps what it has read, if no reload begins   *)
(* beside it while it is calm.                                               *)
LEMMA ReadingKept ==
  ASSUME PolicyTypes, edition' \in Nat, edition' >= edition, NEW t \in Threads, NEW s \in Servers,
         attempt[t].since \in Nat, attempt'[t] = attempt[t], reading'[t] = reading[t],
         sent'[t] = sent[t], Prompt(t.of)' = Prompt(t.of), calm'[t] => calm[t],
         known[s] \in Nat, known'[s] \in Nat, known'[s] >= known[s], ReadingAt(t, s),
         AtPolicy(t, Looking) /\ calm[t] /\ calm'[t] =>
           Reloading(s)' = {} /\ memory'[s].global = memory[s].global
  PROVE  ReadingAt(t, s)'
<1>1. attempt'[t].pc = "policy" => attempt'[t].since <= known'[s] BY DEF ReadingAt
<1>2. \A stages : AtPolicy(t, stages)' = AtPolicy(t, stages) BY DEF AtPolicy
<1>3. AtPolicy(t, Looking)' /\ calm'[t] => Reloading(s)' = {} BY <1>2
<1>4. AtPolicy(t, {"second"})' /\ calm'[t] => reading'[t].rules = memory'[s].global
  <2>1. AtPolicy(t, {"second"}) => AtPolicy(t, Looking) BY DEF AtPolicy, Looking
  <2> QED BY <1>2, <2>1 DEF ReadingAt
<1>5. AtPolicy(t, {"read"})' /\ calm'[t] =>
       \A f \in Files : \E e \in attempt'[t].since .. edition' : SeesFile(t, f, e)'
  <2> SUFFICES ASSUME AtPolicy(t, {"read"}), calm[t], NEW f \in Files
               PROVE  \E e \in attempt'[t].since .. edition' : SeesFile(t, f, e)'
    BY <1>2
  <2>1. PICK e \in attempt[t].since .. edition : SeesFile(t, f, e) BY DEF ReadingAt
  <2>2. SeesFile(t, f, e)' BY <2>1 DEF SeesFile
  <2>3. e \in attempt'[t].since .. edition' BY <2>1, HeldRules
  <2> QED BY <2>2, <2>3
<1>6. (Passed(t) /\ calm[t] /\ Prompt(t.of).kind = "ask" =>
           ~AlwaysBlocked(View(Prompt(t.of)), attempt[t].since))'
  <2>1. Passed(t)' => Passed(t) BY DEF Passed
  <2>2. Passed(t) /\ calm[t] /\ Prompt(t.of).kind = "ask" =>
           ~AlwaysBlocked(View(Prompt(t.of)), attempt[t].since)
    BY DEF ReadingAt
  <2> QED BY <2>1, <2>2, PassedKept
<1> QED BY <1>1, <1>3, <1>4, <1>5, <1>6 DEF ReadingAt

(* So does a thread that has left the policies or not come to them. *)
LEMMA AwayKept ==
  ASSUME PolicyTypes, edition' \in Nat, edition' >= edition, NEW t \in Threads, NEW s, NEW home,
         attempt[t].since \in Nat, attempt'[t].since = attempt[t].since,
         attempt'[t].pc # "policy",
         Prompt(t.of)' = Prompt(t.of), calm'[t] => calm[t],
         Passed(t)' /\ Prompt(t.of).kind = "ask" => Passed(t), ReadingAt(t, s)
  PROVE  ReadingAt(t, home)'
<1>1. Passed(t) /\ calm[t] /\ Prompt(t.of).kind = "ask" =>
           ~AlwaysBlocked(View(Prompt(t.of)), attempt[t].since)
  BY DEF ReadingAt
<1>2. (Passed(t) /\ calm[t] /\ Prompt(t.of).kind = "ask" =>
           ~AlwaysBlocked(View(Prompt(t.of)), attempt[t].since))'
  BY <1>1, PassedKept
<1> QED BY <1>2 DEF ReadingAt, AtPolicy

(* Where only the threads of T move, their own part of the invariant is all  *)
(* there is to see.                                                          *)
LEMMA ReadersKept ==
  ASSUME GatewayTypeOK, GatewayTypeOK', ReadersOK, NEW T \in SUBSET Threads,
         \A r : Prompt(r)' = Prompt(r), edition' >= edition,
         \A s \in Servers : known'[s] >= known[s],
         \A u \in Threads \ T :
           /\ attempt'[u] = attempt[u] /\ reading'[u] = reading[u] /\ sent'[u] = sent[u]
           /\ calm'[u] => calm[u]
           /\ \A s \in Servers : s = attempt[u].server /\ AtPolicy(u, Looking) /\ calm[u] /\ calm'[u]
                /\ Reloading(s) = {} => Reloading(s)' = {} /\ memory'[s].global = memory[s].global,
         \A t \in T : \E s \in Servers : s = attempt'[t].server /\ ReadingAt(t, s)'
  PROVE  ReadersOK'
<1>1. PolicyTypes /\ PolicyTypes' /\ attempt \in [Threads -> AttemptRecord]
  BY TypesParts DEF GatewayTypeOK, PolicyTypeOK, PolicyTypes, MemoryRecord, LoadingRecord, ReadingRecord
<1>2. edition' \in Nat /\ \A s \in Servers : known[s] \in Nat /\ known'[s] \in Nat
  BY <1>1, EditionTypes DEF PolicyTypes
<1>3. ASSUME NEW u \in Threads \ T PROVE \E s \in Servers : s = attempt'[u].server /\ ReadingAt(u, s)'
  <2>1. PICK s \in Servers : s = attempt[u].server /\ ReadingAt(u, s) BY DEF ReadersOK
  <2>2. attempt[u].since \in Nat BY <1>1, EditionTypes DEF AttemptRecord
  <2>3. AtPolicy(u, Looking) /\ calm[u] /\ calm'[u] =>
           Reloading(s)' = {} /\ memory'[s].global = memory[s].global
    BY <2>1 DEF ReadingAt
  <2>4. /\ attempt'[u] = attempt[u] /\ reading'[u] = reading[u] /\ sent'[u] = sent[u]
        /\ calm'[u] => calm[u]
        /\ Prompt(u.of)' = Prompt(u.of) /\ known'[s] >= known[s]
        /\ known[s] \in Nat /\ known'[s] \in Nat
    BY <1>2
  <2>5. ReadingAt(u, s)' BY <1>1, <1>2, <2>1, <2>2, <2>3, <2>4, ReadingKept
  <2>6. s = attempt'[u].server BY <2>1, <2>4
  <2> QED BY <2>5, <2>6
<1> QED BY <1>3 DEF ReadersOK

(* A reload that begins in a process disturbs who reads there. *)
LEMMA BeginDisturbs ==
  ASSUME NEW l \in Loaders, NEW s \in Servers, EmptyDepartments(l, s, [u \in Threads |-> Reads(u)]),
         NEW t \in Threads
  PROVE  /\ calm'[t] => calm[t]
         /\ AtPolicy(t, Looking) /\ attempt[t].server = s => ~calm'[t]
BY DEF EmptyDepartments, Reads, AtPolicy, Looking

(* A look at the tables keeps the invariants: a calm thread that has looked  *)
(* at both has, for every file, the rules of the edition its process holds,  *)
(* for no reload owes any.                                                   *)
LEMMA LookupReaders ==
  ASSUME GatewayTypeOK, GatewayTypeOK', SendingOK, TablesOK, LoadersOK, ReadersOK,
         NEW t \in Threads, LookUpRules(t), \A r : Prompt(r)' = Prompt(r)
  PROVE  TablesOK' /\ LoadersOK' /\ ReadersOK'
<1>1. /\ PolicyTypes /\ PolicyTypes' /\ attempt \in [Threads -> AttemptRecord]
  BY TypesParts DEF GatewayTypeOK, PolicyTypeOK, PolicyTypes, MemoryRecord, LoadingRecord, ReadingRecord
<1>2. PICK s \in Servers : s = attempt[t].server /\ ReadingAt(t, s) BY DEF ReadersOK
<1> DEFINE at == [u \in Threads |-> Reads(u)]
           dept == Prompt(t.of).dept
<1>3. /\ attempt[t].pc = "policy" /\ Lookup(t, s, dept, at)
      /\ UNCHANGED <<edition, plan, job, attempt, counted, trail, sent>>
  BY <1>2 DEF LookUpRules
<1>4. sent[t] = {} BY <1>3 DEF SendingOK, SentAt
<1>5. ~Passed(t) /\ ~Passed(t)' BY <1>3, <1>4 DEF Passed
<1>6. /\ reading \in [Threads -> ReadingRecord] /\ edition \in Nat /\ edition' = edition
      /\ \A r \in Servers : known[r] \in Nat
  BY <1>1, <1>3, HeldRules DEF PolicyTypes
<1> HIDE DEF at, dept
<1>7. ASSUME UNCHANGED <<memory, loading, known, calm>>,
             \A u \in Threads \ {t} : reading'[u] = reading[u],
             \/ reading'[t].stage \in {"globals", "reload", "first"} /\ reading[t].stage \in Looking
             \/ /\ reading'[t].stage = "second" /\ reading[t].stage \in Looking
                /\ reading'[t].rules = memory[s].global
             \/ /\ reading'[t].stage = "read"
                /\ calm[t] => \A f \in Files : \E e \in attempt[t].since .. edition : SeesFile(t, f, e)'
      PROVE  TablesOK' /\ LoadersOK' /\ ReadersOK'
  <2>1. \A r \in Servers : Reloading(r)' = Reloading(r) BY <1>7 DEF Reloading
  <2>2. TablesOK' BY <1>3, <1>7 DEF TablesOK, Provided, FileHeld, Owes, Holds, Reloading
  <2>3. LoadersOK' BY <1>3, <1>7 DEF LoadersOK
  <2>4. ReadingAt(t, s)'
    <3>1. attempt'[t].pc = "policy" => attempt'[t].since <= known'[s]
      BY <1>2, <1>3, <1>7 DEF ReadingAt
    <3>2. AtPolicy(t, Looking)' /\ calm'[t] => Reloading(s)' = {}
      BY <1>2, <1>3, <1>7, <2>1 DEF ReadingAt, AtPolicy, Looking
    <3>3. AtPolicy(t, {"second"})' /\ calm'[t] => reading'[t].rules = memory'[s].global
      BY <1>7 DEF AtPolicy
    <3>4. AtPolicy(t, {"read"})' /\ calm'[t] =>
       \A f \in Files : \E e \in attempt'[t].since .. edition' : SeesFile(t, f, e)'
      BY <1>3, <1>7 DEF AtPolicy
    <3> QED BY <1>5, <3>1, <3>2, <3>3, <3>4 DEF ReadingAt
  <2>5. \A u \in Threads \ {t} :
           /\ attempt'[u] = attempt[u] /\ reading'[u] = reading[u] /\ sent'[u] = sent[u]
           /\ calm'[u] => calm[u]
           /\ \A r \in Servers : r = attempt[u].server /\ AtPolicy(u, Looking) /\ calm[u] /\ calm'[u]
                /\ Reloading(r) = {} => Reloading(r)' = {} /\ memory'[r].global = memory[r].global
    BY <1>3, <1>7, <2>1
  <2>6. \A u \in {t} : \E r \in Servers : r = attempt'[u].server /\ ReadingAt(u, r)'
    BY <1>2, <1>3, <2>4
  <2>7. edition' >= edition /\ \A r \in Servers : known'[r] >= known[r] BY <1>6, <1>7
  <2>8. {t} \in SUBSET Threads OBVIOUS
  <2>9. ReadersOK' BY <2>5, <2>6, <2>7, <2>8, ReadersKept
  <2> QED BY <2>2, <2>3, <2>9
<1>8. CASE TestDepartments(t, s)
  BY <1>6, <1>7, <1>8 DEF TestDepartments, ReadingRecord, Looking
<1>9. CASE TestGlobals(t, s)
  BY <1>6, <1>7, <1>9 DEF TestGlobals, ReadingRecord, Looking
<1>10. CASE ReadGlobals(t, s)
  BY <1>6, <1>7, <1>10 DEF ReadGlobals, ReadingRecord, Looking
<1>11. CASE ReadDepartment(t, s, dept)
  <2>1. /\ reading[t].stage = "second" /\ UNCHANGED <<memory, loading, known, calm>>
        /\ reading' = [reading EXCEPT ![t].stage = "read",
               ![t].rules = @ \cup {r \in memory[s].department : r.dept = dept}]
    BY <1>11 DEF ReadDepartment
  <2> DEFINE a == [reading[t] EXCEPT !.stage = "read",
                     !.rules = @ \cup {r \in memory[s].department : r.dept = dept}]
  <2>2. reading' = [reading EXCEPT ![t] = a] BY <2>1, Zenon
  <2>3. a.stage = "read" /\ a.rules = reading[t].rules \cup {r \in memory[s].department : r.dept = dept}
    BY <1>6 DEF ReadingRecord
  <2> HIDE DEF a
  <2>4. /\ reading'[t].stage = "read" /\ \A u \in Threads \ {t} : reading'[u] = reading[u]
        /\ reading'[t].rules = reading[t].rules \cup {r \in memory[s].department : r.dept = dept}
    BY <1>6, <2>2, <2>3
  <2>5. ASSUME calm[t], NEW f \in Files
        PROVE  \E e \in attempt[t].since .. edition : SeesFile(t, f, e)'
    <3>1. /\ Reloading(s) = {} /\ reading[t].rules = memory[s].global /\ attempt[t].since <= known[s]
      BY <1>2, <1>3, <2>1, <2>5 DEF ReadingAt, AtPolicy, Looking
    <3>2. Provided(s, f) BY DEF TablesOK
    <3>3. PICK e \in DOMAIN Editions : FileHeld(s, f, e, << >>) BY <3>1, <3>2 DEF Provided
    <3>4. ASSUME NEW rule \in Loadable(Editions[e][f]), Concerns(rule, Prompt(t.of).dept)
          PROVE  rule \in reading'[t].rules
      <4>1. Holds(s, rule) BY <3>3, LoadableNone DEF FileHeld
      <4>2. rule.table \in {"global", "department"} BY <1>1, HeldRules
      <4>3. CASE rule.table = "global" BY <2>4, <3>1, <4>1, <4>3 DEF Holds
      <4>4. CASE rule.table = "department" BY <2>4, <3>4, <4>1, <4>4 DEF Holds, Concerns, dept
      <4> QED BY <4>2, <4>3, <4>4
    <3>5. SeesFile(t, f, e)'
      <4>1. Prompt(t.of)' = Prompt(t.of) OBVIOUS
      <4> QED BY <3>4, <4>1 DEF SeesFile
    <3>6. attempt[t].since \in Nat BY <1>1, EditionTypes DEF AttemptRecord
    <3>7. e \in attempt[t].since .. edition BY <1>1, <1>6, <3>1, <3>3, <3>6, HeldRules DEF FileHeld
    <3> QED BY <3>5, <3>7
  <2> QED BY <1>7, <2>1, <2>4, <2>5
<1>12. CASE ReloadFirst(t, s, at)
  <2>1. /\ EmptyDepartments(t, s, at) /\ UNCHANGED <<edition, known>> /\ reading[t].stage = "reload"
        /\ reading' = [reading EXCEPT ![t].stage = "first"]
    BY <1>3, <1>12 DEF ReloadFirst
  <2>2. t \in Loaders BY ThreadTypes
  <2>3. /\ TablesOK' /\ LoadersOK'
        /\ memory'[s].global = memory[s].global
        /\ \A r \in Servers \ {s} : memory'[r] = memory[r] /\ Reloading(r)' = Reloading(r)
    BY <1>1, <2>1, <2>2, EmptyStep
  <2>4. \A u \in Threads : /\ calm'[u] => calm[u]
                           /\ AtPolicy(u, Looking) /\ attempt[u].server = s => ~calm'[u]
    BY <2>1, <2>2, BeginDisturbs DEF at
  <2>5. \A u \in Threads \ {t} :
           /\ attempt'[u] = attempt[u] /\ reading'[u] = reading[u] /\ sent'[u] = sent[u]
           /\ calm'[u] => calm[u]
           /\ \A r \in Servers : r = attempt[u].server /\ AtPolicy(u, Looking) /\ calm[u] /\ calm'[u]
                /\ Reloading(r) = {} => Reloading(r)' = {} /\ memory'[r].global = memory[r].global
    BY <1>3, <1>6, <2>1, <2>3, <2>4
  <2>6. ~calm'[t] BY <1>2, <1>3, <2>1, <2>4 DEF AtPolicy, Looking
  <2>7. ReadingAt(t, s)' BY <1>2, <1>3, <2>1, <2>6 DEF ReadingAt
  <2>8. \A u \in {t} : \E r \in Servers : r = attempt'[u].server /\ ReadingAt(u, r)'
    BY <1>2, <1>3, <2>7
  <2>9. edition' >= edition /\ \A r \in Servers : known'[r] >= known[r] BY <1>6, <2>1
  <2>10. {t} \in SUBSET Threads OBVIOUS
  <2>11. ReadersOK' BY <2>5, <2>8, <2>9, <2>10, ReadersKept
  <2> QED BY <2>3, <2>11
<1> QED BY <1>3, <1>8, <1>9, <1>10, <1>11, <1>12 DEF Lookup

(* A decision keeps the readings: the rules that a calm thread read block    *)
(* what every edition blocks, as each file was seen in some edition.         *)
LEMMA DecideReaders ==
  ASSUME GatewayTypeOK, SendingOK, ReadersOK, NEW t \in Threads, Decide(t),
         \A r : Prompt(r)' = Prompt(r), NEW s \in Servers, s = attempt[t].server
  PROVE  attempt'[t].server = s /\ ReadingAt(t, s)'
<1>1. /\ PolicyTypes /\ attempt \in [Threads -> AttemptRecord] BY TypesParts
<1>2. ReadingAt(t, s) BY DEF ReadersOK
<1>3. /\ attempt[t].pc = "policy" /\ reading[t].stage = "read" /\ edition' = edition /\ calm' = calm
      /\ sent' = sent
  BY DEF Decide
<1>4. sent[t] = {} BY <1>3 DEF SendingOK, SentAt
<1>5. \/ Goto(t, "over")
      \/ Goto(t, "route") /\ ~Blocked(reading[t].rules, View(Prompt(t.of)))
  BY Zenon DEF Decide
<1>6. attempt'[t].server = s /\ attempt'[t].since = attempt[t].since /\ attempt'[t].pc \in {"over", "route"}
  BY <1>1, <1>5 DEF Goto, AttemptRecord
<1>7. CASE Goto(t, "over")
  <2>1. attempt'[t].pc = "over" BY <1>1, <1>7 DEF Goto, AttemptRecord
  <2> QED BY <1>3, <1>4, <1>6, <2>1 DEF ReadingAt, AtPolicy, Passed
<1>8. CASE ~Blocked(reading[t].rules, View(Prompt(t.of)))
  <2>1. PICK v, n : v = View(Prompt(t.of)) /\ n = attempt[t].since OBVIOUS
  <2>2. ASSUME calm[t] PROVE ~AlwaysBlocked(v, n)
    <3> SUFFICES ASSUME NEW f \in Files
                 PROVE  \E e \in n .. edition :
                   ~Blocked({r \in Loadable(Editions[e][f]) : Concerns(r, v.dept)}, v)
      BY DEF AlwaysBlocked
    <3>1. PICK e \in n .. edition : SeesFile(t, f, e) BY <1>2, <1>3, <2>1, <2>2 DEF ReadingAt, AtPolicy
    <3>2. v.dept = Prompt(t.of).dept BY <2>1 DEF View
    <3>3. {r \in Loadable(Editions[e][f]) : Concerns(r, v.dept)} \subseteq reading[t].rules
      BY <3>1, <3>2 DEF SeesFile
    <3>4. ~Blocked({r \in Loadable(Editions[e][f]) : Concerns(r, v.dept)}, v)
      BY <1>8, <2>1, <3>3 DEF Blocked, Triggered
    <3> QED BY <3>4
  <2>3. v = View(Prompt(t.of))' /\ n = attempt'[t].since BY <1>6, <2>1
  <2>4. edition \in Nat /\ n \in Nat BY <1>1, <2>1, HeldRules, EditionTypes DEF AttemptRecord
  <2>5. calm[t] => ~AlwaysBlocked(v, n)' BY <1>3, <2>2, <2>4, StillNotBlocked
  <2>6. calm'[t] => ~AlwaysBlocked(View(Prompt(t.of)), attempt[t].since)' BY <1>3, <2>3, <2>5
  <2> QED BY <1>6, <2>6 DEF ReadingAt, AtPolicy
<1> QED BY <1>5, <1>6, <1>7, <1>8

(* Every step keeps the tables, the reloads and the readings. *)
LEMMA RulesStep ==
  ASSUME GatewayTypeOK, JobsOK, SendingOK, TablesOK, LoadersOK, ReadersOK, [GatewayNext]_gatewayVars
  PROVE  TablesOK' /\ LoadersOK' /\ ReadersOK'
<1>1. \A r : Prompt(r)' = Prompt(r) BY PromptsStay DEF Prompt
<1>2. GatewayTypeOK' BY JobsStep
<1>3. /\ PolicyTypes /\ PolicyTypes' /\ job \in [Requests -> JobRecord]
      /\ attempt \in [Threads -> AttemptRecord] /\ attempt' \in [Threads -> AttemptRecord]
      /\ sent \in [Threads -> SUBSET Models]
  BY <1>2, TypesParts DEF GatewayTypeOK, PolicyTypeOK, PolicyTypes, MemoryRecord, LoadingRecord,
     ReadingRecord, AttemptRecord
<1>4. /\ edition \in Nat /\ edition' \in Nat
      /\ \A r \in Servers : known[r] \in Nat /\ known'[r] \in Nat
      /\ \A t \in Threads : attempt[t].since \in Nat
  BY <1>3, EditionTypes DEF PolicyTypes, AttemptRecord
<1>5. ASSUME NEW t \in Threads
      PROVE  /\ t.of \in Requests /\ attempt[t] \in AttemptRecord /\ SentAt(t)
             /\ \E s \in Servers : s = attempt[t].server /\ ReadingAt(t, s)
  BY <1>3, ThreadTypes DEF ReadersOK, SendingOK
(* The steps that leave the tables alone. *)
<1>6. ASSUME UNCHANGED <<edition, memory, loading, known>>
      PROVE  /\ TablesOK' /\ LoadersOK' /\ edition' >= edition
             /\ \A r \in Servers : known'[r] >= known[r] /\ Reloading(r)' = Reloading(r)
  BY <1>4, <1>6 DEF TablesOK, Provided, FileHeld, Owes, Holds, Reloading, LoadersOK
<1>7. ASSUME UNCHANGED <<edition, memory, loading, known, calm, reading, attempt, sent>>
      PROVE  TablesOK' /\ LoadersOK' /\ ReadersOK'
  <2>1. {} \in SUBSET Threads OBVIOUS
  <2>2. \A u \in Threads \ {} :
           /\ attempt'[u] = attempt[u] /\ reading'[u] = reading[u] /\ sent'[u] = sent[u]
           /\ calm'[u] => calm[u]
           /\ \A r \in Servers : r = attempt[u].server /\ AtPolicy(u, Looking) /\ calm[u] /\ calm'[u]
                /\ Reloading(r) = {} => Reloading(r)' = {} /\ memory'[r].global = memory[r].global
    BY <1>6, <1>7
  <2>3. \A t \in {} : \E s \in Servers : s = attempt'[t].server /\ ReadingAt(t, s)' OBVIOUS
  <2>4. edition' >= edition /\ \A r \in Servers : known'[r] >= known[r] BY <1>6, <1>7
  <2>5. ReadersOK' BY <1>1, <1>2, <2>1, <2>2, <2>3, <2>4, ReadersKept
  <2> QED BY <1>6, <1>7, <2>5
<1>8. ASSUME NEW t \in Threads, UNCHANGED <<edition, memory, loading, known>>,
             \A u \in Threads \ {t} : /\ attempt'[u] = attempt[u] /\ reading'[u] = reading[u]
                                      /\ sent'[u] = sent[u] /\ calm'[u] = calm[u],
             \E s \in Servers : s = attempt'[t].server /\ ReadingAt(t, s)'
      PROVE  TablesOK' /\ LoadersOK' /\ ReadersOK'
  <2>1. {t} \in SUBSET Threads OBVIOUS
  <2>2. \A u \in Threads \ {t} :
           /\ attempt'[u] = attempt[u] /\ reading'[u] = reading[u] /\ sent'[u] = sent[u]
           /\ calm'[u] => calm[u]
           /\ \A r \in Servers : r = attempt[u].server /\ AtPolicy(u, Looking) /\ calm[u] /\ calm'[u]
                /\ Reloading(r) = {} => Reloading(r)' = {} /\ memory'[r].global = memory[r].global
    BY <1>6, <1>8
  <2>3. \A u \in {t} : \E s \in Servers : s = attempt'[u].server /\ ReadingAt(u, s)' BY <1>8
  <2>4. edition' >= edition /\ \A r \in Servers : known'[r] >= known[r] BY <1>6, <1>8
  <2>5. ReadersOK' BY <1>1, <1>2, <2>1, <2>2, <2>3, <2>4, ReadersKept
  <2> QED BY <1>6, <1>8, <2>5
(* A thread that is past the policies. *)
<1>9. ASSUME NEW t \in Threads, UNCHANGED <<edition, memory, loading, known, calm, reading>>,
             \A u \in Threads \ {t} : attempt'[u] = attempt[u] /\ sent'[u] = sent[u],
             attempt'[t].pc # "policy", attempt'[t].since = attempt[t].since,
             Passed(t)' /\ Prompt(t.of).kind = "ask" => Passed(t)
      PROVE  TablesOK' /\ LoadersOK' /\ ReadersOK'
  <2>1. PICK s \in Servers : s = attempt[t].server /\ ReadingAt(t, s) BY <1>5
  <2>2. PICK home \in Servers : home = attempt'[t].server BY <1>3 DEF AttemptRecord
  <2>3. attempt[t].since \in Nat /\ edition' >= edition /\ Prompt(t.of)' = Prompt(t.of)
        /\ (calm'[t] => calm[t])
    BY <1>1, <1>4, <1>9
  <2>4. ReadingAt(t, home)' BY <1>3, <1>4, <1>9, <2>1, <2>3, AwayKept
  <2> QED BY <1>8, <1>9, <2>2, <2>4
<1>10. CASE UNCHANGED gatewayVars BY <1>7, <1>10 DEF gatewayVars, policyVars
<1>11. ASSUME NEW r \in Requests, Submit(r) PROVE TablesOK' /\ LoadersOK' /\ ReadersOK'
  BY <1>7, <1>11 DEF Submit, KeepPolicy, policyVars
<1>12. ASSUME NEW r \in Requests, NEW s \in Servers, Start(r, s)
       PROVE  TablesOK' /\ LoadersOK' /\ ReadersOK'
  <2>1. job[r] \in JobRecord /\ job[r].attempts \in 0 .. 2 BY <1>3 DEF JobRecord
  <2>2. job[r].attempts <= 1 BY <1>12 DEF Start, JobsOK
  <2>3. PICK n \in 1 .. 2 : n = job[r].attempts + 1 BY <2>1, <2>2
  <2>4. PICK t \in Threads : t = [of |-> r, nr |-> n] /\ t.of = r /\ t.nr = n BY ThreadTypes
  <2> DEFINE a == [attempt[t] EXCEPT !.server = s, !.pc = IF Prompt(r).kind = "ask" THEN "scan" ELSE "route"]
  <2>5. /\ attempt' = [attempt EXCEPT ![t].server = s,
             ![t].pc = IF Prompt(r).kind = "ask" THEN "scan" ELSE "route"]
        /\ sent' = sent /\ UNCHANGED policyVars
    BY <1>12, <2>3, <2>4, Zenon DEF Start, KeepPolicy
  <2>6. attempt' = [attempt EXCEPT ![t] = a] BY <2>5, Zenon
  <2>7. attempt[t].pc = "idle"
    <3>1. n > job[r].attempts BY <2>1, <2>3
    <3> QED BY <2>4, <3>1 DEF JobsOK
  <2>8. sent[t] = {} BY <1>5, <2>4, <2>7 DEF SentAt
  <2>9. /\ a.pc \in {"scan", "route"} /\ a.since = attempt[t].since
        /\ Prompt(r).kind = "ask" => a.pc = "scan"
    BY <1>5, <2>4 DEF AttemptRecord
  <2> HIDE DEF a
  <2>10. attempt'[t] = a /\ \A u \in Threads \ {t} : attempt'[u] = attempt[u] BY <1>3, <2>4, <2>6
  <2>11. ~(Passed(t)' /\ Prompt(t.of).kind = "ask") BY <2>4, <2>5, <2>8, <2>9, <2>10 DEF Passed
  <2>12. UNCHANGED <<edition, memory, loading, known, calm, reading>> BY <2>5 DEF policyVars
  <2> QED BY <1>9, <2>5, <2>9, <2>10, <2>11, <2>12
<1>13. ASSUME NEW t \in Threads, TimeUp(t) PROVE TablesOK' /\ LoadersOK' /\ ReadersOK'
  BY <1>7, <1>13 DEF TimeUp, KeepPolicy, policyVars
<1>14. ASSUME NEW t \in Threads, Scan(t) PROVE TablesOK' /\ LoadersOK' /\ ReadersOK'
  <2>1. attempt[t].pc = "scan" /\ sent' = sent BY <1>14 DEF Scan
  <2>2. sent[t] = {} BY <1>5, <2>1 DEF SentAt
  <2>3. PICK s \in Servers : s = attempt[t].server BY <1>5
  <2>4. CASE Goto(t, "over") /\ KeepPolicy
    <3>1. /\ attempt'[t].pc = "over" /\ attempt'[t].since = attempt[t].since
          /\ \A u \in Threads \ {t} : attempt'[u] = attempt[u]
      BY <1>3, <2>4 DEF Goto, AttemptRecord
    <3>2. ~Passed(t)' BY <2>1, <2>2, <3>1 DEF Passed
    <3>3. UNCHANGED <<edition, memory, loading, known, calm, reading>>
      BY <2>4 DEF KeepPolicy, policyVars
    <3> QED BY <1>9, <2>1, <3>1, <3>2, <3>3
  <2>5. CASE /\ attempt' = [attempt EXCEPT ![t].pc = "policy", ![t].since = known[s]]
             /\ BeginReading(t, s)
             /\ UNCHANGED <<edition, memory, loading, known, job>>
    <3> DEFINE a == [attempt[t] EXCEPT !.pc = "policy", !.since = known[s]]
    <3>1. a.pc = "policy" /\ a.since = known[s] /\ a.server = s BY <1>5, <2>3 DEF AttemptRecord
    <3>2. attempt' = [attempt EXCEPT ![t] = a] BY <2>5, Zenon
    <3> HIDE DEF a
    <3>3. /\ attempt'[t].pc = "policy" /\ attempt'[t].since = known[s] /\ attempt'[t].server = s
          /\ \A u \in Threads \ {t} : attempt'[u] = attempt[u]
      BY <1>3, <3>1, <3>2
    <3>4. /\ reading'[t].stage = "departments"
          /\ \A u \in Threads \ {t} : reading'[u] = reading[u] /\ calm'[u] = calm[u]
          /\ calm'[t] => Reloading(s) = {}
      BY <1>3, <2>5 DEF BeginReading, NotReading, PolicyTypes, ReadingRecord, Reloading
    <3>5. Reloading(s)' = {} \/ ~calm'[t] BY <1>6, <2>5, <3>4
    <3>6. ~Passed(t)' BY <2>1, <2>2, <3>3 DEF Passed
    <3>7. attempt'[t].since <= known'[s] BY <1>4, <2>5, <3>3
    <3>8. ReadingAt(t, s)' BY <3>4, <3>5, <3>6, <3>7 DEF ReadingAt, AtPolicy
    <3> QED BY <1>8, <2>1, <2>5, <3>3, <3>4, <3>8
  <2> QED BY <1>14, <2>3, <2>4, <2>5, Zenon DEF Scan
<1>15. ASSUME NEW t \in Threads, LookUpRules(t) PROVE TablesOK' /\ LoadersOK' /\ ReadersOK'
  BY <1>1, <1>2, <1>15, LookupReaders
<1>16. ASSUME NEW t \in Threads, Decide(t) PROVE TablesOK' /\ LoadersOK' /\ ReadersOK'
  <2>1. PICK s \in Servers : s = attempt[t].server BY <1>5
  <2>2. attempt'[t].server = s /\ ReadingAt(t, s)' BY <1>1, <1>16, <2>1, DecideReaders
  <2>3. /\ UNCHANGED <<edition, memory, loading, known, calm, sent>>
        /\ reading' = [reading EXCEPT ![t] = NotReading]
        /\ \E pc : Goto(t, pc)
    BY <1>16, Zenon DEF Decide
  <2>4. \A u \in Threads \ {t} : attempt'[u] = attempt[u] /\ reading'[u] = reading[u]
    BY <1>3, <2>3 DEF Goto, PolicyTypes
  <2> QED BY <1>8, <2>2, <2>3, <2>4
<1>17. ASSUME NEW t \in Threads, Route(t) \/ Fallback(t) PROVE TablesOK' /\ LoadersOK' /\ ReadersOK'
  <2>1. /\ attempt[t].pc \in {"route", "fallback"} /\ UNCHANGED policyVars
        /\ Goto(t, "fallback") \/ \E model : Answered(t, model)
        /\ sent' = sent \/ \E models : sent' = [sent EXCEPT ![t] = models]
    BY <1>17 DEF Route, Fallback, KeepPolicy
  <2>2. /\ attempt'[t].pc # "policy" /\ attempt'[t].since = attempt[t].since
        /\ \A u \in Threads \ {t} : attempt'[u] = attempt[u]
    <3>1. CASE Goto(t, "fallback") BY <1>3, <3>1 DEF Goto, AttemptRecord
    <3>2. ASSUME NEW model, Answered(t, model)
          PROVE  /\ attempt'[t].pc # "policy" /\ attempt'[t].since = attempt[t].since
                 /\ \A u \in Threads \ {t} : attempt'[u] = attempt[u]
      <4> DEFINE a == [attempt[t] EXCEPT !.pc = "answered", !.model = model]
      <4>1. a.pc = "answered" /\ a.since = attempt[t].since BY <1>5 DEF AttemptRecord
      <4>2. attempt' = [attempt EXCEPT ![t] = a] BY <3>2, Zenon DEF Answered
      <4> HIDE DEF a
      <4> QED BY <1>3, <4>1, <4>2
    <3> QED BY <2>1, <3>1, <3>2
  <2>3. \A u \in Threads \ {t} : sent'[u] = sent[u] BY <1>3, <2>1
  <2>4. Passed(t) BY <2>1 DEF Passed
  <2>5. UNCHANGED <<edition, memory, loading, known, calm, reading>> BY <2>1 DEF policyVars
  <2> QED BY <1>9, <2>2, <2>3, <2>4, <2>5
<1>18. ASSUME NEW t \in Threads, (\E kind, action : Record(t, kind, action)) \/ NextCase(t) \/ SeeCancel(t)
       PROVE  TablesOK' /\ LoadersOK' /\ ReadersOK'
  <2>1. /\ attempt[t].pc \in {"answered", "route"} /\ UNCHANGED policyVars /\ sent' = sent
        /\ \/ Goto(t, "over")
           \/ attempt' = [attempt EXCEPT ![t].pc = "route", ![t].case = @ + 1]
    BY <1>18, Zenon DEF Record, NextCase, SeeCancel, KeepPolicy
  <2>2. /\ attempt'[t].pc # "policy" /\ attempt'[t].since = attempt[t].since
        /\ \A u \in Threads \ {t} : attempt'[u] = attempt[u]
    <3>1. CASE Goto(t, "over") BY <1>3, <3>1 DEF Goto, AttemptRecord
    <3>2. CASE attempt' = [attempt EXCEPT ![t].pc = "route", ![t].case = @ + 1]
      <4> DEFINE a == [attempt[t] EXCEPT !.pc = "route", !.case = @ + 1]
      <4>1. a.pc = "route" /\ a.since = attempt[t].since BY <1>5 DEF AttemptRecord
      <4>2. attempt' = [attempt EXCEPT ![t] = a] BY <3>2, Zenon
      <4> HIDE DEF a
      <4> QED BY <1>3, <4>1, <4>2
    <3> QED BY <2>1, <3>1, <3>2
  <2>3. Passed(t) BY <2>1 DEF Passed
  <2>4. UNCHANGED <<edition, memory, loading, known, calm, reading>> BY <2>1 DEF policyVars
  <2> QED BY <1>9, <2>1, <2>2, <2>3, <2>4
<1>19. ASSUME NEW s \in Servers, ReloadPolicies(s) PROVE TablesOK' /\ LoadersOK' /\ ReadersOK'
  <2>0. PICK l \in Loaders : l = [of |-> s, nr |-> 0] BY DEF Loaders, Reloaders
  <2>1. /\ EmptyDepartments(l, s, [u \in Threads |-> Reads(u)])
        /\ UNCHANGED <<edition, reading, known, job, attempt, counted, trail, sent>>
    BY <1>19, <2>0, Zenon DEF ReloadPolicies
  <2>3. /\ TablesOK' /\ LoadersOK'
        /\ memory'[s].global = memory[s].global
        /\ \A r \in Servers \ {s} : memory'[r] = memory[r] /\ Reloading(r)' = Reloading(r)
    BY <1>3, <2>1, EmptyStep
  <2>4. \A u \in Threads :
          /\ calm'[u] => calm[u]
          /\ AtPolicy(u, Looking) /\ attempt[u].server = s => ~calm'[u]
    BY <2>1, BeginDisturbs
  <2>5. \A u \in Threads \ {} :
           /\ attempt'[u] = attempt[u] /\ reading'[u] = reading[u] /\ sent'[u] = sent[u]
           /\ calm'[u] => calm[u]
           /\ \A r \in Servers : r = attempt[u].server /\ AtPolicy(u, Looking) /\ calm[u] /\ calm'[u]
                /\ Reloading(r) = {} => Reloading(r)' = {} /\ memory'[r].global = memory[r].global
    BY <2>1, <2>3, <2>4
  <2>6. {} \in SUBSET Threads OBVIOUS
  <2>7. \A t \in {} : \E r \in Servers : r = attempt'[t].server /\ ReadingAt(t, r)' OBVIOUS
  <2>8. edition' >= edition /\ \A r \in Servers : known'[r] >= known[r] BY <1>4, <2>1
  <2>9. ReadersOK' BY <1>1, <1>2, <2>5, <2>6, <2>7, <2>8, ReadersKept
  <2> QED BY <2>3, <2>9
<1>20. ASSUME NEW l \in Loaders, Reload(l) PROVE TablesOK' /\ LoadersOK' /\ ReadersOK'
  <2>1. ReloadStep(l) /\ UNCHANGED <<edition, reading, plan, job, attempt, counted, trail, sent>>
    BY <1>20 DEF Reload
  <2>2. /\ TablesOK' /\ LoadersOK'
        /\ \A r \in Servers : Reloading(r)' \subseteq Reloading(r) /\ known'[r] >= known[r]
        /\ \A r \in Servers : l \notin Reloading(r) => memory'[r] = memory[r]
        /\ calm' = calm
    BY <1>3, <2>1, ReloadMoves
  <2>3. \A u \in Threads \ {} :
           /\ attempt'[u] = attempt[u] /\ reading'[u] = reading[u] /\ sent'[u] = sent[u]
           /\ calm'[u] => calm[u]
           /\ \A r \in Servers : r = attempt[u].server /\ AtPolicy(u, Looking) /\ calm[u] /\ calm'[u]
                /\ Reloading(r) = {} => Reloading(r)' = {} /\ memory'[r].global = memory[r].global
    BY <2>1, <2>2
  <2>4. {} \in SUBSET Threads OBVIOUS
  <2>5. \A t \in {} : \E r \in Servers : r = attempt'[t].server /\ ReadingAt(t, r)' OBVIOUS
  <2>6. edition' >= edition /\ \A r \in Servers : known'[r] >= known[r] BY <1>4, <2>1, <2>2
  <2>7. ReadersOK' BY <1>1, <1>2, <2>3, <2>4, <2>5, <2>6, ReadersKept
  <2> QED BY <2>2, <2>7
<1>21. CASE EditPolicies
  <2>1. edition' = edition + 1 /\ UNCHANGED <<memory, loading, reading, known, calm, attempt, sent>>
    BY <1>21 DEF EditPolicies, EditFiles
  <2>2. \A r \in Servers : Reloading(r)' = Reloading(r) BY <2>1 DEF Reloading
  <2>3. LoadersOK'
    <3>1. \A l \in Loaders : loading[l].began \in Nat BY <1>3, HeldRules
    <3> QED BY <1>4, <2>1, <3>1 DEF LoadersOK
  <2>4. edition' >= edition BY <1>4, <2>1
  <2>5. ASSUME NEW s \in Servers, NEW f \in Files PROVE Provided(s, f)'
    <3>1. /\ Provided(s, f) /\ known'[s] = known[s] /\ Reloading(s)' = Reloading(s)
          /\ \A l \in Reloading(s) : loading'[l] = loading[l]
          /\ \A rule \in RuleSet : Holds(s, rule) => Holds(s, rule)'
      BY <2>1, <2>2 DEF TablesOK, Holds
    <3> QED BY <1>3, <1>4, <2>4, <3>1, ProvidedKept
  <2>6. TablesOK' BY <2>5 DEF TablesOK
  <2>7. \A u \in Threads \ {} :
           /\ attempt'[u] = attempt[u] /\ reading'[u] = reading[u] /\ sent'[u] = sent[u]
           /\ calm'[u] => calm[u]
           /\ \A r \in Servers : r = attempt[u].server /\ AtPolicy(u, Looking) /\ calm[u] /\ calm'[u]
                /\ Reloading(r) = {} => Reloading(r)' = {} /\ memory'[r].global = memory[r].global
    BY <2>1, <2>2
  <2>8. {} \in SUBSET Threads OBVIOUS
  <2>9. \A t \in {} : \E r \in Servers : r = attempt'[t].server /\ ReadingAt(t, r)' OBVIOUS
  <2>10. edition' >= edition /\ \A r \in Servers : known'[r] >= known[r] BY <1>4, <2>1, <2>4
  <2>11. ReadersOK' BY <1>1, <1>2, <2>7, <2>8, <2>9, <2>10, ReadersKept
  <2> QED BY <2>3, <2>6, <2>11
<1> QED BY <1>10, <1>11, <1>12, <1>13, <1>14, <1>15, <1>16, <1>17, <1>18, <1>19, <1>20, <1>21,
           Zenon DEF GatewayNext, RecordQuery, RecordChat

-----------------------------------------------------------------------------
(* The inductive invariant of the governed requests. *)
GatewayInv ==
  /\ GatewayTypeOK /\ JobsOK
  /\ SendingOK
  /\ CountsOK /\ ReviewsEarned
  /\ TablesOK /\ LoadersOK /\ ReadersOK

(* It holds initially. *)
LEMMA GatewayStarts == GatewayInit => GatewayInv
<1> SUFFICES ASSUME GatewayInit PROVE GatewayInv OBVIOUS
<1>1. GatewayTypeOK BY InitTypes
<1>2. PolicyTypes BY <1>1, TypesParts
<1>3. /\ job = [r \in Requests |-> [status |-> "new", attempts |-> 0]]
      /\ attempt = [t \in Threads |-> [pc |-> "idle", server |-> CHOOSE s \in Servers : TRUE,
                                       since |-> 1, model |-> "none", case |-> 1]]
      /\ counted = [s \in Servers |-> [a \in Actors |-> 0]] /\ trail = {}
      /\ sent = [t \in Threads |-> {}] /\ PolicyInit
  BY DEF GatewayInit
<1>4. /\ edition = 1 /\ loading = [l \in Loaders |-> NotLoading] /\ reading = [t \in Threads |-> NotReading]
      /\ known = [s \in Servers |-> 1] /\ calm = [t \in Threads |-> FALSE]
      /\ memory = [s \in Servers |-> [t \in {"global", "department"} |->
          {r \in UNION {Loadable(Editions[1][f]) : f \in Files} : r.table = t}]]
  BY <1>3 DEF PolicyInit
<1>5. JobsOK BY <1>3, ThreadTypes DEF JobsOK
<1>6. SendingOK BY <1>3 DEF SendingOK, SentAt, LocalAt, RecordedAt
<1>7. CountsOK
  <2> SUFFICES ASSUME NEW s \in Servers, NEW a \in Actors PROVE counted[s][a] <= Cardinality(Scanned(s, a))
    BY DEF CountsOK
  <2>1. counted[s][a] = 0 BY <1>3
  <2> QED BY <2>1, ScannedFinite
<1>8. ReviewsEarned BY <1>3 DEF ReviewsEarned
<1>9. \A l \in Loaders : loading[l].stage = "off" BY <1>4 DEF NotLoading
<1>10. LoadersOK BY <1>4, <1>9 DEF LoadersOK
<1>11. ASSUME NEW s \in Servers, NEW f \in Files PROVE Provided(s, f)
  <2>1. Reloading(s) = {} BY <1>9 DEF Reloading
  <2>2. ASSUME NEW rule \in Loadable(Editions[1][f]) PROVE Holds(s, rule)
    <3>1. rule.table \in {"global", "department"} BY <1>2, EditionTypes, HeldRules
    <3>2. rule \in UNION {Loadable(Editions[1][g]) : g \in Files} OBVIOUS
    <3> QED BY <1>4, <3>1, <3>2 DEF Holds
  <2>3. FileHeld(s, f, 1, << >>) BY <1>4, <2>1, <2>2 DEF FileHeld
  <2> QED BY <2>3, EditionTypes DEF Provided
<1>12. ReadersOK
  <2> SUFFICES ASSUME NEW t \in Threads PROVE \E s \in Servers : s = attempt[t].server /\ ReadingAt(t, s)
    BY DEF ReadersOK
  <2>1. attempt[t].pc = "idle" /\ ~calm[t] /\ attempt[t].server \in Servers
    BY <1>3, <1>4, DeploymentAssumption
  <2> QED BY <2>1 DEF ReadingAt, AtPolicy
<1> QED BY <1>1, <1>5, <1>6, <1>7, <1>8, <1>10, <1>11, <1>12 DEF GatewayInv, TablesOK

(* Every step keeps it. *)
LEMMA GatewayStep == GatewayInv /\ [GatewayNext]_gatewayVars => GatewayInv'
BY JobsStep, SendingStep, CountsStep, RulesStep DEF GatewayInv

(* It holds always. *)
LEMMA GatewayInvariant == GatewaySpec => []GatewayInv
BY GatewayStarts, GatewayStep, PTL DEF GatewaySpec

(* The state of the governed requests has its types, the job's second        *)
(* attempt being its last.                                                   *)
THEOREM GatewayTypes == GatewaySpec => []GatewayTypeOK
<1>1. GatewayInv => GatewayTypeOK BY DEF GatewayInv
<1> QED BY <1>1, GatewayInvariant, PTL

(* A prompt that the policies block in every edition its process can have    *)
(* loaded is given to no model, for any rules files, edited and reloaded at  *)
(* any time in any number of processes, unless a reload begins in its        *)
(* process while it reads: PolicyEngine.evaluate and load_policies.          *)
THEOREM BlockedStays == GatewaySpec => []BlockedStaysUnsent
<1>1. GatewayInv => BlockedStaysUnsent BY ReadersSay DEF GatewayInv
<1> QED BY <1>1, GatewayInvariant, PTL

(* What the scanners or the masking proxy score above 7 on /ask, and every   *)
(* prompt of the benchmark, is given to local models only, through failures  *)
(* of adapters, timeouts and retries: ModelRouter.route.                     *)
THEOREM HotStaysLocal == GatewaySpec => []AskedHotStaysLocal
<1>1. GatewayInv => AskedHotStaysLocal BY SendingSays DEF GatewayInv
<1> QED BY <1>1, GatewayInvariant, PTL

(* An attempt that gave a user's prompt to a model and came to its end is in *)
(* the ledger, even if the queue had given it up: the handlers of /ask and   *)
(* chat.                                                                     *)
THEOREM AnswersAreRecorded == GatewaySpec => []SentIsRecorded
<1>1. GatewayInv => SentIsRecorded BY SendingSays DEF GatewayInv
<1> QED BY <1>1, GatewayInvariant, PTL

(* Nobody is put up for review on fewer than two requests of his own with    *)
(* PII in them, although a retry counts its prompt again:                    *)
(* record_interception.                                                      *)
THEOREM ReviewsAreEarned == GatewaySpec => []ReviewsEarned
<1>1. GatewayInv => ReviewsEarned BY DEF GatewayInv
<1> QED BY <1>1, GatewayInvariant, PTL
=============================================================================
