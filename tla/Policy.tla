------------------------------- MODULE Policy -------------------------------
(***************************************************************************)
(* The policy engine of backend/policy/policy_engine.py: YAML files on     *)
(* disk, a copy of their rules in the memory of every server process, and  *)
(* the threads that rebuild and read that copy without a lock.  A reload   *)
(* empties both tables first and then fills them rule by rule; a reader    *)
(* looks at one table after the other.                                     *)
(***************************************************************************)
EXTENDS Naturals, Sequences, FiniteSets, Deployment

CONSTANTS
  Threads,      \* the threads that serve requests
  Files,        \* the YAML files in presets/ and policies/
  Editions      \* what the files hold, edition after edition

ASSUME EditionsAssumption ==
  Editions \in Seq([Files -> Seq([table : {"global", "department"}, dept : STRING,
     entities : SUBSET STRING, keywords : SUBSET STRING, enforcement : STRING,
     threshold : Nat, models : SUBSET STRING])]) /\ Editions # << >>

VARIABLES
  edition,      \* the edition on disk
  memory,       \* the rules each process holds in its two tables
  loading,      \* where each thread is in reload
  reading,      \* where each thread is in _get_rules_for, and what it has read
  known,        \* a history: the edition that a process has loaded at least
  calm          \* a history: no reload ran beside the thread's reading

policyVars == <<edition, memory, loading, reading, known, calm>>

-----------------------------------------------------------------------------
(* One reload thread per process stands for POLICY RELOAD and start-up;    *)
(* request threads reload when they find both tables empty.                *)
Reloaders == [of : Servers, nr : {0}]
Loaders == Threads \cup Reloaders

RuleSet == UNION {UNION {{Editions[e][f][i] : i \in DOMAIN Editions[e][f]}
                           : f \in Files} : e \in DOMAIN Editions}
NotLoading == [stage |-> "off", server |-> CHOOSE s \in Servers : TRUE,
               files |-> {}, data |-> << >>, began |-> 1]
NotReading == [stage |-> "off", rules |-> {}]

PolicyTypeOK ==
  /\ edition \in DOMAIN Editions
  /\ memory \in [Servers -> [global : SUBSET RuleSet, department : SUBSET RuleSet]]
  /\ loading \in [Loaders -> [stage : {"off", "begun", "emptied", "files"},
        server : Servers, files : SUBSET Files, data : Seq(RuleSet),
        began : DOMAIN Editions]]
  /\ reading \in [Threads -> [stage : {"off", "departments", "globals", "reload",
        "first", "second", "read"}, rules : SUBSET RuleSet]]
  /\ known \in [Servers -> DOMAIN Editions]
  /\ calm \in [Threads -> BOOLEAN]

(* EnforcementLevel(...) raises on any other word. *)
Enforcements == {"warn", "redact", "block"}
Parses(rule) == rule.enforcement \in Enforcements

(* What _load_file keeps of a file: the rules before the first bad one. *)
Loadable(rules) ==
  {rules[i] : i \in {k \in DOMAIN rules : \A j \in 1 .. k : Parses(rules[j])}}

(***************************************************************************)
(* evaluate.  A prompt comes with its labels, words, risk score,           *)
(* department and preferred model ("none": not given).                     *)
(***************************************************************************)
(* A threshold of 0 is no threshold: the code tests it for truth. *)
Matched(rule, prompt) ==
  \/ rule.entities \cap prompt.labels # {}
  \/ rule.keywords \cap prompt.words # {}
  \/ rule.threshold # 0 /\ prompt.score >= rule.threshold

Triggered(rules, prompt) == {r \in rules : Matched(r, prompt)}

Blocked(rules, prompt) ==
  \E r \in Triggered(rules, prompt) : r.enforcement = "block"

ModelAllowed(rules, prompt) ==
  \A r \in Triggered(rules, prompt) :
    r.models = {} \/ prompt.model = "none" \/ prompt.model \in r.models

(* The rules that concern a department: all global ones and its own. *)
Concerns(rule, dept) == rule.table = "global" \/ rule.dept = dept

-----------------------------------------------------------------------------
PolicyInit ==
  /\ edition = 1
  /\ memory = [s \in Servers |->
       [t \in {"global", "department"} |->
          {r \in UNION {Loadable(Editions[1][f]) : f \in Files} : r.table = t}]]
  /\ loading = [l \in Loaders |-> NotLoading]
  /\ reading = [t \in Threads |-> NotReading]
  /\ known = [s \in Servers |-> 1]
  /\ calm = [t \in Threads |-> FALSE]

(* An administrator replaces the files by the next edition. *)
EditFiles ==
  /\ edition < Len(Editions)
  /\ edition' = edition + 1
  /\ UNCHANGED <<memory, loading, reading, known, calm>>

(***************************************************************************)
(* reload, by a thread l in process s.                                     *)
(***************************************************************************)
(* self._policies = {}; at says which threads read in process s. *)
EmptyDepartments(l, s, at) ==
  /\ loading[l].stage = "off"
  /\ loading' = [loading EXCEPT ![l] =
       [stage |-> "begun", server |-> s, files |-> Files, data |-> << >>, began |-> edition]]
  /\ memory' = [memory EXCEPT ![s].department = {}]
  /\ calm' = [t \in Threads |-> calm[t] /\ at[t] # s]

(* self._global_rules = [] *)
EmptyGlobals(l) ==
  /\ loading[l].stage = "begun"
  /\ loading' = [loading EXCEPT ![l].stage = "files"]
  /\ memory' = [memory EXCEPT ![loading[l].server].global = {}]
  /\ UNCHANGED <<known, calm>>

(* The next file of os.listdir, in any order, is read as a whole. *)
ReadFile(l) ==
  /\ loading[l].stage = "files" /\ loading[l].data = << >>
  /\ \E f \in loading[l].files :
       loading' = [loading EXCEPT ![l].files = @ \ {f}, ![l].data = Editions[edition][f]]
  /\ UNCHANGED <<memory, known, calm>>

(* A rule is appended; a bad one drops the rest of its file. *)
AddRule(l) ==
  LET ld == loading[l] rule == Head(ld.data) IN
  /\ ld.stage = "files" /\ ld.data # << >>
  /\ IF Parses(rule)
       THEN /\ memory' = [memory EXCEPT ![ld.server][rule.table] = @ \cup {rule}]
            /\ loading' = [loading EXCEPT ![l].data = Tail(@)]
       ELSE /\ loading' = [loading EXCEPT ![l].data = << >>]
            /\ UNCHANGED memory
  /\ UNCHANGED <<known, calm>>

EndReload(l) ==
  LET ld == loading[l] IN
  /\ ld.stage = "files" /\ ld.data = << >> /\ ld.files = {}
  /\ loading' = [loading EXCEPT ![l] = NotLoading]
  /\ known' = [known EXCEPT ![ld.server] = IF ld.began > @ THEN ld.began ELSE @]
  /\ UNCHANGED <<memory, calm>>

ReloadStep(l) == EmptyGlobals(l) \/ ReadFile(l) \/ AddRule(l) \/ EndReload(l)

-----------------------------------------------------------------------------
(***************************************************************************)
(* _get_rules_for, by the request thread t in process s for a department.  *)
(* The two tests and the two reads are four separate looks at memory.      *)
(***************************************************************************)
BeginReading(t, s) ==
  /\ reading' = [reading EXCEPT ![t] = [NotReading EXCEPT !.stage = "departments"]]
  /\ calm' = [calm EXCEPT ![t] =
       \A l \in Loaders : loading[l].stage # "off" => loading[l].server # s]

TestDepartments(t, s) ==
  /\ reading[t].stage = "departments"
  /\ reading' = [reading EXCEPT ![t].stage =
       IF memory[s].department = {} THEN "globals" ELSE "first"]
  /\ UNCHANGED <<memory, loading, known, calm>>

TestGlobals(t, s) ==
  /\ reading[t].stage = "globals"
  /\ reading' = [reading EXCEPT ![t].stage =
       IF memory[s].global = {} THEN "reload" ELSE "first"]
  /\ UNCHANGED <<memory, loading, known, calm>>

(* Both tables empty: the thread reloads for itself before it reads. *)
ReloadFirst(t, s, at) ==
  /\ reading[t].stage = "reload"
  /\ EmptyDepartments(t, s, at)
  /\ reading' = [reading EXCEPT ![t].stage = "first"]
  /\ UNCHANGED known

ReadGlobals(t, s) ==
  /\ reading[t].stage = "first" /\ loading[t].stage = "off"
  /\ reading' = [reading EXCEPT ![t] = [stage |-> "second", rules |-> memory[s].global]]
  /\ UNCHANGED <<memory, loading, known, calm>>

(* Faulty variant: the rules of a department replace the global ones. *)
ReadDepartmentOver(t, s, dept) ==
  LET own == {r \in memory[s].department : r.dept = dept} IN
  /\ reading[t].stage = "second"
  /\ reading' = [reading EXCEPT ![t].stage = "read", ![t].rules = IF own = {} THEN @ ELSE own]
  /\ UNCHANGED <<memory, loading, known, calm>>

ReadDepartment(t, s, dept) ==
  /\ reading[t].stage = "second"
  /\ reading' = [reading EXCEPT ![t].stage = "read",
       ![t].rules = @ \cup {r \in memory[s].department : r.dept = dept}]
  /\ UNCHANGED <<memory, loading, known, calm>>

Lookup(t, s, dept, at) ==
  \/ TestDepartments(t, s)
  \/ TestGlobals(t, s)
  \/ ReloadFirst(t, s, at)
  \/ ReadGlobals(t, s)
  \/ ReadDepartment(t, s, dept)

(* Every rule of this edition and later ones, up to now, that concerns a   *)
(* department blocks the prompt: what a reader that was not disturbed has  *)
(* to see.                                                                 *)
AlwaysBlocked(prompt, since) ==
  \E f \in Files : \A e \in since .. edition :
    Blocked({r \in Loadable(Editions[e][f]) : Concerns(r, prompt.dept)}, prompt)
=============================================================================
