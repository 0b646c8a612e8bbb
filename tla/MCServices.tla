----------------------------- MODULE MCServices -----------------------------
(* The services on small instances.                                        *)
EXTENDS Services, TLC

MCRequests == {"q1", "q2"}
MCThreads == [of : MCRequests, nr : 1 .. 2]

-----------------------------------------------------------------------------
(* Rules of presets/hospital.yaml and global rules, and a second edition   *)
(* of them, with a misspelt enforcement that drops the rest of its file.   *)
Rule(table, dept, entities, keywords, enforcement, threshold, models) ==
  [table |-> table, dept |-> dept, entities |-> entities, keywords |-> keywords,
   enforcement |-> enforcement, threshold |-> threshold, models |-> models]
BlockPHI == Rule("department", "HOSPITAL", {"UHID"}, {"mrn"}, "block", 700, {})
Clinical == Rule("department", "HOSPITAL", {}, {"biopsy"}, "redact", 400,
                 {"ollama/llama3.1", "openai/gpt-4o"})
Unapproved == Rule("department", "HOSPITAL", {}, {}, "block", 0,
                   {"ollama/llama3.1", "openai/gpt-4o"})
BlockSecret == Rule("global", "", {"AWS Key"}, {}, "block", 500, {})
Misspelt == Rule("global", "", {}, {"mrn"}, "blok", 500, {})
MCFiles == {"global.yaml", "hospital.yaml"}
MCEditions ==
  << "global.yaml" :> <<BlockSecret>> @@ "hospital.yaml" :> <<BlockPHI, Clinical, Unapproved>>,
     "global.yaml" :> <<Misspelt, BlockSecret>> @@ "hospital.yaml" :> <<Clinical, BlockPHI>> >>

MCProvider ==
  "ollama/llama3.1" :> "ollama" @@ "openai/gpt-4o" :> "openai" @@ "gemini/pro" :> "gemini"
AllAdapters == {"ollama", "openai", "gemini"}

(* Prompts. *)
Find(span, type, label, high) == [span |-> span, type |-> type, label |-> label, high |-> high]
Ask(actor, findings, concepts, injections, hits, words, model) ==
  [kind |-> "ask", actor |-> actor, findings |-> findings, concepts |-> concepts,
   injections |-> injections, hits |-> hits, words |-> words, dept |-> "HOSPITAL",
   model |-> model]
Patient == Ask("ann", <<Find(1, "INDIA_PII", "UHID", FALSE)>>, << >>, {}, {}, {"mrn"}, "openai/gpt-4o")
Secret == Ask("ann", <<Find(1, "SECRET", "AWS Key", TRUE)>>, << >>, {}, {}, {}, "openai/gpt-4o")
Hot == Ask("bob", << >>, <<[label |-> "Trade Secret", score |-> 100], [label |-> "M&A", score |-> 80],
                           [label |-> "Health", score |-> 20]>>, {}, {}, {}, "openai/gpt-4o")
Passports == Ask("ann", <<Find(1, "PII", "Passport", TRUE), Find(2, "PII", "Passport", TRUE),
                          Find(3, "INDIA_PII", "PAN", TRUE), Find(4, "INDIA_PII", "Aadhaar", TRUE)>>,
                 << >>, {}, {}, {}, "openai/gpt-4o")
Bypass == Ask("ann", <<Find(1, "PII", "Passport", TRUE)>>, << >>, {"Redaction Bypass"},
              {"Data Exfiltration Intent"}, {}, "none")
Biopsy == Ask("bob", << >>, << >>, {}, {}, {"biopsy"}, "gemini/pro")
Plain == Ask("bob", << >>, << >>, {}, {}, {}, "gemini/pro")
Chat == [Passports EXCEPT !.kind = "chat"]
Benchmark == [Plain EXCEPT !.kind = "benchmark", !.model = "none"]

PlanOf(a, b, asked, servers, timeouts, mode, adapters, reloads, edits) ==
  [prompt |-> "q1" :> a @@ "q2" :> b, asked |-> asked, servers |-> servers,
   timeouts |-> timeouts, cancels |-> a.kind = "benchmark", mode |-> mode,
   adapters |-> adapters, reloads |-> reloads, edits |-> edits]

(* A prompt to be blocked against a reload of edited rules; retries of an  *)
(* injection that count for somebody else's prompt, or for another prompt  *)
(* of the same actor; hot prompts without, and with, an air gap; the chat  *)
(* route; the benchmark, which may be cancelled; two processes.            *)
MCPlans ==
  {PlanOf(Patient, Plain, {"q1"}, {"p1"}, FALSE, "hybrid", AllAdapters, 1, 1)}
  \cup {PlanOf(Bypass, p, {"q1", "q2"}, {"p1"}, TRUE, "hybrid", AllAdapters, 0, 0)
          : p \in {Passports, [Passports EXCEPT !.actor = "bob"]}}
  \cup {PlanOf(Hot, Passports, {"q1", "q2"}, {"p1"}, FALSE, "cloud", {"openai"}, 0, 0),
        PlanOf(Bypass, Hot, {"q1"}, {"p1"}, TRUE, "airgap", {"ollama"}, 0, 0),
        PlanOf(Chat, Biopsy, {"q1", "q2"}, {"p1"}, TRUE, "hybrid", AllAdapters, 0, 0),
        PlanOf(Benchmark, Plain, {"q1"}, {"p1"}, TRUE, "hybrid", AllAdapters, 0, 0),
        PlanOf(Secret, Plain, {"q1"}, {"p1", "p2"}, FALSE, "hybrid", AllAdapters, 1, 1)}

-----------------------------------------------------------------------------
(* Two interceptions; a fault where one process serves, none where two do. *)
MCMaxRecords == <<2, 2>>
MCMaxRiskFaults == <<1, 0>>

CallOf(path, length, verified, fingerprint, authorization, tokens) ==
  [path |-> path, length |-> length, verified |-> verified, fingerprint |-> fingerprint,
   authorization |-> authorization, host |-> "host", tokens |-> tokens]
MCCalls ==
  {CallOf("suspicious", "none", TRUE, "cert", "none", 0),
   CallOf("open", "large", TRUE, "cert", "none", 0),
   CallOf("open", "malformed", TRUE, "cert", "none", 0),
   CallOf("open", "ok", FALSE, "none", "none", 0),
   CallOf("protected", "ok", TRUE, "cert", "bearer", 2),
   CallOf("protected", "none", FALSE, "none", "bearer", -1)}

MCTerms == {[seats |-> 1, hardware |-> "none", mode |-> "cloud", expires |-> 0],
            [seats |-> 1, hardware |-> "m1", mode |-> "airgap", expires |-> 1]}

(* Two workers that change the registry, one of them killed; two events    *)
(* and a retry; one event, two retries and a kill.                         *)
BudgetOf(w, c, e, r, k) == [workers |-> w, changes |-> c, events |-> e, retries |-> r, kills |-> k]
MCHookBudgets == {BudgetOf(2, 2, 0, 0, 1), BudgetOf(1, 1, 2, 1, 0), BudgetOf(1, 1, 1, 2, 1)}
MCSubscriptions == {{"ping"}, {}}

(* Two documents of one name and a kill; two names over two days; reports  *)
(* alone, with a kill, over three days; a document beside a report.        *)
MCNameOf == "d1" :> "n" @@ "d2" :> "n" @@ "d3" :> "m"
MonitorPlanOf(docs, reporters, kills, days) ==
  [docs |-> docs, reporters |-> reporters, kills |-> kills, days |-> days]
MCMonitorPlans ==
  {MonitorPlanOf({"d1", "d2"}, {}, 1, 0), MonitorPlanOf({"d1", "d3"}, {}, 0, 1),
   MonitorPlanOf({}, {"r1", "r2"}, 1, 2), MonitorPlanOf({"d1"}, {"r1"}, 0, 0)}

(* Two calls that meet in a file, and a kill; three backups and drills; the *)
(* routes that only append and record.                                     *)
DeskPlanOf(errands, calls, kills) == [errands |-> errands, calls |-> calls, kills |-> kills]
MCDeskPlans ==
  {DeskPlanOf(together, 2, 1) : together \in
     {{"backup", "sealed", "drill"}, {"report", "localRep", "demo"}, {"csv", "pdf"},
      {"anchor", "bundle", "branding"}, {"version", "versions"},
      {"schedule", "scheduled", "tenant"}}}
  \cup {DeskPlanOf({"backup", "drill"}, 3, 0),
        DeskPlanOf({"order", "glass", "alert", "pull", "release", "review", "verify", "import",
                    "proof"}, 2, 0)}
=============================================================================
