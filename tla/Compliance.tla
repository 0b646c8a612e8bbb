----------------------------- MODULE Compliance -----------------------------
(***************************************************************************)
(* The compliance score: incidents are appended to dpb_incidents.jsonl by  *)
(* backend/compliance/dpdp_engine.py, and GET /compliance/score reads the  *)
(* ledger's totals, verifies its chain, reads the incidents and counts the *)
(* rules, one after the other, for backend/reporting/compliance_scorer.py  *)
(* to grade.                                                               *)
(***************************************************************************)
EXTENDS Integers, Sequences, FiniteSets

CONSTANTS
  Officers,            \* threads that report incidents
  Assessors,           \* threads that serve the score
  MaxIncidents, MaxAffairs, MaxScores  \* bounds

ASSUME ComplianceAssumption ==
  IsFiniteSet(Officers) /\ {MaxIncidents, MaxAffairs, MaxScores} \subseteq Nat

VARIABLES
  incidentLog,  \* the lines of the file, who began its last line, whether one is garbled
  filing,       \* the report each officer has half written
  told,         \* reports that are to be submitted and were returned to their officer
  affairs,      \* what the ledger and the policy engine hold, and changes of it so far
  assessment,   \* the call each assessor serves
  scores        \* calls begun so far

complianceVars == <<incidentLog, filing, told, affairs, assessment, scores>>

-----------------------------------------------------------------------------
(* The grades. *)

Floor(n) == IF n < 0 THEN 0 ELSE n
Off(points, when) == IF when THEN points ELSE 0

DpdpScore(open) == Floor(100 - 15 * open)

(* "unredacted": more than five events and none of them redacted anything. *)
(* The route says nothing of MFA, and so none has it.                      *)
Hipaa(activity, intact, open) ==
  Floor(100 - Off(40, ~intact) - Off(15, activity = "unredacted") - 10 * open - 10)
Gdpr(intact, rules, open) == Floor(100 - Off(35, ~intact) - Off(20, rules < 1) - 8 * open)
Iso(intact, rules, open) ==
  Floor(100 - Off(30, ~intact) - Off(15, rules < 3) - 20 - Off(25, open > 2))

(* round(): to the nearest, and to the even one of two that are as near.   *)
RoundPercent(n) ==
  LET low == n \div 100  rest == n % 100
  IN IF rest > 50 \/ (rest = 50 /\ low % 2 = 1) THEN low + 1 ELSE low

Grade(score) ==
  CASE score >= 90 -> "A" [] score >= 75 -> "B" [] score >= 60 -> "C" [] score >= 40 -> "D"
    [] OTHER -> "F"

Card(activity, intact, open, rules) ==
  LET composite == RoundPercent(35 * Hipaa(activity, intact, open) + 35 * Gdpr(intact, rules, open)
                                + 20 * Iso(intact, rules, open) + 10 * DpdpScore(open))
  IN [composite |-> composite, grade |-> Grade(composite), open |-> open,
      badge |-> open = 0 /\ intact]

-----------------------------------------------------------------------------
Statuses == {"PENDING_SUBMISSION", "TEST_MODE"}
Activities == {"little", "unredacted", "redacted"}
RuleCounts == {0, 1, 3}
NoCard == [composite |-> 0, grade |-> "F", open |-> 0, badge |-> FALSE]
NoScore == [step |-> "idle", activity |-> "little", intact |-> FALSE, open |-> 0,
            toldBefore |-> 0, everIntact |-> FALSE, everRuled |-> FALSE, card |-> NoCard]
Pending(lines) == Cardinality({n \in DOMAIN lines : lines[n] = "PENDING_SUBMISSION"})

ComplianceTypeOK ==
  /\ incidentLog.lines \in Seq(Statuses) /\ incidentLog.count \in 0 .. MaxIncidents
  /\ incidentLog.begun \in BOOLEAN /\ incidentLog.garbled \in BOOLEAN
  /\ filing \in [Officers -> Statuses \cup {"none"}]
  /\ told \in 0 .. MaxIncidents + 2
  /\ affairs \in [activity : Activities, intact : BOOLEAN, rules : RuleCounts, count : 0 .. MaxAffairs]
  /\ assessment \in [Assessors ->
       [step : {"idle", "stats", "chain", "incidents", "rules", "answered", "failed"},
        activity : Activities, intact : BOOLEAN, open : 0 .. MaxIncidents + 2,
        toldBefore : 0 .. MaxIncidents + 2, everIntact : BOOLEAN, everRuled : BOOLEAN,
        card : [composite : 0 .. 100, grade : {"A", "B", "C", "D", "F"},
                open : 0 .. MaxIncidents + 2, badge : BOOLEAN]]]
  /\ scores \in 0 .. MaxScores

(* With, and without, incidents of an earlier day.                         *)
ComplianceInit ==
  /\ \E lines \in {<< >>, <<"PENDING_SUBMISSION", "PENDING_SUBMISSION">>} :
       /\ incidentLog = [lines |-> lines, begun |-> FALSE, garbled |-> FALSE, count |-> 0]
       /\ told = Len(lines)
  /\ filing = [o \in Officers |-> "none"]
  /\ affairs = [activity |-> "little", intact |-> TRUE, rules |-> 3, count |-> 0]
  /\ assessment = [a \in Assessors |-> NoScore]
  /\ scores = 0

-----------------------------------------------------------------------------
(* Reports. *)

(* A line after one that was begun and not ended is read as part of it.    *)
Appended(log, status) ==
  IF log.begun THEN [log EXCEPT !.garbled = TRUE] ELSE [log EXCEPT !.lines = Append(@, status)]

Told(status) == IF status = "PENDING_SUBMISSION" THEN told + 1 ELSE told

Report(o, status) ==
  /\ filing[o] = "none" /\ incidentLog.count < MaxIncidents
  /\ incidentLog' = [Appended(incidentLog, status) EXCEPT !.count = @ + 1]
  /\ told' = Told(status)
  /\ UNCHANGED <<filing, affairs, assessment, scores>>

(* One that is longer than the file's buffer is written in parts.          *)
BeginReport(o, status) ==
  /\ filing[o] = "none" /\ incidentLog.count < MaxIncidents
  /\ incidentLog' = [incidentLog EXCEPT !.garbled = @ \/ incidentLog.begun, !.begun = TRUE,
                                        !.count = @ + 1]
  /\ filing' = [filing EXCEPT ![o] = status]
  /\ UNCHANGED <<told, affairs, assessment, scores>>

(* The last part ends the line; alone, it is a line that does not parse.   *)
EndReport(o) ==
  /\ filing[o] # "none"
  /\ incidentLog' = IF incidentLog.garbled THEN incidentLog
                    ELSE [incidentLog EXCEPT !.begun = FALSE, !.lines = Append(@, filing[o])]
  /\ told' = Told(filing[o])
  /\ filing' = [filing EXCEPT ![o] = "none"]
  /\ UNCHANGED <<affairs, assessment, scores>>

KillOfficer(o) ==
  /\ filing[o] # "none"
  /\ filing' = [filing EXCEPT ![o] = "none"]
  /\ UNCHANGED <<incidentLog, told, affairs, assessment, scores>>

(* What a call could have met at some moment of it.                        *)
Met(now) == [a \in Assessors |->
  IF assessment[a].step \in {"answered", "failed"} THEN assessment[a]
  ELSE [assessment[a] EXCEPT !.everIntact = @ \/ now.intact, !.everRuled = @ \/ now.rules > 0]]

Become(now) ==
  /\ affairs.count < MaxAffairs
  /\ affairs' = [now EXCEPT !.count = @ + 1]
  /\ assessment' = Met(now)
  /\ UNCHANGED <<incidentLog, filing, told, scores>>

(* The ledger grows, breaks or is resealed.                                *)
LedgerGrows(activity) ==
  affairs.activity # "redacted" /\ activity # "little" /\ Become([affairs EXCEPT !.activity = activity])

LedgerTurns == Become([affairs EXCEPT !.intact = ~@])

(* The policies are reloaded, with other rules.                            *)
ReloadRules(rules) == Become([affairs EXCEPT !.rules = rules])

-----------------------------------------------------------------------------
(* The score. *)

BeginScore(a) ==
  /\ assessment[a].step \in {"idle", "answered", "failed"} /\ scores < MaxScores
  /\ scores' = scores + 1
  /\ assessment' = [assessment EXCEPT ![a] =
       [NoScore EXCEPT !.step = "stats", !.toldBefore = told, !.everIntact = affairs.intact,
                       !.everRuled = affairs.rules > 0]]
  /\ UNCHANGED <<incidentLog, filing, told, affairs>>

Assessed(a, call) ==
  /\ assessment' = [assessment EXCEPT ![a] = call]
  /\ UNCHANGED <<incidentLog, filing, told, affairs, scores>>

ReadStats(a) ==
  /\ assessment[a].step = "stats"
  /\ Assessed(a, [assessment[a] EXCEPT !.step = "chain", !.activity = affairs.activity])

VerifyTrail(a) ==
  /\ assessment[a].step = "chain"
  /\ Assessed(a, [assessment[a] EXCEPT !.step = "incidents", !.intact = affairs.intact])

(* A line that does not parse fails the call.                              *)
CountIncidents(a) ==
  /\ assessment[a].step = "incidents"
  /\ IF incidentLog.begun \/ incidentLog.garbled
       THEN Assessed(a, [assessment[a] EXCEPT !.step = "failed"])
       ELSE Assessed(a, [assessment[a] EXCEPT !.step = "rules", !.open = Pending(incidentLog.lines)])

CountRules(a) ==
  /\ assessment[a].step = "rules"
  /\ Assessed(a, [assessment[a] EXCEPT !.step = "answered",
       !.card = Card(assessment[a].activity, assessment[a].intact, assessment[a].open, affairs.rules)])

ComplianceNext ==
  \/ \E o \in Officers :
       \/ \E status \in Statuses : Report(o, status) \/ BeginReport(o, status)
       \/ EndReport(o) \/ KillOfficer(o)
  \/ \E activity \in Activities : LedgerGrows(activity)
  \/ LedgerTurns
  \/ \E rules \in RuleCounts : ReloadRules(rules)
  \/ \E a \in Assessors :
       BeginScore(a) \/ ReadStats(a) \/ VerifyTrail(a) \/ CountIncidents(a) \/ CountRules(a)

ComplianceSpec == ComplianceInit /\ [][ComplianceNext]_complianceVars

-----------------------------------------------------------------------------
(* An answer leaves out no incident that was reported before the call,     *)
(* however its line was written; the best grade is given only where the    *)
(* chain was whole and a rule in force at some moment of the call, though  *)
(* the four readings are of four moments.                                  *)
GradesEarned ==
  \A a \in Assessors : assessment[a].step = "answered" =>
    LET card == assessment[a].card IN
    /\ card.open >= assessment[a].toldBefore
    /\ card.badge => assessment[a].toldBefore = 0 /\ assessment[a].everIntact
    /\ card.grade = "A" => card.badge /\ assessment[a].everRuled

=============================================================================
