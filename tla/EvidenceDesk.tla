---------------------------- MODULE EvidenceDesk ----------------------------
(***************************************************************************)
(* The evidence routes of backend/app.py: backups of the ledger, reports,  *)
(* exports, anchors, policy versions and schedules are files under logs/,  *)
(* named after the second they were begun in and written in place; some    *)
(* are recorded on the ledger, which every route reads as it stands.  The  *)
(* restore drill opens the latest backup.  A call is the list of its steps. *)
(***************************************************************************)
EXTENDS Naturals, Sequences, FiniteSets, Access

CONSTANTS
  Clerks,       \* threads that serve the routes
  DeskPlans,    \* the calls a behaviour makes, how many, and its kills
  MaxSecond, MaxTrail  \* bounds

VARIABLES
  deskPlan,     \* the plan of the behaviour
  desk,         \* the call each clerk serves
  evidence,     \* the files
  trailSize,    \* the entries of the ledger
  orders,       \* the lines of kill_switch.jsonl and break_glass.jsonl
  second,       \* the clock
  deskCalls, deskKills,  \* calls begun and processes killed so far
  issued,       \* what answers and ledger entries say files hold
  unsure        \* names two calls wrote under, or a killed process was writing under

deskVars == <<deskPlan, desk, evidence, trailSize, orders, second, deskCalls, deskKills, issued, unsure>>

-----------------------------------------------------------------------------
(* The calls. *)

(* Faulty variant: the digest is taken before the archive is closed.       *)
BackupStepsDigestFirst == <<"open", "read", "digest", "write", "log">>
BackupSteps == <<"open", "read", "write", "digest", "log">>

(* With a passphrase, the archive is read again and encrypted into a file  *)
(* beside it, with a digest of its own.                                    *)
SealedBackupSteps ==
  <<"open", "read", "write", "digest", "seal", "open", "write", "digest", "log">>

(* Three routes let the evidence reporter write a certificate; one of them *)
(* counts an interception in the risk engine and verifies the chain, too.  *)
ReportSteps == <<"read", "totals", "open", "write", "log">>
LocalReportSteps == <<"read", "totals", "open", "write", "log">>
DemoSteps == <<"read", "totals", "open", "write", "log">>

(* The ledger is read before the exporter is asked for the file. *)
CsvSteps == <<"read", "open", "write", "note">>
PdfSteps == <<"read", "totals", "open", "write", "note">>
AnchorSteps == <<"read", "open", "write", "note">>

VersionSteps == <<"open", "write", "note">>
BundleSteps == <<"open", "write", "note">>
BrandingSteps == <<"open", "write", "note">>
ScheduleSteps == <<"open", "write", "log">>

(* Files are read back: an archive, the schedule, all policy versions.     *)
DrillSteps == <<"pick", "test", "log">>
GetScheduleSteps == <<"find", "look", "answer">>
TenantExportSteps == <<"find", "look", "answer">>
VersionListSteps == <<"find", "look", "answer">>

(* What is on the ledger alone, after a line of its own, or after a call   *)
(* to somebody else; the proof names the hash that was the last before.    *)
OrderSteps == <<"append", "log">>
BreakGlassSteps == <<"append", "log">>
AlertSteps == <<"post", "log">>
PullSteps == <<"post", "log">>
ReleaseSteps == <<"log">>
ReviewSteps == <<"log">>
VerifySteps == <<"log">>
ImportSteps == <<"log">>
ProofSteps == <<"read", "log">>

Errand(steps, file, needs) == [steps |-> steps, file |-> file, needs |-> needs]

(* "local": the route asks for a caller on the same host, not for a role.  *)
Errands ==
  [backup    |-> Errand(BackupSteps,       "zip",      "export_audit_pdf"),
   sealed    |-> Errand(SealedBackupSteps, "zip",      "export_audit_pdf"),
   drill     |-> Errand(DrillSteps,        "zip",      "export_audit_pdf"),
   report    |-> Errand(ReportSteps,       "report",   "export_audit_pdf"),
   localRep  |-> Errand(LocalReportSteps,  "report",   "local"),
   demo      |-> Errand(DemoSteps,         "report",   "export_audit_pdf"),
   csv       |-> Errand(CsvSteps,          "csv",      "export_audit_csv"),
   pdf       |-> Errand(PdfSteps,          "pdf",      "export_audit_pdf"),
   anchor    |-> Errand(AnchorSteps,       "anchor",   "export_audit_pdf"),
   version   |-> Errand(VersionSteps,      "version",  "edit_global_policy"),
   versions  |-> Errand(VersionListSteps,  "version",  "view_policy"),
   bundle    |-> Errand(BundleSteps,       "bundle",   "edit_global_policy"),
   branding  |-> Errand(BrandingSteps,     "branding", "manage_users"),
   schedule  |-> Errand(ScheduleSteps,     "schedule", "export_audit_pdf"),
   scheduled |-> Errand(GetScheduleSteps,  "schedule", "export_audit_pdf"),
   tenant    |-> Errand(TenantExportSteps, "schedule", "manage_users"),
   order     |-> Errand(OrderSteps,        "orders",   "manage_users"),
   glass     |-> Errand(BreakGlassSteps,   "orders",   "manage_users"),
   alert     |-> Errand(AlertSteps,        "orders",   "view_audit_log"),
   pull      |-> Errand(PullSteps,         "orders",   "manage_users"),
   release   |-> Errand(ReleaseSteps,      "orders",   "manage_users"),
   review    |-> Errand(ReviewSteps,       "orders",   "manage_users"),
   verify    |-> Errand(VerifySteps,       "orders",   "edit_global_policy"),
   import    |-> Errand(ImportSteps,       "orders",   "manage_users"),
   proof     |-> Errand(ProofSteps,        "orders",   "local")]
ErrandKinds == DOMAIN Errands

ASSUME DeskAssumption ==
  /\ IsFiniteSet(Clerks) /\ Clerks # {} /\ {MaxSecond, MaxTrail} \subseteq Nat
  /\ DeskPlans \subseteq [errands : SUBSET ErrandKinds, calls : Nat, kills : Nat]

FileKinds == {"enc"} \cup {Errands[e].file : e \in ErrandKinds}
(* Their files have one name; the others' is of the second.                *)
OneName == {"schedule", "orders"}
FileNames == [kind : FileKinds, stamp : 0 .. MaxSecond]
Contents == [by : Clerks, entries : 0 .. MaxTrail, totals : 0 .. MaxTrail]

(* A file is open between its truncation and the end of its writing.       *)
FileStates == {"absent", "open", "whole", "mixed"}
Blank == [by |-> CHOOSE c \in Clerks : TRUE, entries |-> 0, totals |-> 0]
Idle == [errand |-> "review", step |-> 0, name |-> [kind |-> "orders", stamp |-> 0],
         hand |-> "none", data |-> Blank, noted |-> {}, verdict |-> "none"]

EvidenceTypeOK ==
  /\ deskPlan \in DeskPlans
  /\ desk \in [Clerks -> [errand : ErrandKinds, step : 0 .. 9, name : FileNames,
       hand : {"none", "open", "closed"}, data : Contents,
       noted : SUBSET [name : FileNames, state : FileStates, data : Contents],
       verdict : {"none", "ready", "excused", "unready"}]]
  /\ evidence \in [FileNames -> [state : FileStates, data : Contents, at : 0 .. MaxSecond]]
  /\ trailSize \in 0 .. MaxTrail /\ orders \in 0 .. deskPlan.calls /\ second \in 0 .. MaxSecond
  /\ deskCalls \in 0 .. deskPlan.calls /\ deskKills \in 0 .. deskPlan.kills
  /\ issued \subseteq [name : FileNames, state : FileStates, data : Contents]
  /\ unsure \subseteq FileNames

EvidenceInit ==
  /\ deskPlan \in DeskPlans
  /\ desk = [c \in Clerks |-> Idle]
  /\ evidence = [n \in FileNames |-> [state |-> "absent", data |-> Blank, at |-> 0]]
  /\ trailSize = 0 /\ orders = 0 /\ second = 0 /\ deskCalls = 0 /\ deskKills = 0
  /\ issued = {} /\ unsure = {}

At(c, step) == desk[c].step > 0 /\ Errands[desk[c].errand].steps[desk[c].step] = step

(* The call with its next step, or done with.                              *)
Onward(call) ==
  IF call.step = Len(Errands[call.errand].steps) THEN Idle ELSE [call EXCEPT !.step = @ + 1]

(* The calls that have opened a file, and those that have not closed it.   *)
OpenedBy(name) == {c \in Clerks : desk[c].name = name /\ desk[c].hand # "none"}
WritingBy(name) == {c \in Clerks : desk[c].name = name /\ desk[c].hand = "open"}

Others == <<deskPlan, second, deskCalls, deskKills>>

-----------------------------------------------------------------------------
(* The steps. *)

(* The role is checked, and the name taken from the clock; a schedule has  *)
(* one file, a drill takes the name of what it finds.                      *)
BeginErrand(c, role, errand) ==
  /\ desk[c].step = 0 /\ deskCalls < deskPlan.calls
  /\ Errands[errand].needs = "local" \/ Allowed(role, Errands[errand].needs)
  /\ deskCalls' = deskCalls + 1
  /\ desk' = [desk EXCEPT ![c] =
       [Idle EXCEPT !.errand = errand, !.step = 1, !.data.by = c,
                    !.name = [kind |-> Errands[errand].file,
                              stamp |-> IF Errands[errand].file \in OneName THEN 0 ELSE second]]]
  /\ UNCHANGED <<deskPlan, evidence, trailSize, orders, second, deskKills, issued, unsure>>

(* The ledger's entries, and in a read of its own the totals over them.    *)
ReadTrail(c) ==
  /\ At(c, "read") \/ At(c, "totals")
  /\ desk' = [desk EXCEPT ![c] =
       Onward(IF At(c, "read") THEN [@ EXCEPT !.data.entries = trailSize]
                               ELSE [@ EXCEPT !.data.totals = trailSize])]
  /\ UNCHANGED <<evidence, trailSize, orders, issued, unsure, Others>>

(* open(path, "w") creates the file or truncates the one that is there.    *)
OpenFile(c) ==
  LET name == desk[c].name IN
  /\ At(c, "open")
  /\ evidence' = [evidence EXCEPT ![name].state = "open", ![name].at = second]
  /\ unsure' = IF OpenedBy(name) # {} \/ (name.kind \notin OneName /\ evidence[name].state # "absent")
                 THEN unsure \cup {name} ELSE unsure
  /\ desk' = [desk EXCEPT ![c] = Onward([@ EXCEPT !.hand = "open"])]
  /\ UNCHANGED <<trailSize, orders, issued, Others>>

(* What another call wrote since stays where this one's bytes do not reach. *)
FillFile(c) ==
  LET name == desk[c].name IN
  /\ At(c, "write")
  /\ \E state \in {"whole", "mixed"} :
       /\ state = "mixed" => evidence[name].state # "open"
       /\ evidence' = [evidence EXCEPT ![name] = [state |-> state, data |-> desk[c].data,
                                                  at |-> second]]
  /\ desk' = [desk EXCEPT ![c] =
       Onward([desk[c] EXCEPT !.hand = "closed",
         !.noted = @ \cup {[name |-> name, state |-> "whole", data |-> desk[c].data]}])]
  /\ UNCHANGED <<trailSize, orders, issued, unsure, Others>>

(* The digest is of what the file holds now.                               *)
Redigested(noted, name) ==
  {note \in noted : note.name # name}
    \cup {[name |-> name, state |-> evidence[name].state, data |-> evidence[name].data]}

Digest(c) ==
  /\ At(c, "digest")
  /\ desk' = [desk EXCEPT ![c] = Onward([desk[c] EXCEPT !.noted = Redigested(@, desk[c].name)])]
  /\ UNCHANGED <<evidence, trailSize, orders, issued, unsure, Others>>

(* The archive is read again, to be encrypted into the file NAME.enc.      *)
Seal(c) ==
  /\ At(c, "seal")
  /\ desk' = [desk EXCEPT ![c] =
       Onward([@ EXCEPT !.data = evidence[desk[c].name].data, !.name.kind = "enc", !.hand = "none"])]
  /\ UNCHANGED <<evidence, trailSize, orders, issued, unsure, Others>>

(* The drill opens the archive that was modified last, .enc files aside.   *)
Zips == {n \in FileNames : n.kind = "zip" /\ evidence[n].state # "absent"}

PickBackup(c) ==
  /\ At(c, "pick")
  /\ \/ /\ Zips = {}
        /\ desk' = [desk EXCEPT ![c] = [Onward(@) EXCEPT !.step = 3, !.verdict = "excused"]]
     \/ \E n \in Zips :
          /\ \A m \in Zips : evidence[m].at <= evidence[n].at
          /\ desk' = [desk EXCEPT ![c] = Onward([@ EXCEPT !.name = n])]
  /\ UNCHANGED <<evidence, trailSize, orders, issued, unsure, Others>>

(* What comes of reading a file: it is whole, or there is a reason.        *)
Judged(name) ==
  CASE evidence[name].state = "whole" /\ name.kind # "enc" -> "ready"
    [] WritingBy(name) # {} \/ name \in unsure -> "excused"
    [] OTHER -> "unready"

TestBackup(c) ==
  /\ At(c, "test")
  /\ desk' = [desk EXCEPT ![c] = Onward([@ EXCEPT !.verdict = Judged(desk[c].name)])]
  /\ UNCHANGED <<evidence, trailSize, orders, issued, unsure, Others>>

(* A file of the kind is found: without one, the answer is at hand.        *)
FindFile(c) ==
  LET there == {n \in FileNames : n.kind = desk[c].name.kind /\ evidence[n].state # "absent"} IN
  /\ At(c, "find")
  /\ \/ /\ there = {}
        /\ desk' = [desk EXCEPT ![c] = [Onward(@) EXCEPT !.step = 3, !.verdict = "excused"]]
     \/ \E n \in there : desk' = [desk EXCEPT ![c] = Onward([@ EXCEPT !.name = n])]
  /\ UNCHANGED <<evidence, trailSize, orders, issued, unsure, Others>>

(* It is parsed: of one that is not whole nothing is answered but an error. *)
LookAt(c) ==
  /\ At(c, "look")
  /\ desk' = [desk EXCEPT ![c] = Onward([@ EXCEPT !.verdict = Judged(desk[c].name)])]
  /\ UNCHANGED <<evidence, trailSize, orders, issued, unsure, Others>>

(* The kill switch and break glass append a line of their own first.       *)
AppendOrder(c) ==
  /\ At(c, "append")
  /\ orders' = orders + 1
  /\ desk' = [desk EXCEPT ![c] = Onward(@)]
  /\ UNCHANGED <<evidence, trailSize, issued, unsure, Others>>

(* The alerts are posted; an exception answers 502, with nothing recorded. *)
PostAlerts(c) ==
  /\ At(c, "post")
  /\ \E lost \in BOOLEAN : desk' = [desk EXCEPT ![c] = IF lost THEN Idle ELSE Onward(@)]
  /\ UNCHANGED <<evidence, trailSize, orders, issued, unsure, Others>>

(* What the call noted is on the ledger, or in its answer: of a schedule,  *)
(* the last one counts.                                                    *)
EndErrand(c) ==
  /\ At(c, "log") \/ At(c, "note") \/ At(c, "answer")
  /\ At(c, "log") => trailSize < MaxTrail
  /\ trailSize' = IF At(c, "log") THEN trailSize + 1 ELSE trailSize
  /\ issued' = {note \in issued : note.name.kind # "schedule" \/ desk[c].errand # "schedule"}
                 \cup desk[c].noted
  /\ desk' = [desk EXCEPT ![c] = Idle]
  /\ UNCHANGED <<evidence, orders, unsure, Others>>

(* The process dies: what it was writing stays as it is.                   *)
KillClerk(c) ==
  /\ desk[c].step > 0 /\ deskKills < deskPlan.kills
  /\ deskKills' = deskKills + 1
  /\ unsure' = IF desk[c].hand # "none" THEN unsure \cup {desk[c].name} ELSE unsure
  /\ desk' = [desk EXCEPT ![c] = Idle]
  /\ UNCHANGED <<deskPlan, evidence, trailSize, orders, second, deskCalls, issued>>

NextSecond ==
  /\ second < MaxSecond /\ second' = second + 1
  /\ UNCHANGED <<deskPlan, desk, evidence, trailSize, orders, deskCalls, deskKills, issued, unsure>>

EvidenceNext ==
  \/ \E c \in Clerks, errand \in deskPlan.errands, role \in Roles : BeginErrand(c, role, errand)
  \/ \E c \in Clerks :
       \/ ReadTrail(c) \/ OpenFile(c) \/ FillFile(c) \/ Digest(c) \/ Seal(c) \/ PickBackup(c)
       \/ TestBackup(c) \/ FindFile(c) \/ LookAt(c) \/ AppendOrder(c) \/ PostAlerts(c) \/ EndErrand(c) \/ KillClerk(c)
  \/ NextSecond

EvidenceSpec == EvidenceInit /\ [][EvidenceNext]_deskVars

-----------------------------------------------------------------------------
(* A file that an answer or the ledger describes still holds what it says, *)
(* unless two calls wrote under its name, by the same second or at the     *)
(* same time, or a process was killed while it wrote.                      *)
FilesStand ==
  \A note \in issued :
    \/ note.name \in unsure \/ OpenedBy(note.name) # {}
    \/ evidence[note.name].state = note.state /\ note.state = "whole"
       /\ evidence[note.name].data = note.data

(* A drill that does not find a backup ready, or a reader whom a schedule  *)
(* or policy version fails, met one that was being written or was unsure.  *)
DrillsEarned == \A c \in Clerks : desk[c].verdict # "unready"

=============================================================================
