---------------------------- MODULE VaultMonitor ----------------------------
(***************************************************************************)
(* backend/sentinel_monitor.py with vault_crypto.py: documents dropped     *)
(* into vault_docs are scanned, redacted, indexed, remembered by name in   *)
(* the state, moved to vault_archive and encrypted there in place.  Each   *)
(* file event starts a thread; a start first sweeps what it finds; the     *)
(* state is saved whole, by any thread, without a lock.  Mails of alerts   *)
(* (one a day) and of reports (one a cycle, by two threads) are throttled  *)
(* by dates in the same state.                                             *)
(***************************************************************************)
EXTENDS Naturals, FiniteSets

CONSTANTS
  Documents,   \* the documents users drop, each a file with a name of its own
  NameOf,      \* the file name of each document
  Risky,       \* the documents whose score is above 7.0
  Ingestors,   \* threads of the watchdog's events
  Sweeper,     \* the main thread, which ingests what a start finds
  Reporters,   \* the reporter threads: of __init__ and of the main program
  Cycle,       \* CYCLE_DAYS
  MaxDay,      \* bound on the clock of any plan
  MonitorPlans \* bounds: which documents come, which reporters run, how many kills and days

ASSUME MonitorAssumption ==
  /\ Documents # {} /\ MaxDay \in Nat /\ Cycle \in Nat \ {0}
  /\ MonitorPlans \subseteq
       [docs : SUBSET Documents, reporters : SUBSET Reporters, kills : Nat, days : 0 .. MaxDay]

VARIABLES
  place,       \* where each document's file is, with its name in the archive
  content,     \* and what it holds
  copying,     \* the files their users still write to
  phase,       \* the monitor: down, sweeping or watching
  toSweep,     \* what the sweep's listing has left to look at
  ingest,      \* the call of ingest_file of each thread
  reporting,   \* the step of each reporter
  monState,    \* the state in memory: names processed, dates of the mails
  stateFile,   \* [whole, state]: sentinel_state.json
  monDay,      \* the clock, in days
  mails,       \* a history: the alerts and reports mailed, by the day they carry
  analysed,    \* a history: the documents whose whole text was scanned and indexed
  excusedDocs, \* a history: the documents a known race or fault has touched
  crossed,     \* a history: a mail was decided while another was being sent, or its
               \* date was lost in a kill
  monPlan      \* what may still happen: [docs, reporters, kills, days]

fileVars == <<place, content, copying>>
stateVars == <<monState, stateFile>>
monitorVars == <<fileVars, phase, toSweep, ingest, reporting, stateVars, monDay, mails,
                 analysed, excusedDocs, crossed, monPlan>>

-----------------------------------------------------------------------------
Names == {NameOf[d] : d \in Documents}
IngestThreads == Ingestors \cup {Sweeper}
NoDay == MaxDay + 1
Places == {"outside", "drop", "archive", "stamped", "gone"}
FreshState == [processed |-> {}, alerted |-> NoDay, reported |-> NoDay]
MonStates == [processed : SUBSET Names, alerted : 0 .. NoDay, reported : 0 .. NoDay]
SomeName == CHOOSE n \in Names : TRUE
NoIngest == [step |-> "idle", name |-> SomeName, doc |-> CHOOSE d \in Documents : TRUE,
             whole |-> FALSE, next |-> "idle", dest |-> "archive", day |-> 0]
NoReport(step) == [step |-> step, day |-> 0]

MonitorTypeOK ==
  /\ place \in [Documents -> Places]
  /\ content \in [Documents -> {"partial", "plain", "empty", "sealed", "spoiled"}]
  /\ copying \subseteq Documents
  /\ phase \in {"down", "sweeping", "watching"}
  /\ toSweep \subseteq Names
  /\ ingest \in [IngestThreads ->
       [step : {"idle", "load", "alert", "mail", "index", "record", "save", "write", "choose",
                "rename", "seal", "sealing"},
        name : Names, doc : Documents, whole : BOOLEAN, next : {"idle", "index", "choose"},
        dest : {"archive", "stamped"}, day : 0 .. MaxDay]]
  /\ reporting \in [Reporters ->
       [step : {"off", "check", "send", "save", "write"}, day : 0 .. MaxDay]]
  /\ monState \in MonStates
  /\ stateFile \in [whole : BOOLEAN, state : MonStates]
  /\ monDay \in 0 .. MaxDay
  /\ mails \in [{"alert", "report"} \X (0 .. MaxDay) -> Nat]
  /\ UNION {analysed, excusedDocs} \subseteq Documents
  /\ crossed \in BOOLEAN
  /\ monPlan \in [docs : SUBSET Documents, reporters : SUBSET Reporters, kills : Nat,
                 days : 0 .. MaxDay]

MonitorInit ==
  /\ place = [d \in Documents |-> "outside"]
  /\ content = [d \in Documents |-> "plain"]
  /\ copying = {}
  /\ phase = "down" /\ toSweep = {}
  /\ ingest = [t \in IngestThreads |-> NoIngest]
  /\ reporting = [r \in Reporters |-> NoReport("off")]
  /\ monState = FreshState
  /\ stateFile = [whole |-> FALSE, state |-> FreshState]
  /\ monDay = 0
  /\ mails = [m \in {"alert", "report"} \X (0 .. MaxDay) |-> 0]
  /\ analysed = {} /\ excusedDocs = {} /\ crossed = FALSE
  /\ monPlan \in MonitorPlans

InDrop(name) == {d \in Documents : NameOf[d] = name /\ place[d] = "drop"}
Busy == {t \in IngestThreads : ingest[t].step # "idle"}

-----------------------------------------------------------------------------
(* The users, and the watchdog: on_created fires when the file appears, at *)
(* the start of a copy; a file moved over another fires too.  Nobody sees  *)
(* what happens before the observer runs.                                  *)
Arrive(d, slow) ==
  LET old == InDrop(NameOf[d]) IN
  /\ place[d] = "outside" /\ d \in monPlan.docs
  /\ slow => old = {}
  /\ place' = [e \in Documents |->
       IF e = d THEN "drop" ELSE IF e \in old THEN "gone" ELSE place[e]]
  /\ content' = [content EXCEPT ![d] = IF slow THEN "partial" ELSE "plain"]
  /\ copying' = IF slow THEN copying \cup {d} ELSE copying
  /\ IF phase = "watching"
     THEN \E t \in Ingestors :
            /\ ingest[t].step = "idle"
            /\ ingest' = [ingest EXCEPT ![t] = [NoIngest EXCEPT !.step = "load", !.name = NameOf[d]]]
            /\ excusedDocs' = IF \E u \in Busy : ingest[u].name = NameOf[d]
                              THEN excusedDocs \cup {d} ELSE excusedDocs
     ELSE /\ UNCHANGED ingest
          /\ excusedDocs' = IF phase = "sweeping" \/ NameOf[d] \in stateFile.state.processed
                            THEN excusedDocs \cup {d} ELSE excusedDocs
  /\ UNCHANGED <<phase, toSweep, reporting, stateVars, monDay, mails, analysed, crossed,
                 monPlan>>

(* The copy goes on in the same file, wherever that is by now. *)
FinishCopy(d) ==
  /\ d \in copying
  /\ copying' = copying \ {d}
  /\ content' = [content EXCEPT ![d] = IF @ = "partial" THEN "plain" ELSE "spoiled"]
  /\ UNCHANGED <<place, phase, toSweep, ingest, reporting, stateVars, monDay, mails, analysed,
                 excusedDocs, crossed, monPlan>>

-----------------------------------------------------------------------------
(* ingest_file.  An exception ends it and is only logged. *)
Go(t, step) == ingest' = [ingest EXCEPT ![t].step = step]

Load(t) ==
  LET present == InDrop(ingest[t].name) IN
  /\ ingest[t].step = "load"
  /\ IF present = {} THEN /\ ingest' = [ingest EXCEPT ![t] = NoIngest]
                          /\ UNCHANGED excusedDocs
     ELSE LET d == CHOOSE d \in present : TRUE whole == content[d] = "plain" IN
          /\ ingest' = [ingest EXCEPT ![t].doc = d, ![t].whole = whole,
               ![t].step = IF whole /\ d \in Risky THEN "alert" ELSE "index"]
          /\ excusedDocs' = IF whole THEN excusedDocs ELSE excusedDocs \cup {d}
  /\ UNCHANGED <<fileVars, phase, toSweep, reporting, stateVars, monDay, mails, analysed,
                 crossed, monPlan>>

(* The loader, the embedding or the index fails: the file stays where it is. *)
IngestError(t) ==
  /\ ingest[t].step \in {"load", "index"}
  /\ ingest' = [ingest EXCEPT ![t] = NoIngest]
  /\ excusedDocs' = excusedDocs \cup InDrop(ingest[t].name)
  /\ UNCHANGED <<fileVars, phase, toSweep, reporting, stateVars, monDay, mails, analysed,
                 crossed, monPlan>>

(* trigger_alert: one mail a day, by a date read before the mail is sent. *)
CheckAlert(t) ==
  /\ ingest[t].step = "alert"
  /\ IF monState.alerted = monDay THEN Go(t, "index") /\ UNCHANGED crossed
     ELSE /\ ingest' = [ingest EXCEPT ![t].step = "mail", ![t].day = monDay]
          /\ crossed' = (crossed \/ \E u \in Busy \ {t} : ingest[u].step = "mail")
  /\ UNCHANGED <<fileVars, phase, toSweep, reporting, stateVars, monDay, mails, analysed,
                 excusedDocs, monPlan>>

SendAlert(t, success) ==
  /\ ingest[t].step = "mail"
  /\ IF success
     THEN /\ mails' = [mails EXCEPT ![<<"alert", ingest[t].day>>] = @ + 1]
          /\ monState' = [monState EXCEPT !.alerted = ingest[t].day]
          /\ ingest' = [ingest EXCEPT ![t].step = "save", ![t].next = "index"]
     ELSE Go(t, "index") /\ UNCHANGED <<mails, monState>>
  /\ UNCHANGED <<fileVars, phase, toSweep, reporting, stateFile, monDay, analysed, excusedDocs,
                 crossed, monPlan>>

(* Only the redacted text is indexed. *)
Index(t) ==
  /\ ingest[t].step = "index"
  /\ analysed' = IF ingest[t].whole THEN analysed \cup {ingest[t].doc} ELSE analysed
  /\ Go(t, "record")
  /\ UNCHANGED <<fileVars, phase, toSweep, reporting, stateVars, monDay, mails, excusedDocs,
                 crossed, monPlan>>

(* The name is remembered before the file is moved. *)
RecordName(t) ==
  /\ ingest[t].step = "record"
  /\ monState' = [monState EXCEPT !.processed = @ \cup {ingest[t].name}]
  /\ ingest' = [ingest EXCEPT ![t].step = "save", ![t].next = "choose"]
  /\ UNCHANGED <<fileVars, phase, toSweep, reporting, stateFile, monDay, mails, analysed,
                 excusedDocs, crossed, monPlan>>

Archived(name, dest) == {d \in Documents : NameOf[d] = name /\ place[d] = dest}

ChooseDest(t) ==
  /\ ingest[t].step = "choose"
  /\ ingest' = [ingest EXCEPT ![t].step = "rename",
       ![t].dest = IF Archived(ingest[t].name, "archive") = {} THEN "archive" ELSE "stamped"]
  /\ UNCHANGED <<fileVars, phase, toSweep, reporting, stateVars, monDay, mails, analysed,
                 excusedDocs, crossed, monPlan>>

(* os.rename moves whatever has the name now, over whatever is there. *)
Rename(t) ==
  LET present == InDrop(ingest[t].name) over == Archived(ingest[t].name, ingest[t].dest) IN
  /\ ingest[t].step = "rename"
  /\ IF present = {} THEN ingest' = [ingest EXCEPT ![t] = NoIngest] /\ UNCHANGED place
     ELSE /\ place' = [d \in Documents |-> IF d \in present THEN ingest[t].dest
                                           ELSE IF d \in over THEN "gone" ELSE place[d]]
          /\ Go(t, "seal")
  /\ UNCHANGED <<content, copying, phase, toSweep, reporting, stateVars, monDay, mails, analysed,
                 excusedDocs, crossed, monPlan>>

(* encrypt_file: read, encrypt, truncate, write. *)
TruncateArchive(t) ==
  LET file == Archived(ingest[t].name, ingest[t].dest) IN
  /\ ingest[t].step = "seal"
  /\ ingest' = [ingest EXCEPT ![t].step = "sealing",
                  ![t].whole = \A d \in file : content[d] = "plain"]
  /\ content' = [d \in Documents |-> IF d \in file THEN "empty" ELSE content[d]]
  /\ UNCHANGED <<place, copying, phase, toSweep, reporting, stateVars, monDay, mails, analysed,
                 excusedDocs, crossed, monPlan>>

(* Faulty variant: the archive keeps what was written before it was sealed. *)
AsRead(whole) == "plain"
AsSealed(whole) == IF whole THEN "sealed" ELSE "spoiled"

WriteArchive(t) ==
  LET file == Archived(ingest[t].name, ingest[t].dest) IN
  /\ ingest[t].step = "sealing"
  /\ content' = [d \in Documents |-> IF d \in file THEN AsSealed(ingest[t].whole) ELSE content[d]]
  /\ ingest' = [ingest EXCEPT ![t] = NoIngest]
  /\ UNCHANGED <<place, copying, phase, toSweep, reporting, stateVars, monDay, mails, analysed,
                 excusedDocs, crossed, monPlan>>

-----------------------------------------------------------------------------
(* save_state: truncation and write.  A file that was written by another   *)
(* thread since the truncation may keep a tail that spoils it.             *)
TruncateState(t) ==
  /\ ingest[t].step = "save"
  /\ Go(t, "write")
  /\ stateFile' = [stateFile EXCEPT !.whole = FALSE]
  /\ UNCHANGED <<fileVars, phase, toSweep, reporting, monState, monDay, mails, analysed,
                 excusedDocs, crossed, monPlan>>

StateWritten == stateFile' \in
  {[whole |-> TRUE, state |-> monState]} \cup
  (IF stateFile.whole THEN {[whole |-> FALSE, state |-> monState]} ELSE {})

WriteState(t) ==
  /\ ingest[t].step = "write"
  /\ Go(t, ingest[t].next)
  /\ StateWritten
  /\ UNCHANGED <<fileVars, phase, toSweep, reporting, monState, monDay, mails, analysed,
                 excusedDocs, crossed, monPlan>>

(* run_monthly_reporter: never reported, or a cycle ago; before, a faulty   *)
(* variant that is a day early.                                            *)
DueTooSoon(last) == last = NoDay \/ monDay + 1 >= last + Cycle
Due(last) == last = NoDay \/ monDay >= last + Cycle

CheckReport(r) ==
  /\ reporting[r].step = "check" /\ Due(monState.reported)
  /\ reporting' = [reporting EXCEPT ![r] = [step |-> "send", day |-> monDay]]
  /\ crossed' = (crossed \/ \E q \in Reporters \ {r} : reporting[q].step = "send")
  /\ UNCHANGED <<fileVars, phase, toSweep, ingest, stateVars, monDay, mails, analysed,
                 excusedDocs, monPlan>>

(* send_monthly_report, and the heartbeat, which saves even after a failure. *)
SendReport(r, success) ==
  /\ reporting[r].step = "send"
  /\ reporting' = [reporting EXCEPT ![r] = NoReport("save")]
  /\ IF success THEN /\ mails' = [mails EXCEPT ![<<"report", reporting[r].day>>] = @ + 1]
                      /\ monState' = [monState EXCEPT !.reported = reporting[r].day]
     ELSE UNCHANGED <<mails, monState>>
  /\ UNCHANGED <<fileVars, phase, toSweep, ingest, stateFile, monDay, analysed, excusedDocs,
                 crossed, monPlan>>

Heartbeat(r) ==
  /\ \/ reporting[r].step = "check" /\ ~Due(monState.reported)
     \/ reporting[r].step = "save"
  /\ reporting' = [reporting EXCEPT ![r] = NoReport("write")]
  /\ stateFile' = [stateFile EXCEPT !.whole = FALSE]
  /\ UNCHANGED <<fileVars, phase, toSweep, ingest, monState, monDay, mails, analysed,
                 excusedDocs, crossed, monPlan>>

EndHeartbeat(r) ==
  /\ reporting[r].step = "write"
  /\ reporting' = [reporting EXCEPT ![r] = NoReport("check")]
  /\ StateWritten
  /\ UNCHANGED <<fileVars, phase, toSweep, ingest, monState, monDay, mails, analysed,
                 excusedDocs, crossed, monPlan>>

-----------------------------------------------------------------------------
(* The main program: load the state, or start afresh; list the drop zone.  *)
StartMonitor ==
  /\ phase = "down"
  /\ phase' = "sweeping"
  /\ monState' = IF stateFile.whole THEN stateFile.state ELSE FreshState
  /\ toSweep' = {n \in Names : InDrop(n) # {}}
  /\ reporting' = [r \in Reporters |-> IF r \in monPlan.reporters THEN NoReport("check") ELSE NoReport("off")]
  /\ UNCHANGED <<fileVars, ingest, stateFile, monDay, mails, analysed, excusedDocs, crossed,
                 monPlan>>

(* Faulty variant: nothing is swept once the monitor knows any file. *)
SkippedOnceUsed(n) == monState.processed # {}
Skipped(n) == n \in monState.processed

SweepNext(n) ==
  /\ phase = "sweeping" /\ ingest[Sweeper].step = "idle" /\ n \in toSweep
  /\ toSweep' = toSweep \ {n}
  /\ ingest' = IF Skipped(n) THEN ingest
               ELSE [ingest EXCEPT ![Sweeper] = [NoIngest EXCEPT !.step = "load", !.name = n]]
  /\ UNCHANGED <<fileVars, phase, reporting, stateVars, monDay, mails, analysed, excusedDocs,
                 crossed, monPlan>>

StartWatchdog ==
  /\ phase = "sweeping" /\ toSweep = {} /\ ingest[Sweeper].step = "idle"
  /\ phase' = "watching"
  /\ UNCHANGED <<fileVars, toSweep, ingest, reporting, stateVars, monDay, mails, analysed,
                 excusedDocs, crossed, monPlan>>

(* What is not sealed and has a name that was recorded, the next sweep skips. *)
KillMonitor ==
  /\ phase # "down" /\ monPlan.kills > 0
  /\ phase' = "down" /\ toSweep' = {}
  /\ ingest' = [t \in IngestThreads |-> NoIngest]
  /\ reporting' = [r \in Reporters |-> NoReport("off")]
  /\ monPlan' = [monPlan EXCEPT !.kills = @ - 1]
  /\ excusedDocs' = excusedDocs \cup
       {d \in Documents : place[d] # "outside" /\ content[d] # "sealed"
                          /\ NameOf[d] \in monState.processed}
  /\ crossed' = (crossed \/ ~stateFile.whole \/ stateFile.state # monState)
  /\ UNCHANGED <<fileVars, stateVars, monDay, mails, analysed>>

NextDay ==
  /\ monDay < monPlan.days
  /\ monDay' = monDay + 1
  /\ UNCHANGED <<fileVars, phase, toSweep, ingest, reporting, stateVars, mails, analysed,
                 excusedDocs, crossed, monPlan>>

MonitorNext ==
  \/ \E d \in Documents :
       \/ \E slow \in BOOLEAN : Arrive(d, slow)
       \/ FinishCopy(d)
  \/ \E t \in IngestThreads :
       \/ Load(t) \/ IngestError(t) \/ CheckAlert(t) \/ Index(t) \/ RecordName(t)
       \/ \E success \in BOOLEAN : SendAlert(t, success)
       \/ ChooseDest(t) \/ Rename(t) \/ TruncateArchive(t) \/ WriteArchive(t)
       \/ TruncateState(t) \/ WriteState(t)
  \/ \E r \in Reporters :
       \/ CheckReport(r) \/ Heartbeat(r) \/ EndHeartbeat(r)
       \/ \E success \in BOOLEAN : SendReport(r, success)
  \/ StartMonitor \/ StartWatchdog \/ KillMonitor \/ NextDay
  \/ \E n \in Names : SweepNext(n)

MonitorSpec == MonitorInit /\ [][MonitorNext]_monitorVars

-----------------------------------------------------------------------------
(* What lies in the archive was scanned and indexed from its whole text    *)
(* and is sealed once no thread is at work on that name, through kills and *)
(* restarts; the exceptions are a document still being copied when it was  *)
(* read, one that came while its name was at work, and a kill that left    *)
(* the name recorded.                                                      *)
ArchiveSealed ==
  \A d \in Documents \ excusedDocs :
    place[d] \in {"archive", "stamped"} /\ (\A t \in Busy : ingest[t].name # NameOf[d]) =>
      content[d] = "sealed" /\ d \in analysed

(* Once the monitor watches and no thread works, no document is left in    *)
(* the drop zone, but those whose analysis failed, that came during the    *)
(* sweep or in the cases above, or that carry a name that was recorded     *)
(* when the monitor was started.                                           *)
NoneForgotten ==
  phase = "watching" /\ Busy = {} => \A d \in Documents : place[d] = "drop" => d \in excusedDocs

(* At most one alert a day and one report a cycle are mailed, by whichever *)
(* threads and over restarts; the exceptions are a mail decided while      *)
(* another was being sent, and a kill that lost a date.                    *)
MailsBounded ==
  ~crossed =>
    \A day \in 0 .. MaxDay :
      /\ mails[<<"alert", day>>] <= 1
      /\ mails[<<"report", day>>] <= 1
      /\ mails[<<"report", day>>] = 1 =>
           \A other \in day + 1 .. MaxDay :
             other < day + Cycle => mails[<<"report", other>>] = 0
=============================================================================
