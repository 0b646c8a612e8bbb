--------------------------- MODULE ShadowDetector ---------------------------
(***************************************************************************)
(* backend/shadow_ai/detector.py: a scan probes the known AI domains and   *)
(* notes the reachable ones in a list of the process and in a log that all *)
(* processes append to; a scan is a job of its own, or a pass of the loop  *)
(* that start_monitoring begins and stop_monitoring ends through a flag    *)
(* the loop only looks at between its sleeps.                              *)
(***************************************************************************)
EXTENDS Naturals, FiniteSets, Deployment

CONSTANTS
  AiDomains,    \* AI_DOMAINS
  Loops,        \* monitoring threads
  ScanJobs,     \* workers of the job queue that run shadow_ai.scan
  Starters,     \* requests for monitor/start in progress at once
  MaxDetections, MaxStarts, MaxDetectorFaults  \* bounds

ASSUME DetectorAssumption ==
  /\ Servers # {} /\ Loops \cap ScanJobs = {}
  /\ {MaxDetections, MaxStarts, MaxDetectorFaults} \subseteq Nat

VARIABLES
  detectorUp,   \* the processes that are up
  monitoring,   \* the _monitoring flag of each process
  starter,      \* the process whose flag each starter has found unset, if any
  scan,         \* each loop and scan job: where it is, and the domains left
  detections,   \* the _detections of each process
  shadowLog,    \* shadow_ai_detections.jsonl
  shadowCount,  \* [found, starts, faults] so far: a fault is a kill or a failed append
  doubled,      \* a history: where a start met a loop, or another start
  failed        \* a history: the processes in which a scan failed to write the log

detectorVars == <<detectorUp, monitoring, starter, scan, detections, shadowLog, shadowCount,
                  doubled, failed>>

-----------------------------------------------------------------------------
Scanners == Loops \cup ScanJobs
Entries == 1 .. MaxDetections
AnyServer == CHOOSE s \in Servers : TRUE
NoScan == [step |-> "none", server |-> AnyServer, left |-> {}, entry |-> 0]

DetectorTypeOK ==
  /\ detectorUp \subseteq Servers
  /\ monitoring \in [Servers -> BOOLEAN]
  /\ starter \in [Starters -> SUBSET Servers]
  /\ scan \in [Scanners -> [step : {"none", "probe", "log", "sleep"}, server : Servers,
                            left : SUBSET AiDomains, entry : 0 .. MaxDetections]]
  /\ detections \in [Servers -> SUBSET Entries]
  /\ shadowLog \subseteq Entries
  /\ shadowCount \in [found : 0 .. MaxDetections, starts : 0 .. MaxStarts,
                      faults : 0 .. MaxDetectorFaults]
  /\ doubled \subseteq Servers
  /\ failed \subseteq Servers

DetectorInit ==
  /\ detectorUp = Servers
  /\ monitoring = [s \in Servers |-> FALSE]
  /\ starter = [c \in Starters |-> {}]
  /\ scan = [x \in Scanners |-> NoScan]
  /\ detections = [s \in Servers |-> {}]
  /\ shadowLog = {}
  /\ shadowCount = [found |-> 0, starts |-> 0, faults |-> 0]
  /\ doubled = {} /\ failed = {}

LoopsOf(s) == {l \in Loops : scan[l].step # "none" /\ scan[l].server = s}

(* start_monitoring looks at the flag, then sets it and starts the thread. *)
(* Faulty variant: the flag is not looked at. *)
AnyTime(s) == TRUE
MayStart(s) == ~monitoring[s]

TestFlag(c, s) ==
  /\ starter[c] = {} /\ s \in detectorUp /\ MayStart(s) /\ shadowCount.starts < MaxStarts
  /\ starter' = [starter EXCEPT ![c] = {s}]
  /\ shadowCount' = [shadowCount EXCEPT !.starts = @ + 1]
  /\ doubled' = IF ~monitoring[s] /\ (LoopsOf(s) # {} \/ \E b \in Starters : starter[b] = {s})
                THEN doubled \cup {s} ELSE doubled
  /\ UNCHANGED <<detectorUp, monitoring, scan, detections, shadowLog, failed>>

StartMonitoring(c, s, l) ==
  /\ starter[c] = {s} /\ scan[l].step = "none"
  /\ starter' = [starter EXCEPT ![c] = {}]
  /\ monitoring' = [monitoring EXCEPT ![s] = TRUE]
  /\ scan' = [scan EXCEPT ![l] = [step |-> "probe", server |-> s, left |-> AiDomains, entry |-> 0]]
  /\ UNCHANGED <<detectorUp, detections, shadowLog, shadowCount, doubled, failed>>

StopMonitoring(s) ==
  /\ monitoring[s]
  /\ monitoring' = [monitoring EXCEPT ![s] = FALSE]
  /\ UNCHANGED <<detectorUp, starter, scan, detections, shadowLog, shadowCount, doubled, failed>>

(* The job handler: one pass. *)
ScanOnce(j, s) ==
  /\ scan[j].step = "none" /\ s \in detectorUp
  /\ shadowCount.found < MaxDetections
  /\ scan' = [scan EXCEPT ![j] = [step |-> "probe", server |-> s, left |-> AiDomains, entry |-> 0]]
  /\ UNCHANGED <<detectorUp, monitoring, starter, detections, shadowLog, shadowCount, doubled, failed>>

(* probe_domain; a reachable one is noted in the list first. *)
ProbeDomain(x, domain, reachable) ==
  LET nr == shadowCount.found + 1 s == scan[x].server IN
  /\ scan[x].step = "probe" /\ domain \in scan[x].left
  /\ IF reachable
     THEN /\ nr <= MaxDetections
          /\ shadowCount' = [shadowCount EXCEPT !.found = nr]
          /\ detections' = [detections EXCEPT ![s] = @ \cup {nr}]
          /\ scan' = [scan EXCEPT ![x].left = @ \ {domain}, ![x].step = "log", ![x].entry = nr]
     ELSE /\ scan' = [scan EXCEPT ![x].left = @ \ {domain}]
          /\ UNCHANGED <<shadowCount, detections>>
  /\ UNCHANGED <<detectorUp, monitoring, starter, shadowLog, doubled, failed>>

LogDetection(x) ==
  /\ scan[x].step = "log"
  /\ shadowLog' = shadowLog \cup {scan[x].entry}
  /\ scan' = [scan EXCEPT ![x].step = "probe", ![x].entry = 0]
  /\ UNCHANGED <<detectorUp, monitoring, starter, detections, shadowCount, doubled, failed>>

(* The append fails: the job fails, or the loop's thread dies under its flag. *)
LogError(x) ==
  /\ scan[x].step = "log" /\ shadowCount.faults < MaxDetectorFaults
  /\ shadowCount' = [shadowCount EXCEPT !.faults = @ + 1]
  /\ scan' = [scan EXCEPT ![x] = NoScan]
  /\ failed' = failed \cup {scan[x].server}
  /\ UNCHANGED <<detectorUp, monitoring, starter, detections, shadowLog, doubled>>

(* A job is done after a pass; a loop sleeps and then looks at the flag. *)
EndPass(x) ==
  /\ scan[x].step = "probe" /\ scan[x].left = {}
  /\ scan' = [scan EXCEPT ![x] = IF x \in Loops THEN [@ EXCEPT !.step = "sleep"] ELSE NoScan]
  /\ UNCHANGED <<detectorUp, monitoring, starter, detections, shadowLog, shadowCount, doubled, failed>>

WakeUp(l) ==
  /\ scan[l].step = "sleep"
  /\ scan' = [scan EXCEPT ![l] =
       IF monitoring[scan[l].server] THEN [@ EXCEPT !.step = "probe", !.left = AiDomains] ELSE NoScan]
  /\ UNCHANGED <<detectorUp, monitoring, starter, detections, shadowLog, shadowCount, doubled, failed>>

(* The threads are daemons: they die with the process. *)
KillDetector(s) ==
  /\ s \in detectorUp /\ shadowCount.faults < MaxDetectorFaults
  /\ shadowCount' = [shadowCount EXCEPT !.faults = @ + 1]
  /\ detectorUp' = detectorUp \ {s}
  /\ monitoring' = [monitoring EXCEPT ![s] = FALSE]
  /\ starter' = [c \in Starters |-> starter[c] \ {s}]
  /\ scan' = [x \in Scanners |-> IF scan[x].server = s THEN NoScan ELSE scan[x]]
  /\ doubled' = doubled \ {s} /\ failed' = failed \ {s}
  /\ UNCHANGED <<detections, shadowLog>>

StartDetector(s) ==
  /\ s \notin detectorUp
  /\ detectorUp' = detectorUp \cup {s}
  /\ detections' = [detections EXCEPT ![s] = shadowLog]
  /\ UNCHANGED <<monitoring, starter, scan, shadowLog, shadowCount, doubled, failed>>

DetectorNext ==
  \/ \E s \in Servers :
       \/ \E c \in Starters : TestFlag(c, s) \/ \E l \in Loops : StartMonitoring(c, s, l)
       \/ \E j \in ScanJobs : ScanOnce(j, s)
       \/ StopMonitoring(s) \/ KillDetector(s) \/ StartDetector(s)
  \/ \E x \in Scanners :
       \/ \E domain \in AiDomains, reachable \in BOOLEAN : ProbeDomain(x, domain, reachable)
       \/ LogDetection(x) \/ LogError(x) \/ EndPass(x)
  \/ \E l \in Loops : WakeUp(l)

DetectorSpec == DetectorInit /\ [][DetectorNext]_detectorVars

-----------------------------------------------------------------------------
(* A process has one monitoring loop, and only while its flag is set or    *)
(* until the loop next wakes; the exceptions are a start that came before  *)
(* a stopped loop had woken, and two starts at once.  While its flag is    *)
(* set a loop runs, and what it has found is in the log or about to be     *)
(* appended by the thread that found it, unless an append has failed.      *)
LoopsBounded ==
  \A s \in detectorUp :
    /\ s \notin doubled => Cardinality(LoopsOf(s)) <= 1
    /\ s \notin failed =>
         /\ monitoring[s] => LoopsOf(s) # {}
         /\ detections[s] \ shadowLog \subseteq
              {scan[x].entry : x \in {y \in Scanners : scan[y].server = s /\ scan[y].step = "log"}}
=============================================================================
