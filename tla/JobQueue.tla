------------------------------ MODULE JobQueue ------------------------------
(***************************************************************************)
(* The durable job queue of backend/job_queue.py: rows of async_jobs, the  *)
(* worker threads that claim and execute them, the HTTP threads that       *)
(* enqueue and cancel, the executor that runs handlers, and what goes      *)
(* wrong (database errors, shutdown, a killed process).                    *)
(*                                                                         *)
(* Every SQL session is one step: SQLAlchemy holds no lock between the     *)
(* SELECT of one step and the UPDATE of the next, so whatever another      *)
(* thread or process commits in between is seen or overwritten exactly as  *)
(* in the code.  A worker stands for a process of its own (the default of  *)
(* one worker thread per process), with its own executor.                  *)
(***************************************************************************)
EXTENDS Naturals, FiniteSets

CONSTANTS
  Jobs,         \* row ids, numbered by created_at (oldest first)
  Workers,      \* worker threads, one per process
  Callers,      \* HTTP threads that call cancel
  NoJob,        \* "no row"
  Retries,      \* values enqueue may be given for max_retries
  PoolSize,     \* executor threads per process
  NoHandler,    \* <<w, j>>: process w has no handler for j's job_type
  FaultKinds,   \* which faults happen: "error", "shutdown", "kill"
  MaxFaults     \* bound on their number in one behaviour

ASSUME JobsAssumption == Jobs \subseteq Nat /\ NoJob \notin Jobs
ASSUME RetriesAssumption == Retries \subseteq Nat
ASSUME PoolAssumption == PoolSize \in Nat \ {0}
ASSUME FaultsAssumption == MaxFaults \in Nat
ASSUME HandlerAssumption == NoHandler \subseteq Workers \X Jobs

VARIABLES
  status,            \* row: status ("absent" before the INSERT)
  attempts,          \* row: attempts
  maxRetries,        \* row: max_retries
  cancelRequested,   \* row: cancel_requested
  pc,                \* where each worker thread is
  cur,               \* the row it works on
  seen,              \* attempts in its copy of that row
  goal,              \* the status it is about to write
  call,              \* cancel() in progress: row and status it read
  stopped,           \* processes whose _stop_event is set
  closing,           \* processes inside shutdown()
  closed,            \* processes with _executor_closed
  live,              \* handler executions running in each executor
  faults,            \* errors, shutdowns and kills so far
  execs,             \* history: handler executions begun for each job
  late               \* history: those begun with cancel_requested committed

rowVars == <<status, attempts, maxRetries, cancelRequested>>
workVars == <<pc, cur, seen, goal>>
procVars == <<stopped, closing, closed>>
history == <<execs, late>>
vars == <<rowVars, workVars, call, procVars, live, faults, history>>

Terminal == {"succeeded", "failed", "cancelled", "timeout"}
Statuses == Terminal \cup {"absent", "queued", "running", "cancelling"}
HoldingPcs == {"claimed", "submit", "waiting", "running", "check", "finish",
               "retry", "settle"}
Pcs == HoldingPcs \cup {"off", "poll", "picked"}
NoCall == [job |-> NoJob, saw |-> "absent"]
Calls == [job : Jobs \cup {NoJob}, saw : Statuses]

TypeOK ==
  /\ status \in [Jobs -> Statuses]
  /\ attempts \in [Jobs -> Nat]
  /\ maxRetries \in [Jobs -> Nat]
  /\ cancelRequested \in [Jobs -> BOOLEAN]
  /\ pc \in [Workers -> Pcs]
  /\ cur \in [Workers -> Jobs \cup {NoJob}]
  /\ seen \in [Workers -> Nat]
  /\ goal \in [Workers -> Statuses]
  /\ call \in [Callers -> Calls]
  /\ stopped \in SUBSET Workers
  /\ closing \in SUBSET Workers
  /\ closed \in SUBSET Workers
  /\ live \in [Workers -> SUBSET (Jobs \X Nat)]
  /\ faults \in 0 .. MaxFaults
  /\ execs \in [Jobs -> Nat]
  /\ late \in [Jobs -> Nat]

Init ==
  /\ status = [j \in Jobs |-> "absent"]
  /\ attempts = [j \in Jobs |-> 0]
  /\ maxRetries = [j \in Jobs |-> 0]
  /\ cancelRequested = [j \in Jobs |-> FALSE]
  /\ pc = [w \in Workers |-> "off"]
  /\ cur = [w \in Workers |-> NoJob]
  /\ seen = [w \in Workers |-> 0]
  /\ goal = [w \in Workers |-> "absent"]
  /\ call = [c \in Callers |-> NoCall]
  /\ stopped = {} /\ closing = {} /\ closed = {}
  /\ live = [w \in Workers |-> {}]
  /\ faults = 0
  /\ execs = [j \in Jobs |-> 0]
  /\ late = [j \in Jobs |-> 0]

(***************************************************************************)
(* Who holds a row, and small pieces of the worker's control state.        *)
(***************************************************************************)
Holds(w, j) == pc[w] \in HoldingPcs /\ cur[w] = j

Goto(w, p) == pc' = [pc EXCEPT ![w] = p]

Decide(w, p, s) == Goto(w, p) /\ goal' = [goal EXCEPT ![w] = s]

(* The worker forgets its row: back to the loop head, or off. *)
LetGo(w, p) ==
  /\ Decide(w, p, "absent")
  /\ cur' = [cur EXCEPT ![w] = NoJob]
  /\ seen' = [seen EXCEPT ![w] = 0]

(* _update_job: an unconditional UPDATE of the row by id. *)
WriteGoal(w) ==
  /\ status' = [status EXCEPT ![cur[w]] = goal[w]]
  /\ cancelRequested' = [cancelRequested EXCEPT ![cur[w]] = @ \/ goal[w] = "cancelled"]
  /\ UNCHANGED <<attempts, maxRetries>>

Fault(kind) ==
  /\ kind \in FaultKinds
  /\ faults < MaxFaults
  /\ faults' = faults + 1

(***************************************************************************)
(* start(), also called by lifespan and by every enqueue.  A live thread   *)
(* makes it a no-op: a set stop event stays set.  A new executor replaces  *)
(* a closed one (executions left in the old one no longer matter: the      *)
(* thread that waited for them is gone).                                   *)
(***************************************************************************)
StartThread(w) ==
  IF pc[w] # "off"
  THEN UNCHANGED <<workVars, procVars, live>>
  ELSE /\ LetGo(w, "poll")
       /\ stopped' = stopped \ {w}
       /\ closed' = closed \ {w}
       /\ live' = IF w \in closed THEN [live EXCEPT ![w] = {}] ELSE live
       /\ UNCHANGED closing

Start(w) ==
  /\ pc[w] = "off"
  /\ StartThread(w)
  /\ UNCHANGED <<rowVars, call, faults, history>>

(* enqueue in process w: start(), then the INSERT.  created_at is taken    *)
(* before the commit, so rows may appear out of created_at order.          *)
Enqueue(w, j) ==
  /\ <<w, j>> \notin NoHandler
  /\ status[j] = "absent"
  /\ status' = [status EXCEPT ![j] = "queued"]
  /\ \E r \in Retries : maxRetries' = [maxRetries EXCEPT ![j] = r]
  /\ StartThread(w)
  /\ UNCHANGED <<attempts, cancelRequested, call, faults, history>>

(***************************************************************************)
(* _claim_next_job: SELECT the oldest queued row, then UPDATE it where it  *)
(* is still queued.  attempts comes from the SELECT.                       *)
(***************************************************************************)
Oldest(j) ==
  /\ status[j] = "queued"
  /\ \A k \in Jobs : status[k] = "queued" => j <= k

SelectCandidate(w) ==
  /\ pc[w] = "poll"
  /\ w \notin stopped
  /\ \E j \in Jobs :
       /\ Oldest(j)
       /\ cur' = [cur EXCEPT ![w] = j]
       /\ seen' = [seen EXCEPT ![w] = attempts[j]]
  /\ Goto(w, "picked")
  /\ UNCHANGED <<rowVars, goal, call, procVars, live, faults, history>>

(* Faulty variant: the UPDATE without its condition on status. *)
ClaimableAny(j) == status[j] # "absent"

Claimable(j) == status[j] = "queued"

TakeRow(w) ==
  /\ status' = [status EXCEPT ![cur[w]] = "running"]
  /\ attempts' = [attempts EXCEPT ![cur[w]] = seen[w] + 1]
  /\ UNCHANGED <<maxRetries, cancelRequested>>

(* updated = 1.  The snapshot the worker keeps is read after the commit:   *)
(* of its columns only attempts and the constant ones are used later.      *)
Claim(w) ==
  /\ pc[w] = "picked"
  /\ Claimable(cur[w])
  /\ TakeRow(w)
  /\ seen' = [seen EXCEPT ![w] = @ + 1]
  /\ Goto(w, "claimed")
  /\ UNCHANGED <<cur, goal, call, procVars, live, faults, history>>

(* updated = 0: somebody else claimed or cancelled the candidate. *)
ClaimLost(w) ==
  /\ pc[w] = "picked"
  /\ ~Claimable(cur[w])
  /\ LetGo(w, "poll")
  /\ UNCHANGED <<rowVars, call, procVars, live, faults, history>>

(***************************************************************************)
(* _execute.                                                               *)
(***************************************************************************)
(* Faulty variant: a worker that never looks at cancel_requested. *)
NeverBlocked(j) == status[j] = "absent"

BlockedByCancel(j) == cancelRequested[j]

(* The cancel check before the handler, then the handler lookup: a missing *)
(* one is a failure without retry.                                         *)
CheckBeforeRun(w) ==
  /\ pc[w] = "claimed"
  /\ \/ /\ BlockedByCancel(cur[w])
        /\ Decide(w, "settle", "cancelled")
     \/ /\ ~BlockedByCancel(cur[w])
        /\ <<w, cur[w]>> \in NoHandler
        /\ Decide(w, "settle", "failed")
     \/ /\ ~BlockedByCancel(cur[w])
        /\ <<w, cur[w]>> \notin NoHandler
        /\ Decide(w, "submit", "absent")
  /\ UNCHANGED <<rowVars, cur, seen, call, procVars, live, faults, history>>

(* executor.submit on a closed executor raises outside the try block: the  *)
(* row stays running and the worker goes on.                               *)
Submit(w) ==
  /\ pc[w] = "submit"
  /\ IF w \in closed
     THEN LetGo(w, "poll")
     ELSE Goto(w, "waiting") /\ UNCHANGED <<cur, seen, goal>>
  /\ UNCHANGED <<rowVars, call, procVars, live, faults, history>>

Token(w) == <<cur[w], execs[cur[w]]>>

(* A free executor thread begins the handler. *)
BeginHandler(w) ==
  /\ pc[w] = "waiting"
  /\ Cardinality(live[w]) < PoolSize
  /\ execs' = [execs EXCEPT ![cur[w]] = @ + 1]
  /\ late' = [late EXCEPT ![cur[w]] = IF cancelRequested[cur[w]] THEN @ + 1 ELSE @]
  /\ live' = [live EXCEPT ![w] = @ \cup {<<cur[w], execs[cur[w]] + 1>>}]
  /\ Goto(w, "running")
  /\ UNCHANGED <<rowVars, cur, seen, goal, call, procVars, faults>>

(* Faulty variant: failures under a status name no reader knows. *)
AfterHandlerMisnamed(w, outcome) ==
  IF outcome = "succeeded"
  THEN Decide(w, "check", "absent")
  ELSE Decide(w, "retry", "error")

AfterHandler(w, outcome) ==
  IF outcome = "succeeded"
  THEN Decide(w, "check", "absent")
  ELSE Decide(w, "retry", outcome)

(* The handler returns or raises and future.result hands that over.  A     *)
(* handler that raises TimeoutError is treated as one that ran out of time *)
(* (on Python 3.11 the two classes are the same).                          *)
HandlerEnds(w) ==
  /\ pc[w] = "running"
  /\ \E outcome \in {"succeeded", "failed", "timeout"} : AfterHandler(w, outcome)
  /\ live' = [live EXCEPT ![w] = @ \ {Token(w)}]
  /\ UNCHANGED <<rowVars, cur, seen, call, procVars, faults, history>>

(* Faulty variant: the row is queued again while the worker still has it. *)
TimesOutRequeues(w) ==
  /\ pc[w] \in {"waiting", "running"}
  /\ status' = [status EXCEPT ![cur[w]] = "queued"]
  /\ Decide(w, "retry", "timeout")
  /\ UNCHANGED <<attempts, maxRetries, cancelRequested, cur, seen, call, procVars,
                 live, faults, history>>

(* Faulty variant: the timeout ends when the handler begins. *)
TimesOutInLine(w) ==
  /\ pc[w] = "waiting"
  /\ Decide(w, "retry", "timeout")
  /\ UNCHANGED <<rowVars, cur, seen, call, procVars, live, faults, history>>

(* future.result times out.  future.cancel() drops a handler that has not  *)
(* begun, and cannot stop one that has: it keeps its executor thread.      *)
TimesOut(w) ==
  /\ pc[w] \in {"waiting", "running"}
  /\ Decide(w, "retry", "timeout")
  /\ UNCHANGED <<rowVars, cur, seen, call, procVars, live, faults, history>>

(* A handler whose worker gave up on it ends at last: nobody looks at it. *)
AbandonedEnds(w) ==
  /\ \E t \in live[w] :
       /\ ~(pc[w] = "running" /\ t = Token(w))
       /\ live' = [live EXCEPT ![w] = @ \ {t}]
  /\ UNCHANGED <<rowVars, workVars, call, procVars, faults, history>>

(* The cancel check between the result and the final write. *)
CheckAfterRun(w) ==
  /\ pc[w] = "check"
  /\ Decide(w, "finish", IF cancelRequested[cur[w]] THEN "cancelled" ELSE "succeeded")
  /\ UNCHANGED <<rowVars, cur, seen, call, procVars, live, faults, history>>

(* _mark_succeeded or _mark_cancelled inside the try block. *)
Finish(w) ==
  /\ pc[w] = "finish"
  /\ WriteGoal(w)
  /\ LetGo(w, "poll")
  /\ UNCHANGED <<call, procVars, live, faults, history>>

(* Faulty variant: a retry too many. *)
MayRetryOneMore(w) == seen[w] <= maxRetries[cur[w]] + 1

(* The retry budget of _mark_retry_or_terminal. *)
MayRetry(w) == seen[w] <= maxRetries[cur[w]]

CheckBeforeRetry(w) ==
  /\ pc[w] = "retry"
  /\ Decide(w, "settle", IF BlockedByCancel(cur[w]) THEN "cancelled"
                         ELSE IF MayRetry(w) THEN "queued"
                         ELSE goal[w])
  /\ UNCHANGED <<rowVars, cur, seen, call, procVars, live, faults, history>>

(* The write of _mark_retry, _mark_failed, _mark_timeout, _mark_cancelled. *)
Settle(w) ==
  /\ pc[w] = "settle"
  /\ WriteGoal(w)
  /\ LetGo(w, "poll")
  /\ UNCHANGED <<call, procVars, live, faults, history>>

(***************************************************************************)
(* Errors.  An exception that reaches _worker_loop drops the job: nothing  *)
(* looks for running rows again.  One raised between future.result and the *)
(* end of the try block sends a job whose handler succeeded to the retry   *)
(* path, whether or not the final write had been committed.                *)
(***************************************************************************)
StrandError(w) ==
  /\ Fault("error")
  /\ pc[w] \in {"claimed", "submit", "retry", "settle"}
  /\ LetGo(w, "poll")
  /\ UNCHANGED <<rowVars, call, procVars, live, history>>

(* The UPDATE of a claim is committed and the read after it fails. *)
ClaimError(w) ==
  /\ Fault("error")
  /\ pc[w] = "picked"
  /\ Claimable(cur[w])
  /\ TakeRow(w)
  /\ LetGo(w, "poll")
  /\ UNCHANGED <<call, procVars, live, history>>

FinishError(w) ==
  /\ Fault("error")
  /\ pc[w] \in {"check", "finish"}
  /\ UNCHANGED rowVars \/ (pc[w] = "finish" /\ WriteGoal(w))
  /\ Decide(w, "retry", "failed")
  /\ UNCHANGED <<cur, seen, call, procVars, live, history>>

(***************************************************************************)
(* shutdown(): set the stop event, wait for the thread at most two         *)
(* seconds, close the executor.  A handler not yet begun is cancelled,     *)
(* which its worker sees as a failure.                                     *)
(***************************************************************************)
Shutdown(w) ==
  /\ Fault("shutdown")
  /\ w \notin closing
  /\ stopped' = stopped \cup {w}
  /\ closing' = closing \cup {w}
  /\ UNCHANGED <<rowVars, workVars, call, closed, live, history>>

CloseExecutor(w) ==
  /\ w \in closing
  /\ closing' = closing \ {w}
  /\ closed' = closed \cup {w}
  /\ IF pc[w] = "waiting"
     THEN Decide(w, "retry", "failed")
     ELSE UNCHANGED <<pc, goal>>
  /\ UNCHANGED <<rowVars, cur, seen, call, stopped, live, faults, history>>

LeaveLoop(w) ==
  /\ pc[w] = "poll"
  /\ w \in stopped
  /\ LetGo(w, "off")
  /\ UNCHANGED <<rowVars, call, procVars, live, faults, history>>

(* The process is killed: its threads and executor vanish, its row stays. *)
Crash(w) ==
  /\ Fault("kill")
  /\ pc[w] # "off"
  /\ LetGo(w, "off")
  /\ live' = [live EXCEPT ![w] = {}]
  /\ stopped' = stopped \ {w}
  /\ closing' = closing \ {w}
  /\ closed' = closed \ {w}
  /\ UNCHANGED <<rowVars, call, history>>

(***************************************************************************)
(* cancel(): read the row, then write by id.  The ORM writes only columns  *)
(* that changed against what was read, so a row read as cancelling is left *)
(* as it is.                                                               *)
(***************************************************************************)
CancelRead(c) ==
  /\ call[c] = NoCall
  /\ \E j \in Jobs :
       /\ status[j] \in {"queued", "running"}
       /\ call' = [call EXCEPT ![c] = [job |-> j, saw |-> status[j]]]
  /\ UNCHANGED <<rowVars, workVars, procVars, live, faults, history>>

CancelWrite(c) ==
  /\ call[c] # NoCall
  /\ LET j == call[c].job IN
       /\ cancelRequested' = [cancelRequested EXCEPT ![j] = TRUE]
       /\ status' = [status EXCEPT ![j] = IF call[c].saw = "queued"
                                          THEN "cancelled" ELSE "cancelling"]
  /\ call' = [call EXCEPT ![c] = NoCall]
  /\ UNCHANGED <<attempts, maxRetries, workVars, procVars, live, faults, history>>

(***************************************************************************)
(* The system.                                                             *)
(***************************************************************************)
WorkerStep(w) ==
  \/ SelectCandidate(w) \/ Claim(w) \/ ClaimLost(w)
  \/ CheckBeforeRun(w) \/ Submit(w)
  \/ CheckAfterRun(w) \/ Finish(w)
  \/ CheckBeforeRetry(w) \/ Settle(w)
  \/ LeaveLoop(w)

ExecutorStep(w) ==
  BeginHandler(w) \/ HandlerEnds(w) \/ TimesOut(w) \/ AbandonedEnds(w)

ProcessStep(w) ==
  Start(w) \/ Shutdown(w) \/ CloseExecutor(w) \/ Crash(w)

ErrorStep(w) == StrandError(w) \/ ClaimError(w) \/ FinishError(w)

Next ==
  \/ \E w \in Workers : WorkerStep(w) \/ ExecutorStep(w) \/ ProcessStep(w) \/ ErrorStep(w)
  \/ \E w \in Workers, j \in Jobs : Enqueue(w, j)
  \/ \E c \in Callers : CancelRead(c) \/ CancelWrite(c)

Spec == Init /\ [][Next]_vars

(* A live thread keeps taking steps, a wait for a future always ends (the  *)
(* timeout of future.result), a process that is down is started again, and *)
(* the rest of a request runs to its end.  Nothing obliges a handler to    *)
(* return, an executor thread to begin one, or a fault to happen.          *)
Fairness ==
  /\ \A w \in Workers : /\ WF_vars(WorkerStep(w))
                        /\ WF_vars(TimesOut(w))
                        /\ WF_vars(Start(w))
                        /\ WF_vars(CloseExecutor(w))
  /\ \A c \in Callers : WF_vars(CancelWrite(c))

FairSpec == Spec /\ Fairness

(***************************************************************************)
(* Properties.                                                             *)
(***************************************************************************)

(* Two workers, in whatever processes, never execute the same row at the   *)
(* same time: the UPDATE of _claim_next_job is conditional on "queued",    *)
(* and a row is queued again only by the worker that gives it up.          *)
OneHolder ==
  \A v, w \in Workers, j \in Jobs : Holds(v, j) /\ Holds(w, j) => v = w

(* The copy a worker decides retries from agrees with the row for as long  *)
(* as it holds it, and no row counts more attempts than its budget allows. *)
AttemptsAgree ==
  /\ \A w \in Workers, j \in Jobs : Holds(w, j) => seen[w] = attempts[j]
  /\ \A j \in Jobs : attempts[j] <= maxRetries[j] + 1

(* Once cancel_requested is committed at most one more handler execution   *)
(* begins (one whose worker had already made its check), however often the *)
(* job is retried, claimed again or cancelled again.                       *)
CancelStopsExecution == \A j \in Jobs : late[j] <= 1

(* A row that is settled, that no worker holds and no cancel call is       *)
(* working on, is final: its columns never change and it never runs again. *)
Quiet(j) ==
  /\ status[j] \in Terminal
  /\ \A w \in Workers : ~Holds(w, j)
  /\ \A c \in Callers : call[c].job # j

SettledIsFinal ==
  [][\A j \in Jobs : Quiet(j) =>
        /\ status'[j] = status[j]
        /\ attempts'[j] = attempts[j]
        /\ execs'[j] = execs[j]]_vars

(* A job enqueued with max_retries = 0 is executed at most once, whatever  *)
(* fails, whoever cancels and however many processes there are.            *)
NoRetryRunsOnce == \A j \in Jobs : maxRetries[j] = 0 => execs[j] <= 1

(* A job's handler is begun at most max_retries + 1 times. *)
ExecutionsWithinBudget == \A j \in Jobs : execs[j] <= maxRetries[j] + 1

(* Every accepted job reaches a terminal status, even if no handler ever   *)
(* returns.                                                                *)
EveryJobSettles == \A j \in Jobs : status[j] = "queued" ~> status[j] \in Terminal

(* The queue keeps the custody discipline of module Custody. *)
Owner == INSTANCE Custody WITH
  known <- {j \in Jobs : status[j] # "absent"},
  open <- {j \in Jobs : status[j] = "queued"},
  held <- [w \in Workers |-> IF pc[w] \in HoldingPcs THEN cur[w] ELSE NoJob]

ImplementsCustody == Owner!Spec
=============================================================================
