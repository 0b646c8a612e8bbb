--------------------------- MODULE JobQueueProofs ---------------------------
(***************************************************************************)
(* Theorems about JobQueue, for every set of rows, worker processes and    *)
(* callers, every retry budget and every number of faults.                 *)
(***************************************************************************)
EXTENDS JobQueue, TLAPS

(* A worker that is not idle has a row. *)
BusyPcs == HoldingPcs \cup {"picked"}
BusyHasRow == \A w \in Workers : pc[w] \in BusyPcs => cur[w] \in Jobs

TypeInv == TypeOK /\ BusyHasRow

(* start() keeps the types of what it touches. *)
LEMMA StartKeepsTypes ==
  ASSUME TypeInv, NEW w \in Workers, StartThread(w)
  PROVE  /\ pc' \in [Workers -> Pcs]
         /\ cur' \in [Workers -> Jobs \cup {NoJob}]
         /\ seen' \in [Workers -> Nat]
         /\ goal' \in [Workers -> Statuses]
         /\ stopped' \in SUBSET Workers
         /\ closing' \in SUBSET Workers
         /\ closed' \in SUBSET Workers
         /\ live' \in [Workers -> SUBSET (Jobs \X Nat)]
  <1> USE DEF TypeInv, TypeOK, Pcs, HoldingPcs, Statuses, workVars, procVars
  <1>1. CASE pc[w] # "off"
    BY <1>1 DEF StartThread
  <1>2. CASE pc[w] = "off"
    <2>1. live' = IF w \in closed THEN [live EXCEPT ![w] = {}] ELSE live
      BY <1>2 DEF StartThread
    <2>2. live' \in [Workers -> SUBSET (Jobs \X Nat)]
      <3>1. CASE w \in closed
        BY <2>1, <3>1
      <3>2. CASE w \notin closed
        BY <2>1, <3>2
      <3> QED
        BY <3>1, <3>2
    <2>3. /\ LetGo(w, "poll")
          /\ stopped' = stopped \ {w}
          /\ closed' = closed \ {w}
          /\ closing' = closing
      BY <1>2 DEF StartThread
    <2> QED
      BY <2>2, <2>3 DEF LetGo, Decide, Goto
  <1> QED
    BY <1>1, <1>2

(* start() leaves every worker as it is, or puts it at the loop head. *)
LEMMA StartMovesNobody ==
  ASSUME TypeInv, NEW w \in Workers, StartThread(w), NEW v \in Workers
  PROVE  \/ pc'[v] = pc[v] /\ cur'[v] = cur[v] /\ seen'[v] = seen[v] /\ goal'[v] = goal[v]
         \/ pc[v] = "off" /\ pc'[v] = "poll"
  BY DEF StartThread, LetGo, Decide, Goto, TypeInv, TypeOK, workVars

(* Types hold in the empty queue.                                          *)
LEMMA TypeInit == Init => TypeInv
  BY FaultsAssumption
  DEF Init, TypeInv, TypeOK, BusyHasRow, BusyPcs, Statuses, Terminal, HoldingPcs, Pcs,
      NoCall, Calls

(* Every step keeps the types.                                             *)
LEMMA TypeStep == TypeInv /\ [Next]_vars => TypeInv'
  <1> SUFFICES ASSUME TypeInv, [Next]_vars PROVE TypeInv'
    OBVIOUS
  <1> USE RetriesAssumption, FaultsAssumption
      DEF TypeInv, TypeOK, BusyHasRow, BusyPcs, Statuses, Terminal, HoldingPcs, Pcs, NoCall,
          Calls, rowVars, workVars, procVars, history, vars
  <1>1. ASSUME NEW w \in Workers, WorkerStep(w) PROVE TypeInv'
    <2>1. CASE SelectCandidate(w)
      BY <2>1 DEF SelectCandidate, Goto, Oldest
    <2>2. CASE Claim(w)
      BY <2>2 DEF Claim, TakeRow, Goto
    <2>3. CASE ClaimLost(w)
      BY <2>3 DEF ClaimLost, LetGo, Decide, Goto
    <2>4. CASE CheckBeforeRun(w)
      BY <2>4 DEF CheckBeforeRun, Decide, Goto
    <2>5. CASE Submit(w)
      BY <2>5 DEF Submit, LetGo, Decide, Goto
    <2>6. CASE CheckAfterRun(w)
      BY <2>6 DEF CheckAfterRun, Decide, Goto
    <2>7. CASE Finish(w)
      BY <2>7 DEF Finish, WriteGoal, LetGo, Decide, Goto
    <2>8. CASE CheckBeforeRetry(w)
      BY <2>8 DEF CheckBeforeRetry, Decide, Goto
    <2>9. CASE Settle(w)
      BY <2>9 DEF Settle, WriteGoal, LetGo, Decide, Goto
    <2>10. CASE LeaveLoop(w)
      BY <2>10 DEF LeaveLoop, LetGo, Decide, Goto
    <2> QED
      BY <1>1, <2>1, <2>2, <2>3, <2>4, <2>5, <2>6, <2>7, <2>8, <2>9, <2>10 DEF WorkerStep
  <1>2. ASSUME NEW w \in Workers, ExecutorStep(w) PROVE TypeInv'
    <2>1. CASE BeginHandler(w)
      BY <2>1 DEF BeginHandler, Goto
    <2>2. CASE HandlerEnds(w)
      BY <2>2 DEF HandlerEnds, AfterHandler, Decide, Goto
    <2>3. CASE TimesOut(w)
      BY <2>3 DEF TimesOut, Decide, Goto
    <2>4. CASE AbandonedEnds(w)
      BY <2>4 DEF AbandonedEnds
    <2> QED
      BY <1>2, <2>1, <2>2, <2>3, <2>4 DEF ExecutorStep
  <1>3. ASSUME NEW w \in Workers, ProcessStep(w) PROVE TypeInv'
    <2>1. CASE Start(w)
      <3>1. StartThread(w) /\ UNCHANGED <<rowVars, call, faults, history>>
        BY <2>1 DEF Start
      <3>2. BusyHasRow'
        BY <3>1, StartMovesNobody
      <3> QED
        BY <3>1, <3>2, StartKeepsTypes
    <2>2. CASE Shutdown(w)
      BY <2>2 DEF Shutdown, Fault
    <2>3. CASE CloseExecutor(w)
      BY <2>3 DEF CloseExecutor, Decide, Goto
    <2>4. CASE Crash(w)
      BY <2>4 DEF Crash, Fault, LetGo, Decide, Goto
    <2> QED
      BY <1>3, <2>1, <2>2, <2>3, <2>4 DEF ProcessStep
  <1>4. ASSUME NEW w \in Workers, ErrorStep(w) PROVE TypeInv'
    <2>1. CASE StrandError(w)
      BY <2>1 DEF StrandError, Fault, LetGo, Decide, Goto
    <2>2. CASE ClaimError(w)
      BY <2>2 DEF ClaimError, Fault, TakeRow, LetGo, Decide, Goto
    <2>3. CASE FinishError(w)
      <3>1. status' \in [Jobs -> Statuses] /\ cancelRequested' \in [Jobs -> BOOLEAN]
        <4>1. CASE UNCHANGED rowVars
          BY <4>1
        <4>2. CASE WriteGoal(w)
          BY <4>2 DEF WriteGoal
        <4> QED
          BY <2>3, <4>1, <4>2 DEF FinishError
      <3>2. attempts' = attempts /\ maxRetries' = maxRetries
        BY <2>3 DEF FinishError, WriteGoal
      <3> QED
        BY <2>3, <3>1, <3>2 DEF FinishError, Fault, Decide, Goto
    <2> QED
      BY <1>4, <2>1, <2>2, <2>3 DEF ErrorStep
  <1>5. ASSUME NEW w \in Workers, NEW j \in Jobs, Enqueue(w, j) PROVE TypeInv'
    <2>1. StartThread(w)
      BY <1>5 DEF Enqueue
    <2>2. BusyHasRow'
      BY <2>1, StartMovesNobody
    <2>3. /\ status' \in [Jobs -> Statuses]
          /\ maxRetries' \in [Jobs -> Nat]
          /\ UNCHANGED <<attempts, cancelRequested, call, faults, history>>
      BY <1>5 DEF Enqueue
    <2> QED
      BY <2>1, <2>2, <2>3, StartKeepsTypes
  <1>6. ASSUME NEW c \in Callers, CancelRead(c) \/ CancelWrite(c) PROVE TypeInv'
    <2>1. CASE CancelRead(c)
      <3>1. call' \in [Callers -> Calls]
        BY <2>1 DEF CancelRead
      <3> QED
        BY <2>1, <3>1 DEF CancelRead
    <2>2. CASE CancelWrite(c)
      <3>1. call' \in [Callers -> Calls]
        BY <2>2 DEF CancelWrite
      <3>2. status' \in [Jobs -> Statuses] /\ cancelRequested' \in [Jobs -> BOOLEAN]
        BY <2>2 DEF CancelWrite
      <3> QED
        BY <2>2, <3>1, <3>2 DEF CancelWrite
    <2> QED
      BY <1>6, <2>1, <2>2
  <1>7. CASE UNCHANGED vars
    BY <1>7
  <1> QED
    BY <1>1, <1>2, <1>3, <1>4, <1>5, <1>6, <1>7 DEF Next

(* Every variable of the queue keeps its type, and a worker that is not    *)
(* idle works on a row.                                                    *)
THEOREM TypeCorrect == Spec => []TypeOK
  <1>1. TypeInv => TypeOK
    BY DEF TypeInv
  <1> QED
    BY <1>1, TypeInit, TypeStep, PTL DEF Spec

(* ---------------------------------------------------------------------- *)
(* Custody: at most one worker holds a row, and a held row is not queued.  *)
(* Neither half is inductive without the other, nor without knowing what   *)
(* a worker may be about to write and that it picks only existing rows.    *)
HeldNotFree ==
  \A w \in Workers, j \in Jobs : Holds(w, j) => status[j] \notin {"absent", "queued"}

PickedExists == \A w \in Workers : pc[w] = "picked" => status[cur[w]] # "absent"

CallInv ==
  \A c \in Callers :
    call[c] # NoCall => call[c].job \in Jobs /\ status[call[c].job] # "absent"

GoalInv ==
  \A w \in Workers :
    /\ pc[w] = "retry" => goal[w] \in {"failed", "timeout"}
    /\ pc[w] = "finish" => goal[w] \in {"succeeded", "cancelled"}
    /\ pc[w] = "settle" => goal[w] \in {"cancelled", "failed", "timeout", "queued"}

CustodyInv == OneHolder /\ HeldNotFree /\ PickedExists /\ CallInv /\ GoalInv

(* Nobody holds a row at the start.                                        *)
LEMMA CustodyInit == Init => CustodyInv
  BY DEF Init, CustodyInv, OneHolder, HeldNotFree, PickedExists, CallInv, GoalInv, Holds, HoldingPcs

(* Every step keeps custody exclusive.                                     *)
LEMMA CustodyStep == TypeInv /\ CustodyInv /\ [Next]_vars => CustodyInv'
  <1> SUFFICES ASSUME TypeInv, CustodyInv, [Next]_vars PROVE CustodyInv'
    OBVIOUS
  <1> USE DEF TypeInv, TypeOK, BusyHasRow, BusyPcs, Pcs, HoldingPcs, CustodyInv, OneHolder,
              HeldNotFree, PickedExists, CallInv, GoalInv, Holds, NoCall, rowVars, workVars,
              procVars, history, vars
  <1>1. ASSUME NEW w \in Workers, WorkerStep(w) PROVE CustodyInv'
    <2>1. CASE SelectCandidate(w)
      BY <2>1 DEF SelectCandidate, Goto, Oldest
    <2>2. CASE Claim(w)
      BY <2>2 DEF Claim, Claimable, TakeRow, Goto
    <2>3. CASE ClaimLost(w)
      BY <2>3 DEF ClaimLost, LetGo, Decide, Goto
    <2>4. CASE CheckBeforeRun(w)
      BY <2>4 DEF CheckBeforeRun, BlockedByCancel, Decide, Goto
    <2>5. CASE Submit(w)
      BY <2>5 DEF Submit, LetGo, Decide, Goto
    <2>6. CASE CheckAfterRun(w)
      BY <2>6 DEF CheckAfterRun, Decide, Goto
    <2>7. CASE Finish(w)
      BY <2>7 DEF Finish, WriteGoal, LetGo, Decide, Goto
    <2>8. CASE CheckBeforeRetry(w)
      BY <2>8 DEF CheckBeforeRetry, BlockedByCancel, MayRetry, Decide, Goto
    <2>9. CASE Settle(w)
      BY <2>9 DEF Settle, WriteGoal, LetGo, Decide, Goto
    <2>10. CASE LeaveLoop(w)
      BY <2>10 DEF LeaveLoop, LetGo, Decide, Goto
    <2> QED
      BY <1>1, <2>1, <2>2, <2>3, <2>4, <2>5, <2>6, <2>7, <2>8, <2>9, <2>10 DEF WorkerStep
  <1>2. ASSUME NEW w \in Workers, ExecutorStep(w) PROVE CustodyInv'
    <2>1. CASE BeginHandler(w)
      BY <2>1 DEF BeginHandler, Goto
    <2>2. CASE HandlerEnds(w)
      BY <2>2 DEF HandlerEnds, AfterHandler, Decide, Goto
    <2>3. CASE TimesOut(w)
      BY <2>3 DEF TimesOut, Decide, Goto
    <2>4. CASE AbandonedEnds(w)
      BY <2>4 DEF AbandonedEnds
    <2> QED
      BY <1>2, <2>1, <2>2, <2>3, <2>4 DEF ExecutorStep
  <1>3. ASSUME NEW w \in Workers, ProcessStep(w) PROVE CustodyInv'
    <2>1. CASE Start(w)
      <3>1. StartThread(w) /\ UNCHANGED <<rowVars, call, faults, history>>
        BY <2>1 DEF Start
      <3> QED
        BY <3>1, StartMovesNobody
    <2>2. CASE Shutdown(w)
      BY <2>2 DEF Shutdown
    <2>3. CASE CloseExecutor(w)
      BY <2>3 DEF CloseExecutor, Decide, Goto
    <2>4. CASE Crash(w)
      BY <2>4 DEF Crash, LetGo, Decide, Goto
    <2> QED
      BY <1>3, <2>1, <2>2, <2>3, <2>4 DEF ProcessStep
  <1>4. ASSUME NEW w \in Workers, ErrorStep(w) PROVE CustodyInv'
    <2>1. CASE StrandError(w)
      BY <2>1 DEF StrandError, LetGo, Decide, Goto
    <2>2. CASE ClaimError(w)
      BY <2>2 DEF ClaimError, Claimable, TakeRow, LetGo, Decide, Goto
    <2>3. CASE FinishError(w)
      BY <2>3 DEF FinishError, WriteGoal, Decide, Goto
    <2> QED
      BY <1>4, <2>1, <2>2, <2>3 DEF ErrorStep
  <1>5. ASSUME NEW w \in Workers, NEW j \in Jobs, Enqueue(w, j) PROVE CustodyInv'
    <2>1. StartThread(w)
      BY <1>5 DEF Enqueue
    <2> QED
      BY <1>5, <2>1, StartMovesNobody DEF Enqueue
  <1>6. ASSUME NEW c \in Callers, CancelRead(c) \/ CancelWrite(c) PROVE CustodyInv'
    BY <1>6 DEF CancelRead, CancelWrite
  <1>7. CASE UNCHANGED vars
    BY <1>7
  <1> QED
    BY <1>1, <1>2, <1>3, <1>4, <1>5, <1>6, <1>7 DEF Next

(* What OneHolder rests on, for every instance: no two workers execute the *)
(* same row at once.                                                       *)
THEOREM ClaimsAreExclusive == Spec => []OneHolder
  <1>1. Init => TypeInv /\ CustodyInv
    BY TypeInit, CustodyInit
  <1>2. TypeInv /\ CustodyInv /\ [Next]_vars => (TypeInv /\ CustodyInv)'
    BY TypeStep, CustodyStep
  <1>3. CustodyInv => OneHolder
    BY DEF CustodyInv
  <1> QED
    BY <1>1, <1>2, <1>3, PTL DEF Spec

(* ---------------------------------------------------------------------- *)
(* Attempts: what a worker copied at its claim is still what the row says, *)
(* because only a claim writes attempts and a held row cannot be claimed.  *)
(* A row is queued again only while it has retries left, so a worker that  *)
(* read it as queued copied at most max_retries.                           *)
RowBudget ==
  \A j \in Jobs :
    /\ status[j] = "absent" => attempts[j] = 0
    /\ status[j] = "queued" => attempts[j] <= maxRetries[j]
    /\ attempts[j] <= maxRetries[j] + 1

WorkerBudget ==
  \A w \in Workers :
    /\ pc[w] \in HoldingPcs => seen[w] = attempts[cur[w]] /\ seen[w] >= 1
    /\ pc[w] = "picked" => seen[w] <= maxRetries[cur[w]]
    /\ pc[w] = "settle" /\ goal[w] = "queued" => seen[w] <= maxRetries[cur[w]]

BudgetInv == RowBudget /\ WorkerBudget

(* The budgets hold at the start.                                          *)
LEMMA BudgetInit == Init => BudgetInv
  BY DEF Init, BudgetInv, RowBudget, WorkerBudget, HoldingPcs

(* Every step keeps attempts within the budget.                            *)
LEMMA BudgetStep == TypeInv /\ CustodyInv /\ BudgetInv /\ [Next]_vars => BudgetInv'
  <1> SUFFICES ASSUME TypeInv, CustodyInv, BudgetInv, [Next]_vars PROVE BudgetInv'
    OBVIOUS
  <1> USE DEF TypeInv, TypeOK, BusyHasRow, BusyPcs, Pcs, HoldingPcs, CustodyInv, OneHolder,
              HeldNotFree, PickedExists, GoalInv, BudgetInv, RowBudget, WorkerBudget, Holds,
              rowVars, workVars, procVars, history, vars
  <1>1. ASSUME NEW w \in Workers, WorkerStep(w) PROVE BudgetInv'
    <2>1. CASE SelectCandidate(w)
      BY <2>1 DEF SelectCandidate, Goto, Oldest
    <2>2. CASE Claim(w)
      BY <2>2 DEF Claim, Claimable, TakeRow, Goto
    <2>3. CASE ClaimLost(w)
      BY <2>3 DEF ClaimLost, LetGo, Decide, Goto
    <2>4. CASE CheckBeforeRun(w)
      BY <2>4 DEF CheckBeforeRun, BlockedByCancel, Decide, Goto
    <2>5. CASE Submit(w)
      BY <2>5 DEF Submit, LetGo, Decide, Goto
    <2>6. CASE CheckAfterRun(w)
      BY <2>6 DEF CheckAfterRun, Decide, Goto
    <2>7. CASE Finish(w)
      BY <2>7 DEF Finish, WriteGoal, LetGo, Decide, Goto
    <2>8. CASE CheckBeforeRetry(w)
      BY <2>8 DEF CheckBeforeRetry, BlockedByCancel, MayRetry, Decide, Goto
    <2>9. CASE Settle(w)
      BY <2>9 DEF Settle, WriteGoal, LetGo, Decide, Goto
    <2>10. CASE LeaveLoop(w)
      BY <2>10 DEF LeaveLoop, LetGo, Decide, Goto
    <2> QED
      BY <1>1, <2>1, <2>2, <2>3, <2>4, <2>5, <2>6, <2>7, <2>8, <2>9, <2>10 DEF WorkerStep
  <1>2. ASSUME NEW w \in Workers, ExecutorStep(w) PROVE BudgetInv'
    <2>1. CASE BeginHandler(w)
      BY <2>1 DEF BeginHandler, Goto
    <2>2. CASE HandlerEnds(w)
      BY <2>2 DEF HandlerEnds, AfterHandler, Decide, Goto
    <2>3. CASE TimesOut(w)
      BY <2>3 DEF TimesOut, Decide, Goto
    <2>4. CASE AbandonedEnds(w)
      BY <2>4 DEF AbandonedEnds
    <2> QED
      BY <1>2, <2>1, <2>2, <2>3, <2>4 DEF ExecutorStep
  <1>3. ASSUME NEW w \in Workers, ProcessStep(w) PROVE BudgetInv'
    <2>1. CASE Start(w)
      <3>1. StartThread(w) /\ UNCHANGED <<rowVars, call, faults, history>>
        BY <2>1 DEF Start
      <3> QED
        BY <3>1, StartMovesNobody
    <2>2. CASE Shutdown(w)
      BY <2>2 DEF Shutdown
    <2>3. CASE CloseExecutor(w)
      BY <2>3 DEF CloseExecutor, Decide, Goto
    <2>4. CASE Crash(w)
      BY <2>4 DEF Crash, LetGo, Decide, Goto
    <2> QED
      BY <1>3, <2>1, <2>2, <2>3, <2>4 DEF ProcessStep
  <1>4. ASSUME NEW w \in Workers, ErrorStep(w) PROVE BudgetInv'
    <2>1. CASE StrandError(w)
      BY <2>1 DEF StrandError, LetGo, Decide, Goto
    <2>2. CASE ClaimError(w)
      BY <2>2 DEF ClaimError, Claimable, TakeRow, LetGo, Decide, Goto
    <2>3. CASE FinishError(w)
      BY <2>3 DEF FinishError, WriteGoal, Decide, Goto
    <2> QED
      BY <1>4, <2>1, <2>2, <2>3 DEF ErrorStep
  <1>5. ASSUME NEW w \in Workers, NEW j \in Jobs, Enqueue(w, j) PROVE BudgetInv'
    <2>1. StartThread(w)
      BY <1>5 DEF Enqueue
    <2>2. RowBudget'
      BY <1>5, RetriesAssumption DEF Enqueue
    <2>3. WorkerBudget'
      BY <1>5, <2>1, StartMovesNobody DEF Enqueue
    <2> QED
      BY <2>2, <2>3
  <1>6. ASSUME NEW c \in Callers, CancelRead(c) \/ CancelWrite(c) PROVE BudgetInv'
    BY <1>6 DEF CancelRead, CancelWrite
  <1>7. CASE UNCHANGED vars
    BY <1>7
  <1> QED
    BY <1>1, <1>2, <1>3, <1>4, <1>5, <1>6, <1>7 DEF Next

(* At any time the worker's copy of attempts agrees with its row, and no   *)
(* row counts more than max_retries + 1 attempts.                          *)
THEOREM AttemptsBounded == Spec => []AttemptsAgree
  <1>1. Init => TypeInv /\ CustodyInv /\ BudgetInv
    BY TypeInit, CustodyInit, BudgetInit
  <1>2. TypeInv /\ CustodyInv /\ BudgetInv /\ [Next]_vars
          => (TypeInv /\ CustodyInv /\ BudgetInv)'
    BY TypeStep, CustodyStep, BudgetStep
  <1>3. BudgetInv => AttemptsAgree
    BY DEF BudgetInv, RowBudget, WorkerBudget, AttemptsAgree, Holds
  <1> QED
    BY <1>1, <1>2, <1>3, PTL DEF Spec

(* ---------------------------------------------------------------------- *)
(* A job without retries: once its handler has begun, the row is neither   *)
(* absent nor queued for ever after, and its holder is past the executor.  *)
NoRetryInv ==
  \A j \in Jobs :
    /\ status[j] = "absent" => execs[j] = 0
    /\ maxRetries[j] = 0 =>
         /\ execs[j] <= 1
         /\ execs[j] = 1 =>
              /\ status[j] \notin {"absent", "queued"}
              /\ \A w \in Workers :
                   Holds(w, j) => pc[w] \notin {"claimed", "submit", "waiting"}

(* Nothing has been executed at the start.                                 *)
LEMMA NoRetryInit == Init => NoRetryInv
  BY DEF Init, NoRetryInv

(* Every step keeps a job without retries from running twice.              *)
LEMMA NoRetryStep == TypeInv /\ CustodyInv /\ BudgetInv /\ NoRetryInv /\ [Next]_vars => NoRetryInv'
  <1> SUFFICES ASSUME TypeInv, CustodyInv, BudgetInv, NoRetryInv, [Next]_vars PROVE NoRetryInv'
    OBVIOUS
  <1> USE DEF TypeInv, TypeOK, BusyHasRow, BusyPcs, Pcs, HoldingPcs, CustodyInv, OneHolder,
              HeldNotFree, PickedExists, GoalInv, BudgetInv, RowBudget, WorkerBudget, Holds,
              NoRetryInv, rowVars, workVars, procVars, history, vars
  <1>1. ASSUME NEW w \in Workers, WorkerStep(w) PROVE NoRetryInv'
    <2>1. CASE SelectCandidate(w)
      BY <2>1 DEF SelectCandidate, Goto, Oldest
    <2>2. CASE Claim(w)
      BY <2>2 DEF Claim, Claimable, TakeRow, Goto
    <2>3. CASE ClaimLost(w)
      BY <2>3 DEF ClaimLost, LetGo, Decide, Goto
    <2>4. CASE CheckBeforeRun(w)
      BY <2>4 DEF CheckBeforeRun, BlockedByCancel, Decide, Goto
    <2>5. CASE Submit(w)
      BY <2>5 DEF Submit, LetGo, Decide, Goto
    <2>6. CASE CheckAfterRun(w)
      BY <2>6 DEF CheckAfterRun, Decide, Goto
    <2>7. CASE Finish(w)
      BY <2>7 DEF Finish, WriteGoal, LetGo, Decide, Goto
    <2>8. CASE CheckBeforeRetry(w)
      BY <2>8 DEF CheckBeforeRetry, BlockedByCancel, MayRetry, Decide, Goto
    <2>9. CASE Settle(w)
      BY <2>9 DEF Settle, WriteGoal, LetGo, Decide, Goto
    <2>10. CASE LeaveLoop(w)
      BY <2>10 DEF LeaveLoop, LetGo, Decide, Goto
    <2> QED
      BY <1>1, <2>1, <2>2, <2>3, <2>4, <2>5, <2>6, <2>7, <2>8, <2>9, <2>10 DEF WorkerStep
  <1>2. ASSUME NEW w \in Workers, ExecutorStep(w) PROVE NoRetryInv'
    <2>1. CASE BeginHandler(w)
      BY <2>1 DEF BeginHandler, Goto
    <2>2. CASE HandlerEnds(w)
      BY <2>2 DEF HandlerEnds, AfterHandler, Decide, Goto
    <2>3. CASE TimesOut(w)
      BY <2>3 DEF TimesOut, Decide, Goto
    <2>4. CASE AbandonedEnds(w)
      BY <2>4 DEF AbandonedEnds
    <2> QED
      BY <1>2, <2>1, <2>2, <2>3, <2>4 DEF ExecutorStep
  <1>3. ASSUME NEW w \in Workers, ProcessStep(w) PROVE NoRetryInv'
    <2>1. CASE Start(w)
      <3>1. StartThread(w) /\ UNCHANGED <<rowVars, call, faults, history>>
        BY <2>1 DEF Start
      <3> QED
        BY <3>1, StartMovesNobody
    <2>2. CASE Shutdown(w)
      BY <2>2 DEF Shutdown
    <2>3. CASE CloseExecutor(w)
      BY <2>3 DEF CloseExecutor, Decide, Goto
    <2>4. CASE Crash(w)
      BY <2>4 DEF Crash, LetGo, Decide, Goto
    <2> QED
      BY <1>3, <2>1, <2>2, <2>3, <2>4 DEF ProcessStep
  <1>4. ASSUME NEW w \in Workers, ErrorStep(w) PROVE NoRetryInv'
    <2>1. CASE StrandError(w)
      BY <2>1 DEF StrandError, LetGo, Decide, Goto
    <2>2. CASE ClaimError(w)
      BY <2>2 DEF ClaimError, Claimable, TakeRow, LetGo, Decide, Goto
    <2>3. CASE FinishError(w)
      BY <2>3 DEF FinishError, WriteGoal, Decide, Goto
    <2> QED
      BY <1>4, <2>1, <2>2, <2>3 DEF ErrorStep
  <1>5. ASSUME NEW w \in Workers, NEW j \in Jobs, Enqueue(w, j) PROVE NoRetryInv'
    <2>1. StartThread(w)
      BY <1>5 DEF Enqueue
    <2> QED
      BY <1>5, <2>1, StartMovesNobody DEF Enqueue
  <1>6. ASSUME NEW c \in Callers, CancelRead(c) \/ CancelWrite(c) PROVE NoRetryInv'
    BY <1>6 DEF CancelRead, CancelWrite
  <1>7. CASE UNCHANGED vars
    BY <1>7
  <1> QED
    BY <1>1, <1>2, <1>3, <1>4, <1>5, <1>6, <1>7 DEF Next

(* A job enqueued with max_retries = 0 is executed at most once: neither an *)
(* error, a timeout, a shutdown nor a second process brings it back.       *)
THEOREM NoRetryExecutesOnce == Spec => []NoRetryRunsOnce
  <1>1. Init => TypeInv /\ CustodyInv /\ BudgetInv /\ NoRetryInv
    BY TypeInit, CustodyInit, BudgetInit, NoRetryInit
  <1>2. TypeInv /\ CustodyInv /\ BudgetInv /\ NoRetryInv /\ [Next]_vars
          => (TypeInv /\ CustodyInv /\ BudgetInv /\ NoRetryInv)'
    BY TypeStep, CustodyStep, BudgetStep, NoRetryStep
  <1>3. NoRetryInv => NoRetryRunsOnce
    BY DEF NoRetryInv, NoRetryRunsOnce
  <1> QED
    BY <1>1, <1>2, <1>3, PTL DEF Spec

(* ---------------------------------------------------------------------- *)
(* Cancel: a handler that begins with the flag committed was let through   *)
(* by a check made before.  From then on the flag is set, no worker stands *)
(* between its check and the executor, and none can get there again.       *)
CancelInv ==
  \A j \in Jobs :
    /\ late[j] <= 1
    /\ late[j] = 1 =>
         /\ cancelRequested[j]
         /\ \A w \in Workers : Holds(w, j) => pc[w] \notin {"submit", "waiting"}

(* No execution is late at the start.                                      *)
LEMMA CancelInit == Init => CancelInv
  BY DEF Init, CancelInv

(* Every step keeps late executions to at most one.                        *)
LEMMA CancelStep == TypeInv /\ CustodyInv /\ CancelInv /\ [Next]_vars => CancelInv'
  <1> SUFFICES ASSUME TypeInv, CustodyInv, CancelInv, [Next]_vars PROVE CancelInv'
    OBVIOUS
  <1> USE DEF TypeInv, TypeOK, BusyHasRow, BusyPcs, Pcs, HoldingPcs, CustodyInv, OneHolder,
              HeldNotFree, PickedExists, CallInv, GoalInv, Holds, CancelInv, rowVars, workVars,
              procVars, history, vars
  <1>1. ASSUME NEW w \in Workers, WorkerStep(w) PROVE CancelInv'
    <2>1. CASE SelectCandidate(w)
      BY <2>1 DEF SelectCandidate, Goto, Oldest
    <2>2. CASE Claim(w)
      BY <2>2 DEF Claim, Claimable, TakeRow, Goto
    <2>3. CASE ClaimLost(w)
      BY <2>3 DEF ClaimLost, LetGo, Decide, Goto
    <2>4. CASE CheckBeforeRun(w)
      BY <2>4 DEF CheckBeforeRun, BlockedByCancel, Decide, Goto
    <2>5. CASE Submit(w)
      BY <2>5 DEF Submit, LetGo, Decide, Goto
    <2>6. CASE CheckAfterRun(w)
      BY <2>6 DEF CheckAfterRun, Decide, Goto
    <2>7. CASE Finish(w)
      BY <2>7 DEF Finish, WriteGoal, LetGo, Decide, Goto
    <2>8. CASE CheckBeforeRetry(w)
      BY <2>8 DEF CheckBeforeRetry, BlockedByCancel, MayRetry, Decide, Goto
    <2>9. CASE Settle(w)
      BY <2>9 DEF Settle, WriteGoal, LetGo, Decide, Goto
    <2>10. CASE LeaveLoop(w)
      BY <2>10 DEF LeaveLoop, LetGo, Decide, Goto
    <2> QED
      BY <1>1, <2>1, <2>2, <2>3, <2>4, <2>5, <2>6, <2>7, <2>8, <2>9, <2>10 DEF WorkerStep
  <1>2. ASSUME NEW w \in Workers, ExecutorStep(w) PROVE CancelInv'
    <2>1. CASE BeginHandler(w)
      BY <2>1 DEF BeginHandler, Goto
    <2>2. CASE HandlerEnds(w)
      BY <2>2 DEF HandlerEnds, AfterHandler, Decide, Goto
    <2>3. CASE TimesOut(w)
      BY <2>3 DEF TimesOut, Decide, Goto
    <2>4. CASE AbandonedEnds(w)
      BY <2>4 DEF AbandonedEnds
    <2> QED
      BY <1>2, <2>1, <2>2, <2>3, <2>4 DEF ExecutorStep
  <1>3. ASSUME NEW w \in Workers, ProcessStep(w) PROVE CancelInv'
    <2>1. CASE Start(w)
      <3>1. StartThread(w) /\ UNCHANGED <<rowVars, call, faults, history>>
        BY <2>1 DEF Start
      <3> QED
        BY <3>1, StartMovesNobody
    <2>2. CASE Shutdown(w)
      BY <2>2 DEF Shutdown
    <2>3. CASE CloseExecutor(w)
      BY <2>3 DEF CloseExecutor, Decide, Goto
    <2>4. CASE Crash(w)
      BY <2>4 DEF Crash, LetGo, Decide, Goto
    <2> QED
      BY <1>3, <2>1, <2>2, <2>3, <2>4 DEF ProcessStep
  <1>4. ASSUME NEW w \in Workers, ErrorStep(w) PROVE CancelInv'
    <2>1. CASE StrandError(w)
      BY <2>1 DEF StrandError, LetGo, Decide, Goto
    <2>2. CASE ClaimError(w)
      BY <2>2 DEF ClaimError, Claimable, TakeRow, LetGo, Decide, Goto
    <2>3. CASE FinishError(w)
      BY <2>3 DEF FinishError, WriteGoal, Decide, Goto
    <2> QED
      BY <1>4, <2>1, <2>2, <2>3 DEF ErrorStep
  <1>5. ASSUME NEW w \in Workers, NEW j \in Jobs, Enqueue(w, j) PROVE CancelInv'
    <2>1. StartThread(w)
      BY <1>5 DEF Enqueue
    <2> QED
      BY <1>5, <2>1, StartMovesNobody DEF Enqueue
  <1>6. ASSUME NEW c \in Callers, CancelRead(c) \/ CancelWrite(c) PROVE CancelInv'
    BY <1>6 DEF CancelRead, CancelWrite
  <1>7. CASE UNCHANGED vars
    BY <1>7
  <1> QED
    BY <1>1, <1>2, <1>3, <1>4, <1>5, <1>6, <1>7 DEF Next

(* After cancel() has committed its flag at most one more handler execution *)
(* begins: _execute and _mark_retry_or_terminal look at it before each.    *)
THEOREM CancelIsHeeded == Spec => []CancelStopsExecution
  <1>1. Init => TypeInv /\ CustodyInv /\ CancelInv
    BY TypeInit, CustodyInit, CancelInit
  <1>2. TypeInv /\ CustodyInv /\ CancelInv /\ [Next]_vars
          => (TypeInv /\ CustodyInv /\ CancelInv)'
    BY TypeStep, CustodyStep, CancelStep
  <1>3. CancelInv => CancelStopsExecution
    BY DEF CancelInv, CancelStopsExecution
  <1> QED
    BY <1>1, <1>2, <1>3, PTL DEF Spec

(* ---------------------------------------------------------------------- *)
(* One process: nobody writes attempts between the SELECT and the UPDATE   *)
(* of a claim, so every claim counts, and every execution had a claim of   *)
(* its own.  (With two processes a claim may write a stale count, and the  *)
(* run JobQueue_stale shows the budget exceeded.)                          *)
OneWorkerInv ==
  /\ \A j \in Jobs : status[j] = "absent" => execs[j] = 0
  /\ \A j \in Jobs : execs[j] <= attempts[j]
  /\ \A w \in Workers :
       /\ pc[w] = "picked" => seen[w] = attempts[cur[w]]
       /\ pc[w] \in {"claimed", "submit", "waiting"} => execs[cur[w]] < attempts[cur[w]]

(* No execution is uncounted at the start.                                 *)
LEMMA OneWorkerInit == Init => OneWorkerInv
  BY DEF Init, OneWorkerInv, HoldingPcs

OneProcess == \A v, w \in Workers : v = w

(* With one worker every execution has an attempt of its own.              *)
LEMMA OneWorkerStep == OneProcess /\ TypeInv /\ CustodyInv /\ BudgetInv /\ OneWorkerInv /\ [Next]_vars => OneWorkerInv'
  <1> SUFFICES ASSUME OneProcess, TypeInv, CustodyInv, BudgetInv, OneWorkerInv, [Next]_vars PROVE OneWorkerInv'
    OBVIOUS
  <1> USE DEF TypeInv, TypeOK, BusyHasRow, BusyPcs, Pcs, HoldingPcs, CustodyInv, OneHolder,
              HeldNotFree, PickedExists, CallInv, GoalInv, Holds, OneProcess, OneWorkerInv, BudgetInv,
              RowBudget, WorkerBudget, rowVars, workVars, procVars, history, vars
  <1>1. ASSUME NEW w \in Workers, WorkerStep(w) PROVE OneWorkerInv'
    <2>1. CASE SelectCandidate(w)
      BY <2>1 DEF SelectCandidate, Goto, Oldest
    <2>2. CASE Claim(w)
      BY <2>2 DEF Claim, Claimable, TakeRow, Goto
    <2>3. CASE ClaimLost(w)
      BY <2>3 DEF ClaimLost, LetGo, Decide, Goto
    <2>4. CASE CheckBeforeRun(w)
      BY <2>4 DEF CheckBeforeRun, BlockedByCancel, Decide, Goto
    <2>5. CASE Submit(w)
      BY <2>5 DEF Submit, LetGo, Decide, Goto
    <2>6. CASE CheckAfterRun(w)
      BY <2>6 DEF CheckAfterRun, Decide, Goto
    <2>7. CASE Finish(w)
      BY <2>7 DEF Finish, WriteGoal, LetGo, Decide, Goto
    <2>8. CASE CheckBeforeRetry(w)
      BY <2>8 DEF CheckBeforeRetry, BlockedByCancel, MayRetry, Decide, Goto
    <2>9. CASE Settle(w)
      BY <2>9 DEF Settle, WriteGoal, LetGo, Decide, Goto
    <2>10. CASE LeaveLoop(w)
      BY <2>10 DEF LeaveLoop, LetGo, Decide, Goto
    <2> QED
      BY <1>1, <2>1, <2>2, <2>3, <2>4, <2>5, <2>6, <2>7, <2>8, <2>9, <2>10 DEF WorkerStep
  <1>2. ASSUME NEW w \in Workers, ExecutorStep(w) PROVE OneWorkerInv'
    <2>1. CASE BeginHandler(w)
      BY <2>1 DEF BeginHandler, Goto
    <2>2. CASE HandlerEnds(w)
      BY <2>2 DEF HandlerEnds, AfterHandler, Decide, Goto
    <2>3. CASE TimesOut(w)
      BY <2>3 DEF TimesOut, Decide, Goto
    <2>4. CASE AbandonedEnds(w)
      BY <2>4 DEF AbandonedEnds
    <2> QED
      BY <1>2, <2>1, <2>2, <2>3, <2>4 DEF ExecutorStep
  <1>3. ASSUME NEW w \in Workers, ProcessStep(w) PROVE OneWorkerInv'
    <2>1. CASE Start(w)
      <3>1. StartThread(w) /\ UNCHANGED <<rowVars, call, faults, history>>
        BY <2>1 DEF Start
      <3> QED
        BY <3>1, StartMovesNobody
    <2>2. CASE Shutdown(w)
      BY <2>2 DEF Shutdown
    <2>3. CASE CloseExecutor(w)
      BY <2>3 DEF CloseExecutor, Decide, Goto
    <2>4. CASE Crash(w)
      BY <2>4 DEF Crash, LetGo, Decide, Goto
    <2> QED
      BY <1>3, <2>1, <2>2, <2>3, <2>4 DEF ProcessStep
  <1>4. ASSUME NEW w \in Workers, ErrorStep(w) PROVE OneWorkerInv'
    <2>1. CASE StrandError(w)
      BY <2>1 DEF StrandError, LetGo, Decide, Goto
    <2>2. CASE ClaimError(w)
      BY <2>2 DEF ClaimError, Claimable, TakeRow, LetGo, Decide, Goto
    <2>3. CASE FinishError(w)
      BY <2>3 DEF FinishError, WriteGoal, Decide, Goto
    <2> QED
      BY <1>4, <2>1, <2>2, <2>3 DEF ErrorStep
  <1>5. ASSUME NEW w \in Workers, NEW j \in Jobs, Enqueue(w, j) PROVE OneWorkerInv'
    <2>1. StartThread(w)
      BY <1>5 DEF Enqueue
    <2> QED
      BY <1>5, <2>1, StartMovesNobody DEF Enqueue
  <1>6. ASSUME NEW c \in Callers, CancelRead(c) \/ CancelWrite(c) PROVE OneWorkerInv'
    BY <1>6 DEF CancelRead, CancelWrite
  <1>7. CASE UNCHANGED vars
    BY <1>7
  <1> QED
    BY <1>1, <1>2, <1>3, <1>4, <1>5, <1>6, <1>7 DEF Next

(* With a single worker process a job's handler begins at most             *)
(* max_retries + 1 times.                                                  *)
THEOREM OneProcessKeepsBudget == ASSUME OneProcess PROVE Spec => []ExecutionsWithinBudget
  <1>1. Init => TypeInv /\ CustodyInv /\ BudgetInv /\ OneWorkerInv
    BY TypeInit, CustodyInit, BudgetInit, OneWorkerInit
  <1>2. TypeInv /\ CustodyInv /\ BudgetInv /\ OneWorkerInv /\ [Next]_vars
          => (TypeInv /\ CustodyInv /\ BudgetInv /\ OneWorkerInv)'
    BY TypeStep, CustodyStep, BudgetStep, OneWorkerStep
  <1>3. TypeInv /\ BudgetInv /\ OneWorkerInv => ExecutionsWithinBudget
    BY DEF TypeInv, TypeOK, BudgetInv, RowBudget, OneWorkerInv, ExecutionsWithinBudget
  <1> QED
    BY <1>1, <1>2, <1>3, PTL DEF Spec

(* ---------------------------------------------------------------------- *)
(* Finality: a settled row that no worker holds and no cancel call works   *)
(* on never changes again and is never executed again.                     *)
FinalStep ==
  \A j \in Jobs : Quiet(j) =>
    /\ status'[j] = status[j]
    /\ attempts'[j] = attempts[j]
    /\ execs'[j] = execs[j]

(* No step touches a row that is final.                                    *)
LEMMA FinalityStep == TypeInv /\ CustodyInv /\ [Next]_vars => FinalStep
  <1> SUFFICES ASSUME TypeInv, CustodyInv, [Next]_vars PROVE FinalStep
    OBVIOUS
  <1> USE DEF TypeInv, TypeOK, BusyHasRow, BusyPcs, Pcs, HoldingPcs, CustodyInv, OneHolder,
              HeldNotFree, PickedExists, CallInv, GoalInv, Holds, FinalStep, Quiet, Terminal, NoCall,
              rowVars, workVars, procVars, history, vars
  <1>1. ASSUME NEW w \in Workers, WorkerStep(w) PROVE FinalStep
    <2>1. CASE SelectCandidate(w)
      BY <2>1 DEF SelectCandidate, Goto, Oldest
    <2>2. CASE Claim(w)
      BY <2>2 DEF Claim, Claimable, TakeRow, Goto
    <2>3. CASE ClaimLost(w)
      BY <2>3 DEF ClaimLost, LetGo, Decide, Goto
    <2>4. CASE CheckBeforeRun(w)
      BY <2>4 DEF CheckBeforeRun, BlockedByCancel, Decide, Goto
    <2>5. CASE Submit(w)
      BY <2>5 DEF Submit, LetGo, Decide, Goto
    <2>6. CASE CheckAfterRun(w)
      BY <2>6 DEF CheckAfterRun, Decide, Goto
    <2>7. CASE Finish(w)
      BY <2>7 DEF Finish, WriteGoal, LetGo, Decide, Goto
    <2>8. CASE CheckBeforeRetry(w)
      BY <2>8 DEF CheckBeforeRetry, BlockedByCancel, MayRetry, Decide, Goto
    <2>9. CASE Settle(w)
      BY <2>9 DEF Settle, WriteGoal, LetGo, Decide, Goto
    <2>10. CASE LeaveLoop(w)
      BY <2>10 DEF LeaveLoop, LetGo, Decide, Goto
    <2> QED
      BY <1>1, <2>1, <2>2, <2>3, <2>4, <2>5, <2>6, <2>7, <2>8, <2>9, <2>10 DEF WorkerStep
  <1>2. ASSUME NEW w \in Workers, ExecutorStep(w) PROVE FinalStep
    <2>1. CASE BeginHandler(w)
      BY <2>1 DEF BeginHandler, Goto
    <2>2. CASE HandlerEnds(w)
      BY <2>2 DEF HandlerEnds, AfterHandler, Decide, Goto
    <2>3. CASE TimesOut(w)
      BY <2>3 DEF TimesOut, Decide, Goto
    <2>4. CASE AbandonedEnds(w)
      BY <2>4 DEF AbandonedEnds
    <2> QED
      BY <1>2, <2>1, <2>2, <2>3, <2>4 DEF ExecutorStep
  <1>3. ASSUME NEW w \in Workers, ProcessStep(w) PROVE FinalStep
    <2>1. CASE Start(w)
      <3>1. StartThread(w) /\ UNCHANGED <<rowVars, call, faults, history>>
        BY <2>1 DEF Start
      <3> QED
        BY <3>1, StartMovesNobody
    <2>2. CASE Shutdown(w)
      BY <2>2 DEF Shutdown
    <2>3. CASE CloseExecutor(w)
      BY <2>3 DEF CloseExecutor, Decide, Goto
    <2>4. CASE Crash(w)
      BY <2>4 DEF Crash, LetGo, Decide, Goto
    <2> QED
      BY <1>3, <2>1, <2>2, <2>3, <2>4 DEF ProcessStep
  <1>4. ASSUME NEW w \in Workers, ErrorStep(w) PROVE FinalStep
    <2>1. CASE StrandError(w)
      BY <2>1 DEF StrandError, LetGo, Decide, Goto
    <2>2. CASE ClaimError(w)
      BY <2>2 DEF ClaimError, Claimable, TakeRow, LetGo, Decide, Goto
    <2>3. CASE FinishError(w)
      BY <2>3 DEF FinishError, WriteGoal, Decide, Goto
    <2> QED
      BY <1>4, <2>1, <2>2, <2>3 DEF ErrorStep
  <1>5. ASSUME NEW w \in Workers, NEW j \in Jobs, Enqueue(w, j) PROVE FinalStep
    <2>1. StartThread(w)
      BY <1>5 DEF Enqueue
    <2> QED
      BY <1>5, <2>1, StartMovesNobody DEF Enqueue
  <1>6. ASSUME NEW c \in Callers, CancelRead(c) \/ CancelWrite(c) PROVE FinalStep
    BY <1>6 DEF CancelRead, CancelWrite
  <1>7. CASE UNCHANGED vars
    BY <1>7
  <1> QED
    BY <1>1, <1>2, <1>3, <1>4, <1>5, <1>6, <1>7 DEF Next

(* No step of a worker, of cancel, of enqueue or of a process changes a row *)
(* that is settled and that nobody works on, or executes it again: claims  *)
(* take queued rows only, and every other UPDATE is made by the holder.    *)
THEOREM SettledRowsAreFinal == Spec => SettledIsFinal
  <1>1. Init => TypeInv /\ CustodyInv
    BY TypeInit, CustodyInit
  <1>2. TypeInv /\ CustodyInv /\ [Next]_vars => (TypeInv /\ CustodyInv)'
    BY TypeStep, CustodyStep
  <1>3. TypeInv /\ CustodyInv /\ [Next]_vars => [FinalStep]_vars
    BY FinalityStep
  <1>4. Spec => [][FinalStep]_vars
    BY <1>1, <1>2, <1>3, PTL DEF Spec
  <1> QED
    BY <1>4 DEF SettledIsFinal, FinalStep

(* ---------------------------------------------------------------------- *)
(* Refinement: the queue implements the custody discipline.                *)
HeldMap == [w \in Workers |-> IF pc[w] \in HoldingPcs THEN cur[w] ELSE NoJob]
OpenMap == {j \in Jobs : status[j] = "queued"}
KnownMap == {j \in Jobs : status[j] # "absent"}

Submits(j) ==
  /\ j \notin KnownMap
  /\ KnownMap' = KnownMap \cup {j}
  /\ OpenMap' = OpenMap \cup {j}
  /\ HeldMap' = HeldMap

Withdraws(j) ==
  /\ j \in OpenMap
  /\ OpenMap' = OpenMap \ {j}
  /\ KnownMap' = KnownMap
  /\ HeldMap' = HeldMap

Releases(w) ==
  /\ HeldMap[w] # NoJob
  /\ HeldMap' = [HeldMap EXCEPT ![w] = NoJob]
  /\ OpenMap' \in {OpenMap, OpenMap \cup {HeldMap[w]}}
  /\ KnownMap' = KnownMap

Acquires(w, j) ==
  /\ HeldMap[w] = NoJob
  /\ j \in OpenMap
  /\ \A v \in Workers : HeldMap[v] # j
  /\ HeldMap' = [HeldMap EXCEPT ![w] = j]
  /\ OpenMap' = OpenMap \ {j}
  /\ KnownMap' = KnownMap

CustodyMove ==
  \/ KnownMap' = KnownMap /\ OpenMap' = OpenMap /\ HeldMap' = HeldMap
  \/ \E j \in Jobs : Submits(j) \/ Withdraws(j)
  \/ \E w \in Workers : Releases(w) \/ \E j \in Jobs : Acquires(w, j)

(* A worker that forgets its row gives up custody of it. *)
LEMMA LetGoReleases ==
  ASSUME TypeInv, NEW w \in Workers, NEW p \in {"poll", "off"}, LetGo(w, p)
  PROVE  HeldMap' = [HeldMap EXCEPT ![w] = NoJob]
  BY DEF TypeInv, TypeOK, HeldMap, HoldingPcs, LetGo, Decide, Goto

(* The write of a final status or of "queued" to a held row. *)
LEMMA GoalWriteMaps ==
  ASSUME TypeInv, CustodyInv, NEW w \in Workers, pc[w] \in HoldingPcs, WriteGoal(w),
         goal[w] # "absent"
  PROVE  /\ HeldMap[w] = cur[w] /\ cur[w] \in Jobs
         /\ KnownMap' = KnownMap
         /\ goal[w] = "queued" => OpenMap' = OpenMap \cup {cur[w]}
         /\ goal[w] # "queued" => OpenMap' = OpenMap
  BY DEF TypeInv, TypeOK, BusyHasRow, BusyPcs, CustodyInv, HeldNotFree, Holds, HeldMap,
         KnownMap, OpenMap, WriteGoal

(* Every step of the queue is a step of Custody, or leaves custody alone.  *)
LEMMA CustodyMoves == TypeInv /\ CustodyInv /\ [Next]_vars => CustodyMove
  <1> SUFFICES ASSUME TypeInv, CustodyInv, [Next]_vars PROVE CustodyMove
    OBVIOUS
  <1> USE JobsAssumption DEF TypeInv, TypeOK, BusyHasRow, BusyPcs, Pcs, HoldingPcs, CustodyInv,
              OneHolder, HeldNotFree, PickedExists, CallInv, GoalInv, Holds, NoCall, HeldMap, OpenMap,
              KnownMap, rowVars, workVars, procVars, history, vars
  <1>1. ASSUME NEW w \in Workers, WorkerStep(w) PROVE CustodyMove
    <2>1. CASE SelectCandidate(w)
      BY <2>1 DEF CustodyMove, SelectCandidate, Goto, Oldest
    <2>2. CASE Claim(w)
      <3> DEFINE j == cur[w]
      <3>1. j \in Jobs /\ j \in OpenMap /\ OpenMap' = OpenMap \ {j} /\ KnownMap' = KnownMap
        BY <2>2 DEF Claim, Claimable, TakeRow
      <3>2. HeldMap[w] = NoJob /\ \A v \in Workers : HeldMap[v] # j
        BY <2>2 DEF Claim, Claimable
      <3>3. pc' = [pc EXCEPT ![w] = "claimed"] /\ cur' = cur
        BY <2>2 DEF Claim, Goto
      <3>4. HeldMap' = [HeldMap EXCEPT ![w] = j]
        BY <3>3
      <3> HIDE DEF j
      <3> QED
        BY <3>1, <3>2, <3>4 DEF CustodyMove, Acquires
    <2>3. CASE ClaimLost(w)
      BY <2>3 DEF CustodyMove, ClaimLost, LetGo, Decide, Goto
    <2>4. CASE CheckBeforeRun(w)
      BY <2>4 DEF CustodyMove, CheckBeforeRun, BlockedByCancel, Decide, Goto
    <2>5. CASE Submit(w)
      <3>1. OpenMap' = OpenMap /\ KnownMap' = KnownMap
        BY <2>5 DEF Submit
      <3>2. CASE w \in closed
        <4>1. HeldMap' = [HeldMap EXCEPT ![w] = NoJob]
          BY <2>5, <3>2, LetGoReleases DEF Submit
        <4>2. HeldMap[w] # NoJob
          BY <2>5 DEF Submit
        <4> QED
          BY <3>1, <4>1, <4>2 DEF CustodyMove, Releases
      <3>3. CASE w \notin closed
        <4>1. HeldMap' = HeldMap
          BY <2>5, <3>3 DEF Submit, Goto
        <4> QED
          BY <3>1, <4>1 DEF CustodyMove
      <3> QED
        BY <3>2, <3>3
    <2>6. CASE CheckAfterRun(w)
      BY <2>6 DEF CustodyMove, CheckAfterRun, Decide, Goto
    <2>7. CASE Finish(w)
      <3>1. /\ HeldMap[w] = cur[w] /\ cur[w] \in Jobs
            /\ KnownMap' = KnownMap
            /\ OpenMap' \in {OpenMap, OpenMap \cup {cur[w]}}
        BY <2>7, GoalWriteMaps DEF Finish
      <3>2. HeldMap' = [HeldMap EXCEPT ![w] = NoJob]
        BY <2>7, LetGoReleases DEF Finish
      <3> QED
        BY <3>1, <3>2 DEF CustodyMove, Releases
    <2>8. CASE CheckBeforeRetry(w)
      BY <2>8 DEF CustodyMove, CheckBeforeRetry, BlockedByCancel, MayRetry, Decide, Goto
    <2>9. CASE Settle(w)
      <3>1. /\ HeldMap[w] = cur[w] /\ cur[w] \in Jobs
            /\ KnownMap' = KnownMap
            /\ OpenMap' \in {OpenMap, OpenMap \cup {cur[w]}}
        BY <2>9, GoalWriteMaps DEF Settle
      <3>2. HeldMap' = [HeldMap EXCEPT ![w] = NoJob]
        BY <2>9, LetGoReleases DEF Settle
      <3> QED
        BY <3>1, <3>2 DEF CustodyMove, Releases
    <2>10. CASE LeaveLoop(w)
      BY <2>10 DEF CustodyMove, LeaveLoop, LetGo, Decide, Goto
    <2> QED
      BY <1>1, <2>1, <2>2, <2>3, <2>4, <2>5, <2>6, <2>7, <2>8, <2>9, <2>10 DEF WorkerStep
  <1>2. ASSUME NEW w \in Workers, ExecutorStep(w) PROVE CustodyMove
    <2>1. CASE BeginHandler(w)
      BY <2>1 DEF CustodyMove, BeginHandler, Goto
    <2>2. CASE HandlerEnds(w)
      BY <2>2 DEF CustodyMove, HandlerEnds, AfterHandler, Decide, Goto
    <2>3. CASE TimesOut(w)
      BY <2>3 DEF CustodyMove, TimesOut, Decide, Goto
    <2>4. CASE AbandonedEnds(w)
      BY <2>4 DEF CustodyMove, AbandonedEnds
    <2> QED
      BY <1>2, <2>1, <2>2, <2>3, <2>4 DEF ExecutorStep
  <1>3. ASSUME NEW w \in Workers, ProcessStep(w) PROVE CustodyMove
    <2>1. CASE Start(w)
      <3>1. StartThread(w) /\ UNCHANGED <<rowVars, call, faults, history>>
        BY <2>1 DEF Start
      <3> QED
        BY <3>1, StartMovesNobody DEF CustodyMove
    <2>2. CASE Shutdown(w)
      BY <2>2 DEF CustodyMove, Shutdown
    <2>3. CASE CloseExecutor(w)
      BY <2>3 DEF CustodyMove, CloseExecutor, Decide, Goto
    <2>4. CASE Crash(w)
      <3>1. OpenMap' = OpenMap /\ KnownMap' = KnownMap
        BY <2>4 DEF Crash
      <3>2. HeldMap' = [HeldMap EXCEPT ![w] = NoJob]
        BY <2>4, LetGoReleases DEF Crash
      <3>3. CASE HeldMap[w] = NoJob
        <4>1. HeldMap' = HeldMap
          BY <3>2, <3>3
        <4> QED
          BY <3>1, <4>1 DEF CustodyMove
      <3>4. CASE HeldMap[w] # NoJob
        BY <3>1, <3>2, <3>4 DEF CustodyMove, Releases
      <3> QED
        BY <3>3, <3>4
    <2> QED
      BY <1>3, <2>1, <2>2, <2>3, <2>4 DEF ProcessStep
  <1>4. ASSUME NEW w \in Workers, ErrorStep(w) PROVE CustodyMove
    <2>1. CASE StrandError(w)
      <3>1. OpenMap' = OpenMap /\ KnownMap' = KnownMap
        BY <2>1 DEF StrandError
      <3>2. HeldMap' = [HeldMap EXCEPT ![w] = NoJob]
        BY <2>1, LetGoReleases DEF StrandError
      <3>3. HeldMap[w] # NoJob
        BY <2>1 DEF StrandError
      <3> QED
        BY <3>1, <3>2, <3>3 DEF CustodyMove, Releases
    <2>2. CASE ClaimError(w)
      <3> DEFINE j == cur[w]
      <3>1. j \in Jobs /\ j \in OpenMap /\ OpenMap' = OpenMap \ {j} /\ KnownMap' = KnownMap
        BY <2>2 DEF ClaimError, Claimable, TakeRow
      <3>2. HeldMap' = [HeldMap EXCEPT ![w] = NoJob]
        BY <2>2, LetGoReleases DEF ClaimError
      <3>3. HeldMap' = HeldMap
        BY <2>2, <3>2 DEF ClaimError
      <3> HIDE DEF j
      <3> QED
        BY <3>1, <3>3 DEF CustodyMove, Withdraws
    <2>3. CASE FinishError(w)
      BY <2>3 DEF CustodyMove, FinishError, WriteGoal, Decide, Goto
    <2> QED
      BY <1>4, <2>1, <2>2, <2>3 DEF ErrorStep
  <1>5. ASSUME NEW w \in Workers, NEW j \in Jobs, Enqueue(w, j) PROVE CustodyMove
    <2>1. HeldMap' = HeldMap
      <3>1. StartThread(w)
        BY <1>5 DEF Enqueue
      <3> QED
        BY <3>1, StartMovesNobody
    <2>2. /\ OpenMap' = OpenMap \cup {j}
          /\ KnownMap' = KnownMap \cup {j}
          /\ j \notin KnownMap
      BY <1>5 DEF Enqueue
    <2> QED
      BY <2>1, <2>2 DEF CustodyMove, Submits
  <1>6. ASSUME NEW c \in Callers, CancelRead(c) \/ CancelWrite(c) PROVE CustodyMove
    <2>1. HeldMap' = HeldMap
      BY <1>6 DEF CancelRead, CancelWrite
    <2>2. CASE CancelRead(c)
      <3>1. OpenMap' = OpenMap /\ KnownMap' = KnownMap
        BY <2>2 DEF CancelRead
      <3> QED
        BY <2>1, <3>1 DEF CustodyMove
    <2>3. CASE CancelWrite(c)
      <3> DEFINE k == call[c].job
      <3>1. k \in Jobs /\ status[k] # "absent"
        BY <2>3 DEF CancelWrite
      <3>2. PICK s \in {"cancelled", "cancelling"} : status' = [status EXCEPT ![k] = s]
        BY <2>3 DEF CancelWrite
      <3> HIDE DEF k
      <3>3. OpenMap' = OpenMap \ {k} /\ KnownMap' = KnownMap
        BY <3>1, <3>2
      <3>4. CASE k \in OpenMap
        BY <2>1, <3>1, <3>3, <3>4 DEF CustodyMove, Withdraws
      <3>5. CASE k \notin OpenMap
        <4>1. OpenMap' = OpenMap
          BY <3>3, <3>5
        <4> QED
          BY <2>1, <3>3, <4>1 DEF CustodyMove
      <3> QED
        BY <3>4, <3>5
    <2> QED
      BY <1>6, <2>2, <2>3
  <1>7. CASE UNCHANGED vars
    BY <1>7 DEF CustodyMove
  <1> QED
    BY <1>1, <1>2, <1>3, <1>4, <1>5, <1>6, <1>7 DEF Next

(* The workers of job_queue.py hand rows around as Custody says: the       *)
(* conditional UPDATE takes an open row nobody has, and only the worker that *)
(* holds a row opens it again.                                             *)
THEOREM QueueImplementsCustody == Spec => ImplementsCustody
  <1>1. Init => TypeInv /\ CustodyInv
    BY TypeInit, CustodyInit
  <1>2. TypeInv /\ CustodyInv /\ [Next]_vars => (TypeInv /\ CustodyInv)'
    BY TypeStep, CustodyStep
  <1>3. Init => Owner!Init
    BY DEF Init, Owner!Init, HoldingPcs
  <1>4. TypeInv /\ CustodyInv /\ [Next]_vars => [Owner!Next]_(Owner!custodyVars)
    BY CustodyMoves
    DEF CustodyMove, Submits, Withdraws, Releases, Acquires, KnownMap, OpenMap, HeldMap,
        Owner!Next, Owner!custodyVars, Owner!Submit,
        Owner!Withdraw, Owner!Release, Owner!Acquire
  <1> QED
    BY <1>1, <1>2, <1>3, <1>4, PTL DEF Spec, ImplementsCustody, Owner!Spec
=============================================================================
