------------------------------ MODULE Custody ------------------------------
(***************************************************************************)
(* What the job queue promises about WHO may run a job, and nothing else:  *)
(* a job is open to be taken, or in the custody of one worker, or out of   *)
(* reach.  A worker takes an open job that nobody holds, and only its      *)
(* holder can open it again.  Everything the queue does beyond that        *)
(* (attempts, results, cancel flags, executors) is invisible here.         *)
(***************************************************************************)
CONSTANTS Jobs, Workers, NoJob   \* NoJob is not one of the Jobs

VARIABLES known,    \* jobs that have been submitted
          open,     \* jobs a worker may take
          held      \* the job in each worker's custody, or NoJob

custodyVars == <<known, open, held>>

Init ==
  /\ known = {}
  /\ open = {}
  /\ held = [w \in Workers |-> NoJob]

(* A new job becomes available. *)
Submit(j) ==
  /\ j \notin known
  /\ known' = known \cup {j}
  /\ open' = open \cup {j}
  /\ UNCHANGED held

(* A worker takes an open job, which leaves the set of open ones. *)
Acquire(w, j) ==
  /\ held[w] = NoJob
  /\ j \in open
  /\ \A v \in Workers : held[v] # j
  /\ held' = [held EXCEPT ![w] = j]
  /\ open' = open \ {j}
  /\ UNCHANGED known

(* A worker gives up its job, and may leave it open for another attempt. *)
Release(w) ==
  /\ held[w] # NoJob
  /\ held' = [held EXCEPT ![w] = NoJob]
  /\ open' \in {open, open \cup {held[w]}}
  /\ UNCHANGED known

(* An open job is withdrawn, or is taken by a worker that dies at once. *)
Withdraw(j) ==
  /\ j \in open
  /\ open' = open \ {j}
  /\ UNCHANGED <<known, held>>

Next ==
  \/ \E j \in Jobs : Submit(j) \/ Withdraw(j)
  \/ \E w \in Workers : Release(w) \/ \E j \in Jobs : Acquire(w, j)

Spec == Init /\ [][Next]_custodyVars
=============================================================================
