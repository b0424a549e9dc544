---------------------------- MODULE DiscoveryJob ----------------------------
(***************************************************************************)
(* The life of a discovery run in discovery-worker: POST /jobs, the crawl    *)
(* task, cancel, delete, and the reconciliation at startup.                  *)
(*                                                                          *)
(* Database calls run in threads (asyncio.to_thread).  Cancelling a task     *)
(* ends its coroutine at once, but a thread it waited for still commits: such*)
(* a write moves from the task to the set late.  A task's step commits its    *)
(* write and resumes the coroutine in one action; a cancel that falls between *)
(* the two is the cancel of the next step.                                   *)
(*                                                                          *)
(* The rows and observations a crawl collects are abstracted to whether there *)
(* are any; evidence and observations count how often they were stored.      *)
(***************************************************************************)
EXTENDS Naturals, FiniteSets

CONSTANTS
  Jobs,         \* run ids, a uuid4 of control-api each
  Mismatched,   \* jobs whose seed_url is not on their scope's hostname
  Cancels,      \* cancel requests that can be in flight at once
  MaxRequests,  \* bound on the HTTP requests of a crawl
  MaxErrors,    \* bound on failed database calls and unexpected exceptions
  MaxRestarts,  \* bound on restarts of the worker
  None

ASSUME InputAssumption ==
  /\ Mismatched \subseteq Jobs
  /\ MaxRequests \in Nat \ {0}
  /\ MaxErrors \in Nat /\ MaxRestarts \in Nat

Active == {"queued", "running"}
Outcomes == {"completed", "failed", "interrupted", "rejected"}
Statuses == Active \cup Outcomes \cup {"cancelled"}

\* What each step of run_discovery waits for; fetch waits for the target.
Writes == [start |-> "running", page |-> "running",
           evidence |-> "evidence", observations |-> "observations",
           complete |-> "completed",
           retryEvidence |-> "evidence", retryObservations |-> "observations",
           fail |-> "failed", reject |-> "rejected"]
Guarded == {"start", "page", "fetch", "evidence", "observations", "complete"}

Tasks == [at : DOMAIN Writes \cup {"fetch"}, left : 0..MaxRequests,
          rows : BOOLEAN, obs : BOOLEAN]
LateWrites == [job : Jobs, write : {Writes[step] : step \in DOMAIN Writes}]
CancelRequests == [job : Jobs, at : {"lookup", "update"}]

\* None is the missing row, the ended task and the idle cancel request.
ASSUME NoneAssumption == None \notin Statuses \cup Tasks \cup CancelRequests

VARIABLES
  runs,          \* status column of discovery_runs
  evidence,      \* times the rows of a run are in discovery_evidence
  observations,  \* times its observations are in discovery_observations
  received,      \* progress of POST /jobs
  task,          \* running_tasks
  late,          \* writes whose coroutine is gone
  deleting,      \* runs a DELETE request has read as ended
  cancel,        \* progress of the cancel requests
  strayed,       \* ghost: runs whose last write was late or lost
  deleted,       \* ghost: runs deleted
  errors, restarts

tables == <<runs, evidence, observations>>
ghosts == <<strayed, deleted>>
bounds == <<errors, restarts>>
vars == <<tables, received, task, late, deleting, cancel, ghosts, bounds>>

NewTask(j) ==
  [at |-> IF j \in Mismatched THEN "reject" ELSE "start", left |-> MaxRequests,
   rows |-> FALSE, obs |-> FALSE]

Init ==
  /\ runs = [j \in Jobs |-> None]
  /\ evidence = [j \in Jobs |-> 0]
  /\ observations = [j \in Jobs |-> 0]
  /\ received = [j \in Jobs |-> "new"]
  /\ task = [j \in Jobs |-> None]
  /\ late = {} /\ deleting = {}
  /\ cancel = [k \in Cancels |-> None]
  /\ strayed = {} /\ deleted = {}
  /\ errors = 0 /\ restarts = 0

-----------------------------------------------------------------------------
(* POST /jobs: the row is committed before the task exists *)

ReceiveSave(j) ==
  /\ received[j] = "new"
  /\ runs' = [runs EXCEPT ![j] = "queued"]
  /\ received' = [received EXCEPT ![j] = "saved"]
  /\ UNCHANGED <<evidence, observations, task, late, deleting, cancel, ghosts, bounds>>

ReceiveStart(j) ==
  /\ received[j] = "saved"
  /\ received' = [received EXCEPT ![j] = "started"]
  /\ task' = [task EXCEPT ![j] = NewTask(j)]
  /\ UNCHANGED <<tables, late, deleting, cancel, ghosts, bounds>>

-----------------------------------------------------------------------------
(* The tables.  A status is an upsert; evidence refers to its run, and goes   *)
(* with it when the run is deleted.                                          *)

Storable(j, w) == w \in {"evidence", "observations"} => runs[j] # None

Store(j, w) ==
  /\ Storable(j, w)
  /\ runs' = IF w \in Statuses THEN [runs EXCEPT ![j] = w] ELSE runs
  /\ evidence' = IF w = "evidence" THEN [evidence EXCEPT ![j] = @ + 1] ELSE evidence
  /\ observations' = IF w = "observations" THEN [observations EXCEPT ![j] = @ + 1]
                                           ELSE observations

-----------------------------------------------------------------------------
(* run_discovery *)

\* Saving an empty list returns without a transaction; the except branch does not
\* even call it.
Empty(t) == \/ t.at \in {"evidence", "retryEvidence"} /\ ~ t.rows
            \/ t.at \in {"observations", "retryObservations"} /\ ~ t.obs

After(t) ==
  LET to(step) == [t EXCEPT !.at = step]
  IN  CASE t.at = "start"             -> {to("page"), to("evidence")}
        [] t.at = "page"              -> {to("fetch")}
        [] t.at = "evidence"          -> {to("observations")}
        [] t.at = "observations"      -> {to("complete")}
        [] t.at = "retryEvidence"     -> {to("retryObservations")}
        [] t.at = "retryObservations" -> {to("fail")}
        [] OTHER                      -> {None}

TaskWrites(j) ==
  /\ task[j] # None /\ task[j].at \in DOMAIN Writes
  /\ IF Empty(task[j]) THEN UNCHANGED tables ELSE Store(j, Writes[task[j].at])
  /\ \E t \in After(task[j]) : task' = [task EXCEPT ![j] = t]
  /\ UNCHANGED <<received, late, deleting, cancel, ghosts, bounds>>

\* A response, or its error, always leaves evidence; the observation of a page
\* comes after its assets, each of which is another status write and request.
Fetch(j) ==
  /\ task[j] # None /\ task[j].at = "fetch"
  /\ LET left == task[j].left - 1
         to(step, obs) == [at |-> step, left |-> left, rows |-> TRUE, obs |-> obs]
     IN  \/ /\ left > 0
            /\ \E obs \in {task[j].obs, TRUE} :
                 task' = [task EXCEPT ![j] = to("page", obs)]
         \/ task' = [task EXCEPT ![j] = to("evidence", TRUE)]
  /\ UNCHANGED <<tables, received, late, deleting, cancel, ghosts, bounds>>

\* A response may have been taken in part when it raises.
Handlers(t) ==
  LET h == [t EXCEPT !.at = "retryEvidence"]
  IN  IF t.at = "fetch"
      THEN {[h EXCEPT !.rows = rows, !.obs = obs] :
              rows \in {t.rows, TRUE}, obs \in {t.obs, TRUE}}
      ELSE {h}

\* Evidence of a deleted run always fails; anything else may.
Fails(j) ==
  /\ ~ Empty(task[j])
  /\ IF task[j].at # "fetch" /\ ~ Storable(j, Writes[task[j].at])
     THEN UNCHANGED errors
     ELSE errors < MaxErrors /\ errors' = errors + 1

\* Mutant of TaskRaises: an error while storing observations is passed over.
TaskRaisesIgnored(j) ==
  /\ task[j] # None /\ task[j].at \in Guarded
  /\ Fails(j)
  /\ \E t \in IF task[j].at = "observations" THEN {[task[j] EXCEPT !.at = "complete"]}
            ELSE Handlers(task[j]) :
       task' = [task EXCEPT ![j] = t]
  /\ UNCHANGED <<tables, received, late, deleting, cancel, ghosts, restarts>>

\* Mutant of TaskRaises: there is no except branch.
TaskRaisesUncaught(j) ==
  /\ task[j] # None /\ task[j].at \in Guarded
  /\ Fails(j)
  /\ task' = [task EXCEPT ![j] = None]
  /\ UNCHANGED <<tables, received, late, deleting, cancel, ghosts, restarts>>

\* except Exception: what was collected is saved, perhaps again.
TaskRaises(j) ==
  /\ task[j] # None /\ task[j].at \in Guarded
  /\ Fails(j)
  /\ \E t \in Handlers(task[j]) : task' = [task EXCEPT ![j] = t]
  /\ UNCHANGED <<tables, received, late, deleting, cancel, ghosts, restarts>>

\* An error in the except branch, or in the rejection, ends the task.
TaskDies(j) ==
  /\ task[j] # None /\ task[j].at \notin Guarded
  /\ Fails(j)
  /\ task' = [task EXCEPT ![j] = None]
  /\ strayed' = strayed \cup {j}
  /\ UNCHANGED <<tables, received, late, deleting, cancel, deleted, restarts>>

\* A thread that outlives its coroutine commits or fails.
LateCommit(l) ==
  /\ l \in late
  /\ late' = late \ {l}
  /\ Store(l.job, l.write)
  /\ strayed' = IF l.write = "running" THEN strayed \cup {l.job} ELSE strayed
  /\ UNCHANGED <<received, task, deleting, cancel, deleted, bounds>>

LateDrop(l) ==
  /\ l \in late
  /\ late' = late \ {l}
  /\ UNCHANGED <<tables, received, task, deleting, cancel, ghosts, bounds>>

-----------------------------------------------------------------------------
(* POST /jobs/{id}/cancel and DELETE /jobs/{id} *)

CancelRead(k, j) ==
  /\ cancel[k] = None /\ runs[j] \in Active
  /\ cancel' = [cancel EXCEPT ![k] = [job |-> j, at |-> "lookup"]]
  /\ UNCHANGED <<tables, received, task, late, deleting, ghosts, bounds>>

CancelTask(k) ==
  /\ cancel[k] # None /\ cancel[k].at = "lookup"
  /\ LET j == cancel[k].job
         t == task[j]
     IN  /\ task' = [task EXCEPT ![j] = None]
         /\ late' = IF t # None /\ t.at # "fetch" /\ ~ Empty(t)
                    THEN late \cup {[job |-> j, write |-> Writes[t.at]]} ELSE late
  /\ cancel' = [cancel EXCEPT ![k].at = "update"]
  /\ UNCHANGED <<tables, received, deleting, ghosts, bounds>>

\* An UPDATE, not an upsert; the answer does not depend on whether it hit a row.
CancelUpdate(k) ==
  /\ cancel[k] # None /\ cancel[k].at = "update"
  /\ LET j == cancel[k].job
     IN  runs' = IF runs[j] = None THEN runs ELSE [runs EXCEPT ![j] = "cancelled"]
  /\ cancel' = [cancel EXCEPT ![k] = None]
  /\ UNCHANGED <<evidence, observations, received, task, late, deleting, strayed,
                 deleted, bounds>>

CancelFails(k) ==
  /\ cancel[k] # None /\ cancel[k].at = "update"
  /\ errors < MaxErrors /\ errors' = errors + 1
  /\ strayed' = strayed \cup {cancel[k].job}
  /\ cancel' = [cancel EXCEPT ![k] = None]
  /\ UNCHANGED <<tables, received, task, late, deleting, deleted, restarts>>

\* The status is read and the row deleted by two statements of one transaction.
DeleteRead(j) ==
  /\ runs[j] \notin Active \cup {None}
  /\ deleting' = deleting \cup {j}
  /\ UNCHANGED <<tables, received, task, late, cancel, ghosts, bounds>>

DeleteRow(j) ==
  /\ j \in deleting
  /\ deleting' = deleting \ {j}
  /\ runs' = [runs EXCEPT ![j] = None]
  /\ evidence' = [evidence EXCEPT ![j] = 0]
  /\ observations' = [observations EXCEPT ![j] = 0]
  /\ deleted' = deleted \cup {j}
  /\ UNCHANGED <<received, task, late, cancel, strayed, bounds>>

-----------------------------------------------------------------------------
(* The container stops; startup reconciles before the next request *)

ReconciledAll ==
  [j \in Jobs |-> IF runs[j] = None THEN None ELSE "interrupted"]

Reconciled == [j \in Jobs |-> IF runs[j] \in Active THEN "interrupted" ELSE runs[j]]

Restart ==
  /\ restarts < MaxRestarts /\ restarts' = restarts + 1
  /\ runs' = Reconciled
  /\ received' =
       [j \in Jobs |-> IF received[j] = "saved" THEN "started" ELSE received[j]]
  /\ task' = [j \in Jobs |-> None]
  /\ late' = {} /\ deleting' = {}
  /\ cancel' = [k \in Cancels |-> None]
  /\ strayed' = {}
  /\ UNCHANGED <<evidence, observations, deleted, errors>>

TaskStep(j) == TaskWrites(j) \/ Fetch(j)
CancelStep(k) == CancelTask(k) \/ CancelUpdate(k)

JobStep(j) ==
  \/ ReceiveSave(j) \/ ReceiveStart(j)
  \/ TaskStep(j) \/ TaskRaises(j) \/ TaskDies(j)
  \/ DeleteRead(j) \/ DeleteRow(j)

Next ==
  \/ \E j \in Jobs : JobStep(j)
  \/ \E l \in late : LateCommit(l) \/ LateDrop(l)
  \/ \E k \in Cancels, j \in Jobs : CancelRead(k, j)
  \/ \E k \in Cancels : CancelStep(k) \/ CancelFails(k)
  \/ Restart

Spec == Init /\ [][Next]_vars

\* The event loop and the thread pool run what is ready.
Fairness ==
  /\ \A j \in Jobs : /\ WF_vars(ReceiveStart(j))
                     /\ WF_vars(TaskStep(j) \/ TaskRaises(j) \/ TaskDies(j))
  /\ \A k \in Cancels : WF_vars(CancelStep(k) \/ CancelFails(k))

FairSpec == Spec /\ Fairness

-----------------------------------------------------------------------------
(* Properties *)

\* A run that says completed has all its crawl collected, evidence and
\* observations each stored exactly once, however its writes were cut short by
\* errors, cancels and restarts; only a delete may have taken them.
CompletedIsComplete ==
  \A j \in Jobs : runs[j] = "completed" /\ j \notin deleted =>
    evidence[j] = observations[j] /\ evidence[j] \in {0, 1}

\* An outcome, once recorded, stands: no late write, error or restart replaces it,
\* only a delete or a cancel that had read the run as active.
OutcomeStands ==
  [][\A j \in Jobs : runs[j] \in Outcomes /\ runs'[j] # runs[j] =>
       \/ runs'[j] = None
       \/ /\ runs'[j] = "cancelled"
          /\ \E k \in Cancels : cancel[k] # None /\ cancel[k].job = j]_vars

\* Every accepted run comes to an end, unless its last write was late or lost.
RunsEnd ==
  \A j \in Jobs : (runs[j] \in Active) ~> (runs[j] \notin Active \/ j \in strayed)
=============================================================================
