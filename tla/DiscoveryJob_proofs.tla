------------------------ MODULE DiscoveryJob_proofs ------------------------
(* Proofs about DiscoveryJob, for every set of runs and of cancel requests    *)
(* and every number of fetches, errors and restarts.                         *)
EXTENDS DiscoveryJob, TLAPS

TypeOK ==
  /\ runs \in [Jobs -> Statuses \cup {None}]
  /\ evidence \in [Jobs -> Nat]
  /\ observations \in [Jobs -> Nat]
  /\ received \in [Jobs -> {"new", "saved", "started"}]
  /\ task \in [Jobs -> Tasks \cup {None}]
  /\ late \subseteq LateWrites
  /\ deleting \subseteq Jobs
  /\ cancel \in [Cancels -> CancelRequests \cup {None}]

\* A run's writes come from its task or from the one write the task left behind.
LateOf(j) == {l \in late : l.job = j}
Carried(j) == task[j] # None \/ LateOf(j) # {}

OneWriter(j) ==
  /\ task[j] # None => LateOf(j) = {}
  /\ \A l, m \in LateOf(j) : l = m

\* Nothing writes for a run before its request has made the task.
Fresh(j) ==
  received[j] # "started" =>
    /\ ~ Carried(j)
    /\ received[j] = "new" => runs[j] = None
    /\ runs[j] \notin Outcomes
    /\ evidence[j] = 0 /\ observations[j] = 0

\* A run that has an outcome has no writer left.
EndedIsIdle(j) == Carried(j) => runs[j] \notin Outcomes

\* A crawl that may fetch has a request left.
LeftOver(j) ==
  task[j] # None /\ task[j].at \in {"start", "page", "fetch"} => task[j].left > 0

One(b) == IF b THEN 1 ELSE 0

\* What the tables hold of a crawl when its task is at step t.at.
Collected(j, t) ==
  /\ t.at \in {"start", "page", "fetch", "evidence"} =>
       evidence[j] = 0 /\ observations[j] = 0
  /\ t.at = "start" => ~ t.rows /\ ~ t.obs
  /\ t.at \in {"evidence", "observations", "complete"} => t.rows = t.obs
  /\ t.at = "observations" => evidence[j] = One(t.rows) /\ observations[j] = 0
  /\ t.at = "complete" => evidence[j] = One(t.rows) /\ observations[j] = One(t.rows)

Complete(j) == evidence[j] = observations[j] /\ evidence[j] \in {0, 1}

Progress(j) ==
  j \notin deleted =>
    /\ task[j] # None => Collected(j, task[j])
    /\ \A l \in LateOf(j) : l.write = "completed" => Complete(j)
    /\ runs[j] = "completed" => Complete(j)

RunInv(j) == OneWriter(j) /\ Fresh(j) /\ EndedIsIdle(j) /\ LeftOver(j) /\ Progress(j)

IInv == TypeOK /\ \A j \in Jobs : RunInv(j)

USE InputAssumption

LEMMA NoneTyped ==
  /\ None \notin Outcomes /\ None \notin Active /\ None # "completed"
  /\ None \notin Tasks /\ None \notin CancelRequests
  BY NoneAssumption DEF Statuses, Outcomes

\* What a step of the task writes: an outcome ends the task.
LEMMA WritesTyped ==
  /\ DOMAIN Writes = {"start", "page", "evidence", "observations", "complete",
                      "retryEvidence", "retryObservations", "fail", "reject"}
  /\ Writes["start"] = "running" /\ Writes["page"] = "running"
  /\ Writes["evidence"] = "evidence" /\ Writes["retryEvidence"] = "evidence"
  /\ Writes["observations"] = "observations"
  /\ Writes["retryObservations"] = "observations"
  /\ Writes["complete"] = "completed"
  /\ Writes["fail"] = "failed" /\ Writes["reject"] = "rejected"
  BY DEF Writes

LEMMA InitIInv == Init => IInv
  BY NoneTyped DEF Init, IInv, TypeOK, LeftOver, OneWriter, Fresh, EndedIsIdle, Progress,
                   RunInv, LateOf, Carried

\* A step that leaves a run's rows and writers alone keeps what is said of it.
LEMMA Untouched ==
  ASSUME NEW j \in Jobs, RunInv(j),
         runs'[j] = runs[j], evidence'[j] = evidence[j], observations'[j] = observations[j],
         received'[j] = received[j], task'[j] = task[j], LateOf(j)' = LateOf(j),
         deleted \subseteq deleted'
  PROVE  RunInv(j)'
  BY DEF RunInv, LeftOver, OneWriter, Fresh, EndedIsIdle, Progress, Carried, Collected, Complete

LEMMA ReceiveKeeps ==
  ASSUME IInv, NEW j \in Jobs, ReceiveSave(j) \/ ReceiveStart(j)
  PROVE  IInv'
<1> USE DEF IInv, TypeOK, tables, ghosts
<1>1. ASSUME NEW i \in Jobs, i # j PROVE RunInv(i)'
  BY <1>1, Untouched DEF ReceiveSave, ReceiveStart, LateOf
<1>2. CASE ReceiveSave(j)
  <2>1. TypeOK'
    BY <1>2 DEF ReceiveSave, Statuses, Active
  <2>2. RunInv(j)'
    BY <1>2, NoneTyped DEF ReceiveSave, RunInv, LeftOver, OneWriter, Fresh, EndedIsIdle, Progress,
                           Carried, LateOf, Outcomes
  <2> QED BY <1>1, <2>1, <2>2
<1>3. CASE ReceiveStart(j)
  <2>1. /\ NewTask(j) \in Tasks /\ NewTask(j).left = MaxRequests
        /\ NewTask(j).at \in {"start", "reject"} /\ ~ NewTask(j).rows /\ ~ NewTask(j).obs
    BY WritesTyped DEF NewTask, Tasks
  <2>2. TypeOK' /\ task'[j] = NewTask(j)
    BY <1>3, <2>1 DEF ReceiveStart
  <2>3. RunInv(j)'
    BY <1>3, <2>1, <2>2, NoneTyped DEF ReceiveStart, RunInv, LeftOver, OneWriter, Fresh,
         EndedIsIdle, Progress, Carried, LateOf, Collected, Outcomes
  <2> QED BY <1>1, <2>2, <2>3
<1> QED BY <1>2, <1>3

\* A write of a step that is not guarded against deletion cannot be of an outcome.
LEMMA StoreTyped ==
  ASSUME TypeOK, NEW j \in Jobs, NEW step \in DOMAIN Writes, Store(j, Writes[step])
  PROVE  /\ runs' \in [Jobs -> Statuses \cup {None}]
         /\ evidence' \in [Jobs -> Nat] /\ observations' \in [Jobs -> Nat]
         /\ \A i \in Jobs \ {j} : /\ runs'[i] = runs[i]
                                  /\ evidence'[i] = evidence[i]
                                  /\ observations'[i] = observations[i]
         /\ runs'[j] = IF Writes[step] \in Statuses THEN Writes[step] ELSE runs[j]
         /\ evidence'[j] = evidence[j] + One(Writes[step] = "evidence")
         /\ observations'[j] = observations[j] + One(Writes[step] = "observations")
  BY DEF Store, TypeOK, One

LEMMA TaskKeeps ==
  ASSUME IInv, NEW j \in Jobs, TaskWrites(j)
  PROVE  IInv'
<1> USE DEF IInv
<1> DEFINE t == task[j]
<1>1. t \in Tasks /\ t.at \in DOMAIN Writes /\ RunInv(j)
  BY DEF TypeOK, TaskWrites
<1>2. PICK u \in After(t) : task' = [task EXCEPT ![j] = u]
  BY DEF TaskWrites
<1>3. u \in Tasks \cup {None}
  BY <1>1, WritesTyped DEF After, Tasks
<1>4. /\ u # None => u \in Tasks /\ u.rows = t.rows /\ u.obs = t.obs /\ u.left = t.left
      /\ t.at = "start" => u.at \in {"page", "evidence"}
      /\ t.at = "page" => u.at = "fetch"
      /\ t.at = "evidence" => u.at = "observations"
      /\ t.at = "observations" => u.at = "complete"
      /\ t.at = "retryEvidence" => u.at = "retryObservations"
      /\ t.at = "retryObservations" => u.at = "fail"
      /\ t.at \in {"complete", "fail", "reject"} => u = None
  BY <1>1, <1>3, WritesTyped DEF After, Tasks
<1>5. ASSUME NEW i \in Jobs, i # j
      PROVE  runs'[i] = runs[i] /\ evidence'[i] = evidence[i] /\ observations'[i] = observations[i]
  BY <1>1, <1>5, StoreTyped DEF TaskWrites, tables
<1>6. ASSUME NEW i \in Jobs, i # j PROVE RunInv(i)'
  BY <1>2, <1>5, <1>6, Untouched DEF TaskWrites, LateOf, ghosts, TypeOK
<1>7. TypeOK'
  BY <1>1, <1>2, <1>3, StoreTyped DEF TypeOK, TaskWrites, tables
<1>8. RunInv(j)'
  <2>1. /\ LateOf(j) = {} /\ LateOf(j)' = {} /\ received'[j] = "started" /\ task'[j] = u
        /\ runs[j] \notin Outcomes /\ deleted' = deleted
    BY <1>1, <1>2, NoneTyped DEF RunInv, OneWriter, Fresh, EndedIsIdle, Carried, LateOf, TaskWrites,
                                 ghosts, TypeOK
  <2>2. u # None => runs'[j] \notin Outcomes
    BY <1>1, <1>4, <2>1, StoreTyped, WritesTyped DEF TaskWrites, tables, Outcomes
  <2>3. OneWriter(j)' /\ Fresh(j)' /\ EndedIsIdle(j)'
    BY <2>1, <2>2 DEF OneWriter, Fresh, EndedIsIdle, Carried
  <2>4. LeftOver(j)'
    BY <1>1, <1>4, <2>1, NoneTyped, WritesTyped DEF LeftOver, RunInv
  <2>5. Progress(j)'
    <3> SUFFICES ASSUME j \notin deleted
                 PROVE  /\ u # None => Collected(j, u)'
                        /\ runs'[j] = "completed" => Complete(j)'
      BY <2>1 DEF Progress
    <3>1. Collected(j, t) /\ evidence[j] \in Nat /\ observations[j] \in Nat
      BY <1>1, NoneTyped DEF RunInv, Progress, TypeOK
    <3>2. runs'[j] = "completed" => t.at = "complete"
      BY <1>1, <2>1, StoreTyped, WritesTyped DEF TaskWrites, tables, Outcomes
    <3>3. /\ evidence'[j] = evidence[j] + One(t.at \in {"evidence", "retryEvidence"} /\ t.rows)
          /\ observations'[j] = observations[j]
                               + One(t.at \in {"observations", "retryObservations"} /\ t.obs)
      <4>1. CASE Empty(t)
        BY <1>1, <3>1, <4>1 DEF TaskWrites, Empty, One, tables
      <4>2. CASE ~ Empty(t)
        <5>1. Store(j, Writes[t.at])
          BY <4>2 DEF TaskWrites
        <5> QED BY <1>1, <4>2, <5>1, StoreTyped, WritesTyped DEF Empty, One
      <4> QED BY <4>1, <4>2
    <3>4. ASSUME u # None PROVE Collected(j, u)'
      <4>1. u.rows = t.rows /\ u.obs = t.obs
        BY <1>4, <3>4
      <4>2. CASE t.at \in {"start", "page"}
        <5>1. evidence'[j] = 0 /\ observations'[j] = 0
          BY <3>1, <3>3, <4>2 DEF Collected, One
        <5>2. t.at = "start" => t.rows = t.obs
          BY <1>1, <3>1 DEF Collected, Tasks
        <5> QED BY <1>4, <3>4, <4>1, <4>2, <5>1, <5>2 DEF Collected
      <4>3. CASE t.at = "evidence"
        <5>1. u.at = "observations" /\ evidence'[j] = One(t.rows) /\ observations'[j] = 0
              /\ t.rows = t.obs
          BY <1>4, <3>1, <3>3, <4>3 DEF Collected, One
        <5> QED BY <4>1, <5>1 DEF Collected
      <4>4. CASE t.at = "observations"
        <5>1. u.at = "complete" /\ evidence'[j] = One(t.rows) /\ observations'[j] = One(t.obs)
              /\ t.rows = t.obs
          BY <1>4, <3>1, <3>3, <4>4 DEF Collected, One
        <5> QED BY <4>1, <5>1 DEF Collected
      <4>5. CASE t.at \in {"retryEvidence", "retryObservations"}
        BY <1>4, <4>5 DEF Collected
      <4> QED BY <1>1, <1>4, <3>4, <4>2, <4>3, <4>4, <4>5, WritesTyped
    <3>5. t.at = "complete" => Complete(j)'
      BY <3>1, <3>3 DEF Collected, Complete, One
    <3> QED BY <3>2, <3>4, <3>5
  <2> QED BY <2>3, <2>4, <2>5 DEF RunInv
<1> QED BY <1>6, <1>7, <1>8

\* A task that goes on, or ends, without a write.
LEMMA TaskMoves ==
  ASSUME IInv, NEW j \in Jobs, task[j] # None, NEW u \in Tasks \cup {None},
         task' = [task EXCEPT ![j] = u],
         UNCHANGED <<tables, received, late, deleting, cancel, deleted>>,
         u # None /\ u.at \in {"start", "page", "fetch"} => u.left > 0,
         j \notin deleted /\ u # None => Collected(j, u)
  PROVE  IInv'
<1> USE DEF IInv, tables
<1>1. RunInv(j) /\ task'[j] = u
  BY DEF TypeOK
<1>2. ASSUME NEW i \in Jobs, i # j PROVE RunInv(i)'
  BY <1>2, Untouched DEF LateOf, TypeOK
<1>3. TypeOK'
  BY DEF TypeOK
<1>4. RunInv(j)'
  BY <1>1 DEF RunInv, OneWriter, Fresh, EndedIsIdle, LeftOver, Progress, Carried, LateOf, Collected,
              Complete
<1> QED BY <1>2, <1>3, <1>4

LEMMA CrawlKeeps ==
  ASSUME IInv, NEW j \in Jobs, Fetch(j) \/ TaskRaises(j) \/ TaskDies(j)
  PROVE  IInv'
<1> DEFINE t == task[j]
<1>1. t \in Tasks /\ t # None /\ RunInv(j)
  BY DEF IInv, TypeOK, Fetch, TaskRaises, TaskDies
<1>2. CASE Fetch(j)
  <2>1. t.at = "fetch" /\ t.left \in 1..MaxRequests /\ t.obs \in BOOLEAN
    BY <1>1, <1>2 DEF Fetch, RunInv, LeftOver, Tasks
  <2> DEFINE to(step, obs) == [at |-> step, left |-> t.left - 1, rows |-> TRUE, obs |-> obs]
  <2>2. PICK obs \in BOOLEAN, step \in {"page", "evidence"} :
          /\ step = "page" => t.left - 1 > 0
          /\ step = "evidence" => obs
          /\ task' = [task EXCEPT ![j] = to(step, obs)]
    BY <1>2, <2>1 DEF Fetch
  <2> DEFINE u == to(step, obs)
  <2>3. /\ u \in Tasks /\ u # None /\ u.at = step /\ u.left = t.left - 1 /\ u.rows = TRUE
        /\ u.obs = obs
    <3>1. step \in DOMAIN Writes /\ t.left - 1 \in 0..MaxRequests
      BY <2>1, WritesTyped
    <3>2. u \in Tasks
      BY <3>1 DEF Tasks
    <3> QED BY <3>2, NoneTyped
  <2>4. j \notin deleted => Collected(j, u)
    <3>1. j \notin deleted => Collected(j, t)
      BY <1>1 DEF RunInv, Progress
    <3> QED BY <2>1, <2>2, <2>3, <3>1 DEF Collected
  <2>5. task' = [task EXCEPT ![j] = u] /\ (u.at = "page" => u.left > 0)
    BY <2>2, <2>3
  <2> HIDE DEF u
  <2>6. UNCHANGED <<tables, received, late, deleting, cancel, deleted>>
    BY <1>2 DEF Fetch, ghosts
  <2> QED BY <1>1, <2>3, <2>4, <2>5, <2>6, TaskMoves
<1>3. CASE TaskRaises(j)
  <2>1. PICK u \in Handlers(t) : task' = [task EXCEPT ![j] = u]
    BY <1>3 DEF TaskRaises
  <2>2. u \in Tasks /\ u # None /\ u.at = "retryEvidence"
    <3>1. \E rows \in BOOLEAN : \E obs \in BOOLEAN :
            u = [at |-> "retryEvidence", left |-> t.left, rows |-> rows, obs |-> obs]
      <4> DEFINE h == [t EXCEPT !.at = "retryEvidence"]
      <4>1. h = [at |-> "retryEvidence", left |-> t.left, rows |-> t.rows, obs |-> t.obs]
            /\ t.rows \in BOOLEAN /\ t.obs \in BOOLEAN
        BY <1>1 DEF Tasks
      <4>2. u = h \/ \E rows \in {t.rows, TRUE}, obs \in {t.obs, TRUE} :
                        u = [h EXCEPT !.rows = rows, !.obs = obs]
        BY DEF Handlers
      <4> HIDE DEF h
      <4> QED BY <4>1, <4>2
    <3>2. "retryEvidence" \in DOMAIN Writes /\ t.left \in 0..MaxRequests
      BY <1>1, WritesTyped DEF Tasks
    <3>3. u \in Tasks /\ u.at = "retryEvidence"
      BY <3>1, <3>2 DEF Tasks
    <3> QED BY <3>3, NoneTyped
  <2> QED BY <1>1, <1>3, <2>1, <2>2, TaskMoves DEF TaskRaises, ghosts, Collected
<1>4. CASE TaskDies(j)
  BY <1>1, <1>4, TaskMoves DEF TaskDies
<1> QED BY <1>2, <1>3, <1>4

\* A late write is the last one of its run.
LEMMA LateKeeps ==
  ASSUME IInv, NEW l \in late, LateCommit(l) \/ LateDrop(l)
  PROVE  IInv'
<1> USE DEF IInv
<1> DEFINE j == l.job
<1>1. j \in Jobs /\ l \in LateWrites /\ RunInv(j) /\ late' = late \ {l} /\ UNCHANGED deleted
  BY DEF TypeOK, LateWrites, LateCommit, LateDrop, ghosts
<1>2. PICK step \in DOMAIN Writes : l.write = Writes[step]
  BY <1>1 DEF LateWrites
<1>3. LateOf(j) = {l} /\ LateOf(j)' = {} /\ task[j] = None /\ UNCHANGED task
      /\ received[j] = "started" /\ UNCHANGED received /\ runs[j] \notin Outcomes
  <2>1. l \in LateOf(j)
    BY DEF LateOf
  <2> QED BY <1>1, <2>1 DEF RunInv, OneWriter, Fresh, EndedIsIdle, Carried, LateOf, LateCommit,
                            LateDrop, TypeOK
<1>4. \A i \in Jobs \ {j} : runs'[i] = runs[i] /\ evidence'[i] = evidence[i]
                            /\ observations'[i] = observations[i]
  BY <1>1, <1>2, StoreTyped DEF LateCommit, LateDrop, tables
<1>5. ASSUME NEW i \in Jobs, i # j PROVE RunInv(i)'
  <2>1. LateOf(i)' = LateOf(i)
    BY <1>1, <1>5 DEF LateOf
  <2> QED BY <1>1, <1>3, <1>4, <1>5, <2>1, Untouched
<1>6. TypeOK'
  BY <1>1, <1>2, StoreTyped DEF TypeOK, LateCommit, LateDrop, tables
<1>7. RunInv(j)'
  <2>1. OneWriter(j)' /\ Fresh(j)' /\ EndedIsIdle(j)' /\ LeftOver(j)'
    BY <1>3 DEF OneWriter, Fresh, EndedIsIdle, LeftOver, Carried
  <2>2. runs'[j] = "completed" => l.write = "completed" /\ UNCHANGED <<evidence, observations>>
    BY <1>1, <1>2, <1>3, StoreTyped DEF LateCommit, LateDrop, tables, Outcomes, Store, Statuses
  <2>3. Progress(j)'
    BY <1>1, <1>3, <2>2 DEF Progress, Complete, RunInv
  <2> QED BY <2>1, <2>3 DEF RunInv
<1> QED BY <1>5, <1>6, <1>7

\* A cancelled task leaves its write behind, if it had one under way.
LEMMA CancelTaskKeeps ==
  ASSUME IInv, NEW k \in Cancels, CancelTask(k)
  PROVE  IInv'
<1> USE DEF IInv
<1> PICK j \in Jobs : cancel[k].job = j
  BY DEF CancelTask, TypeOK, CancelRequests
<1> DEFINE t == task[j]
           left == [job |-> j, write |-> Writes[t.at]]
<1>1. j \in Jobs /\ cancel[k] \in CancelRequests /\ RunInv(j) /\ t \in Tasks \cup {None}
  BY DEF CancelTask, TypeOK, CancelRequests
<1>2. /\ task' = [task EXCEPT ![j] = None]
      /\ late' = IF t # None /\ t.at # "fetch" /\ ~ Empty(t) THEN late \cup {left} ELSE late
      /\ cancel' = [cancel EXCEPT ![k].at = "update"]
      /\ UNCHANGED <<tables, received, deleting, ghosts>>
  BY DEF CancelTask
<1>3. \A i \in Jobs \ {j} : LateOf(i)' = LateOf(i) /\ task'[i] = task[i]
  BY <1>1, <1>2 DEF LateOf, TypeOK
<1>4. ASSUME NEW i \in Jobs, i # j PROVE RunInv(i)'
  BY <1>2, <1>3, <1>4, Untouched DEF tables, ghosts
<1>5. TypeOK'
  <2>1. t # None /\ t.at # "fetch" => left \in LateWrites
    BY <1>1 DEF Tasks, LateWrites
  <2>2. cancel' \in [Cancels -> CancelRequests \cup {None}]
    BY <1>1, <1>2 DEF TypeOK, CancelRequests
  <2>3. late' \subseteq LateWrites /\ task' \in [Jobs -> Tasks \cup {None}]
    BY <1>2, <2>1 DEF TypeOK
  <2> QED BY <1>2, <2>2, <2>3 DEF TypeOK, tables
<1>6. RunInv(j)'
  <2>1. task'[j] = None
    BY <1>1, <1>2 DEF TypeOK
  <2>2. CASE t = None
    <3>1. LateOf(j)' = LateOf(j)
      BY <1>2, <2>2 DEF LateOf
    <3> QED BY <1>1, <1>2, <2>1, <2>2, <3>1, Untouched DEF tables, ghosts
  <2>3. CASE t # None
    <3>1. LateOf(j) = {} /\ received[j] = "started" /\ runs[j] \notin Outcomes
      BY <1>1, <2>3 DEF RunInv, OneWriter, Fresh, EndedIsIdle, Carried, TypeOK
    <3>2. LateOf(j)' \subseteq {left}
      BY <1>2, <3>1 DEF LateOf
    <3>3. OneWriter(j)' /\ Fresh(j)' /\ EndedIsIdle(j)' /\ LeftOver(j)'
      BY <1>2, <2>1, <3>1, <3>2 DEF OneWriter, Fresh, EndedIsIdle, LeftOver, tables
    <3>4. left \in late' /\ left.write = "completed" => t.at = "complete"
      BY <1>1, <1>2, <2>3, <3>1, WritesTyped DEF Tasks, LateOf
    <3>5. Progress(j)'
      BY <1>1, <1>2, <2>1, <2>3, <3>1, <3>2, <3>4
         DEF Progress, Collected, Complete, RunInv, One, tables, ghosts, Outcomes, LateOf
    <3> QED BY <3>3, <3>5 DEF RunInv
  <2> QED BY <2>2, <2>3
<1> QED BY <1>4, <1>5, <1>6

LEMMA CancelKeeps ==
  ASSUME IInv, NEW k \in Cancels,
         (\E j \in Jobs : CancelRead(k, j)) \/ CancelUpdate(k) \/ CancelFails(k)
  PROVE  IInv'
<1> USE DEF IInv, tables, ghosts
<1>1. UNCHANGED <<evidence, observations, received, task, late, deleting, deleted>>
  BY DEF CancelRead, CancelUpdate, CancelFails
<1>2. cancel' \in [Cancels -> CancelRequests \cup {None}]
  BY DEF CancelRead, CancelUpdate, CancelFails, TypeOK, CancelRequests
<1>3. \A i \in Jobs : runs'[i] = runs[i] \/ (runs'[i] = "cancelled" /\ runs[i] # None)
  <2>1. CASE CancelUpdate(k)
    <3>1. PICK j \in Jobs : cancel[k].job = j
      BY <2>1 DEF CancelUpdate, TypeOK, CancelRequests
    <3> QED BY <2>1, <3>1 DEF CancelUpdate, TypeOK
  <2> QED BY <2>1 DEF CancelRead, CancelFails
<1>4. runs' \in [Jobs -> Statuses \cup {None}]
  BY DEF CancelRead, CancelUpdate, CancelFails, TypeOK, Statuses
<1>5. ASSUME NEW i \in Jobs PROVE RunInv(i)'
  <2>1. LateOf(i)' = LateOf(i)
    BY <1>1 DEF LateOf
  <2>2. CASE runs'[i] = runs[i]
    BY <1>1, <2>1, <2>2, Untouched
  <2>3. CASE runs'[i] = "cancelled" /\ runs[i] # None
    BY <1>1, <2>1, <2>3 DEF RunInv, OneWriter, Fresh, EndedIsIdle, LeftOver, Progress, Carried,
                            Collected, Complete, Outcomes
  <2> QED BY <1>3, <2>2, <2>3
<1> QED BY <1>1, <1>2, <1>4, <1>5 DEF TypeOK

LEMMA DeleteKeeps ==
  ASSUME IInv, NEW j \in Jobs, DeleteRead(j) \/ DeleteRow(j)
  PROVE  IInv'
<1> USE DEF IInv, tables, ghosts
<1>1. CASE DeleteRead(j)
  <2>1. ASSUME NEW i \in Jobs PROVE RunInv(i)'
    BY <1>1, <2>1, Untouched DEF DeleteRead, LateOf
  <2> QED BY <1>1, <2>1 DEF DeleteRead, TypeOK
<1>2. CASE DeleteRow(j)
  <2>1. ASSUME NEW i \in Jobs, i # j PROVE RunInv(i)'
    BY <1>2, <2>1, Untouched DEF DeleteRow, LateOf, TypeOK
  <2>2. TypeOK'
    BY <1>2 DEF DeleteRow, TypeOK
  <2>3. runs'[j] = None /\ evidence'[j] = 0 /\ observations'[j] = 0 /\ j \in deleted'
        /\ LateOf(j)' = LateOf(j) /\ UNCHANGED <<task, received>>
    BY <1>2 DEF DeleteRow, TypeOK, LateOf
  <2>4. RunInv(j)'
    BY <2>3, NoneTyped DEF RunInv, OneWriter, Fresh, EndedIsIdle, LeftOver, Progress, Carried
  <2> QED BY <2>1, <2>2, <2>4
<1> QED BY <1>1, <1>2

\* A restart leaves no writer, and no run that waits for one.
LEMMA RestartKeeps ==
  ASSUME IInv, Restart
  PROVE  IInv'
<1> USE DEF IInv
<1>1. TypeOK'
  BY DEF Restart, Reconciled, TypeOK, Statuses, Outcomes
<1>2. ASSUME NEW j \in Jobs PROVE RunInv(j)'
  <2>1. /\ task'[j] = None /\ LateOf(j)' = {} /\ received'[j] # "saved"
        /\ runs'[j] = IF runs[j] \in Active THEN "interrupted" ELSE runs[j]
        /\ received'[j] = "new" => received[j] = "new"
        /\ UNCHANGED <<evidence, observations, deleted>>
    BY DEF Restart, Reconciled, LateOf
  <2>2. received'[j] \in {"new", "started"}
    BY <1>1, <2>1 DEF TypeOK
  <2> QED BY <2>1, <2>2, NoneTyped DEF RunInv, OneWriter, Fresh, EndedIsIdle, LeftOver, Progress,
                                       Carried, Complete
<1> QED BY <1>1, <1>2

LEMMA NextKeeps == IInv /\ [Next]_vars => IInv'
<1> SUFFICES ASSUME IInv, [Next]_vars PROVE IInv'
  OBVIOUS
<1>1. CASE UNCHANGED vars
  <2>1. ASSUME NEW j \in Jobs PROVE RunInv(j)'
    BY <1>1, <2>1, Untouched DEF IInv, vars, tables, ghosts, LateOf
  <2> QED BY <1>1, <2>1 DEF vars, tables, IInv, TypeOK
<1>2. ASSUME NEW j \in Jobs, JobStep(j) PROVE IInv'
  BY <1>2, ReceiveKeeps, TaskKeeps, CrawlKeeps, DeleteKeeps DEF JobStep, TaskStep
<1> QED BY <1>1, <1>2, LateKeeps, CancelTaskKeeps, CancelKeeps, RestartKeeps DEF Next, CancelStep

LEMMA Invariance == Spec => []IInv
  BY InitIInv, NextKeeps, PTL DEF Spec

-----------------------------------------------------------------------------
\* Every row, task, late write and request has the shape the handlers expect, for any
\* number of overlapping cancels, deletes, errors and restarts.
THEOREM TypeCorrect == Spec => []TypeOK
<1>1. IInv => TypeOK
  BY DEF IInv
<1> QED BY <1>1, Invariance, PTL

\* A run that says completed has its evidence and its observations, each stored as
\* often as the other and at most once (run_discovery, save_evidence).
THEOREM CompletedIsCompleteHolds == Spec => []CompletedIsComplete
<1>1. IInv => CompletedIsComplete
  BY DEF IInv, RunInv, Progress, Complete, CompletedIsComplete
<1> QED BY <1>1, Invariance, PTL

\* An outcome stands: no late write, error or restart replaces it, and a cancel only if
\* it had read the run as active (cancel_job, mark_interrupted_runs).
THEOREM OutcomeStandsHolds == Spec => OutcomeStands
<1> DEFINE Stands == \A j \in Jobs : runs[j] \in Outcomes /\ runs'[j] # runs[j] =>
                       \/ runs'[j] = None
                       \/ /\ runs'[j] = "cancelled"
                          /\ \E k \in Cancels : cancel[k] # None /\ cancel[k].job = j
<1>1. IInv /\ [Next]_vars => [Stands]_vars
  <2> SUFFICES ASSUME IInv, Next, NEW j \in Jobs, runs[j] \in Outcomes, runs'[j] # runs[j]
               PROVE  \/ runs'[j] = None
                      \/ /\ runs'[j] = "cancelled"
                         /\ \E k \in Cancels : cancel[k] # None /\ cancel[k].job = j
    OBVIOUS
  <2>1. task[j] = None /\ LateOf(j) = {} /\ received[j] # "new"
    BY NoneTyped DEF IInv, RunInv, EndedIsIdle, Carried, Fresh
  <2>2. ASSUME NEW i \in Jobs, JobStep(i) PROVE runs'[j] = None
    <3>1. CASE ReceiveSave(i)
      BY <2>1, <3>1 DEF ReceiveSave, IInv, TypeOK
    <3>2. CASE TaskWrites(i)
      BY <2>1, <3>2, StoreTyped DEF TaskWrites, IInv, tables
    <3>3. CASE DeleteRow(i)
      BY <3>3 DEF DeleteRow, IInv, TypeOK
    <3> QED BY <2>2, <3>1, <3>2, <3>3 DEF JobStep, TaskStep, ReceiveStart, Fetch, TaskRaises,
                                         TaskDies, DeleteRead, tables
  <2>3. ASSUME NEW l \in late, LateCommit(l) \/ LateDrop(l) PROVE FALSE
    <3>1. l.job \in Jobs /\ l.job # j /\ \E step \in DOMAIN Writes : l.write = Writes[step]
      BY <2>1 DEF LateOf, IInv, TypeOK, LateWrites
    <3> QED BY <2>3, <3>1, StoreTyped DEF LateCommit, LateDrop, IInv, tables
  <2>4. ASSUME NEW k \in Cancels, CancelStep(k) \/ CancelFails(k)
        PROVE  runs'[j] = "cancelled" /\ cancel[k] # None /\ cancel[k].job = j
    BY <2>4 DEF CancelStep, CancelTask, CancelUpdate, CancelFails, tables, IInv, TypeOK
  <2>5. ~ Restart /\ ~ \E k \in Cancels, i \in Jobs : CancelRead(k, i)
    BY DEF Restart, Reconciled, CancelRead, tables, Outcomes, Active
  <2> QED BY <2>2, <2>3, <2>4, <2>5 DEF Next
<1> QED BY <1>1, Invariance, PTL DEF Spec, OutcomeStands
=============================================================================
