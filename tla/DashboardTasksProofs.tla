------------------------ MODULE DashboardTasksProofs ------------------------
(****************************************************************************)
(* What holds of one dashboard process for every number of requests, run    *)
(* directories, preflights and faults.                                      *)
(*                                                                          *)
(* Everything rests on the maintenance lock.  A request between two of its  *)
(* steps holds it, and of those that write the store or the glossary no     *)
(* task is queued or running: a task enters the queue only from a request   *)
(* that could take the lock.                                                *)
(****************************************************************************)
EXTENDS DashboardTasks, SequenceTheorems, FiniteSetTheorems, WellFoundedInduction, TLAPS

\* A request that has not made a task.
Unstarted == {"new", "preflight", "preview", "replan", "retire", "audit", "commit",
              "exclude", "publishing"}

\* Between its steps such a request has found no task of any variant.
Silent == {"replan", "retire", "audit", "commit", "exclude"}

NotStarted == \A q \in Requests : req[q].pc \in Unstarted => tasks[q] = None

HoldsLock ==
    \A q \in Requests : req[q].pc \in Silent \cup {"publishing", "hangs"} => lock = q

NothingRuns == \A q \in Requests : req[q].pc \in Silent => ~Busy

FirstPublish == \A q \in Requests : req[q].pc = "publishing" => ~Publishing(req[q].dir)

QueueOK ==
    /\ \A i \in 1..Len(queue) : tasks[queue[i]] = "queued"
    /\ \A i, j \in 1..Len(queue) : queue[i] = queue[j] => i = j

WorkerOK ==
    worker.pc # "idle" =>
        /\ worker.task \in Requests
        /\ tasks[worker.task] = "running"
        /\ worker.pc \in {"plan", "work"} => req[worker.task].pc # "publish"
        /\ worker.pc = "work" => worker.plan # None
        /\ worker.pc = "save" => worker.outcome # None /\ ~Live(worker.outcome.status)

\* The directory of a run that is queued or running has a snapshot.
SnapshotOK ==
    \A q \in Requests : Live(tasks[q]) /\ req[q].pc # "publish" =>
        req[q].dir \in Dirs /\ disk[req[q].dir] # None

\* A preflight never becomes a task.
PreflightOK ==
    \A p \in Requests : Created(p) =>
        tasks[p] = None /\ req[p].pc \in {"preview", "answered"}

\* What a confirmation has: a run, or a finished preflight.
Confirming(q) ==
    IF req[q].pf = None
    THEN req[q].dir \in Dirs /\ req[q].mode \in Modes
    ELSE tasks[req[q].pf] = None /\ req[req[q].pf].pc = "answered"

ConfirmOK == \A q \in Requests : req[q].pc \in {"replan", "retire", "audit"} => Confirming(q)

\* What an exclusion has: a scope, and a service that has read the glossary.
Excluding(q) ==
    /\ req[q].dir \in Variants \X {None}
    /\ cache[req[q].dir[1]] # None
    /\ req[q].shown \subseteq Scopes

ExcludeOK == \A q \in Requests : req[q].pc = "exclude" => Excluding(q)

\* A task of q enters the queue, and its directory gets a snapshot.
NewTask(q, d) ==
    /\ queue' = Append(queue, q)
    /\ tasks' = [tasks EXCEPT ![q] = "queued"]
    /\ d \in Dirs
    /\ \A e \in Dirs : e = d \/ disk[e] # None => disk'[e] # None

\* What a new request does at its arrival: it is answered, or makes a task, or takes
\* the maintenance lock.
Arrives(q) ==
    /\ req[q].pc = "new"
    /\ \A p \in Requests : p # q => req'[p] = req[p]
    /\ UNCHANGED <<preflights, worker, source, row, glossary>>
    /\ \A v \in Variants : cache[v] # None => cache'[v] # None
    /\ \/ /\ req'[q].pc \in {"preflight", "answered", "refused"}
          /\ UNCHANGED <<lock, queue, tasks, disk>>
       \/ /\ req'[q].pc = "answered"
          /\ NewTask(q, req'[q].dir)
          /\ lock = None /\ UNCHANGED lock
       \/ /\ req'[q].pc \in {"replan", "commit", "exclude", "publishing", "hangs"}
          /\ UNCHANGED <<queue, tasks, disk>>
          /\ lock = None /\ lock' = q
          /\ req'[q].pc \in Silent => ~Busy
          /\ req'[q].pc = "publishing" => ~Publishing(req'[q].dir)
          /\ req'[q].pc = "replan" =>
                 IF req'[q].pf = None
                 THEN req'[q].dir \in Dirs /\ req'[q].mode \in Modes
                 ELSE Kept(req'[q].pf)
          /\ req'[q].pc = "exclude" => Excluding(q)'

\* What a request does in one of its later steps: it plans or keeps a preflight, goes
\* on under the maintenance lock, makes a task, or gives the lock back.
Serves(q) ==
    /\ \A p \in Requests : p # q =>
           req'[p] = req[p] \/ (tasks[p] = None /\ req[p].pc = "answered" /\ req'[p] = Over)
    /\ UNCHANGED worker
    /\ \A v \in Variants : cache[v] # None => cache'[v] # None
    /\ \A p \in Requests : Created(p)' => Created(p) \/ (p = q /\ req'[q].pc = "preview")
    /\ \/ /\ req[q].pc \in {"preflight", "preview"} /\ req'[q].pc \in {"preview", "answered"}
          /\ UNCHANGED <<lock, queue, tasks, disk, row, glossary>>
       \/ /\ req[q].pc \in {"replan", "retire"} /\ req'[q].pc \in {"retire", "audit"}
          /\ req'[q].pf = req[q].pf /\ req'[q].dir = req[q].dir /\ req'[q].mode = req[q].mode
          /\ UNCHANGED <<lock, queue, tasks, disk>>
       \/ /\ req[q].pc = "publishing" /\ req'[q].pc = "publish" /\ req'[q].dir = req[q].dir
          /\ queue' = Append(queue, q) /\ tasks' = [tasks EXCEPT ![q] = "queued"]
          /\ lock' = None /\ UNCHANGED <<disk, row, glossary>>
       \/ /\ req[q].pc = "audit" /\ req'[q].pc = "answered" /\ NewTask(q, req'[q].dir)
          /\ lock' = None /\ UNCHANGED <<row, glossary>>
       \/ /\ req[q].pc \in Silent /\ req'[q].pc \in {"answered", "refused"}
          /\ UNCHANGED <<queue, tasks, disk>>
          /\ lock' = None

\* A step of the worker or of another program: the requests, the queue and the lock
\* stay, and the worker goes on with its task or lets it go.
Control == <<req, preflights, queue, tasks, disk, lock>>

Goes ==
    /\ worker.pc # "idle" /\ worker'.task = worker.task
    /\ worker'.pc \in {"work", "save"}
    /\ worker'.pc = "work" => worker.pc = "plan" /\ worker'.plan = PlanNow /\ PlanStands(worker.task)
    /\ worker'.pc = "save" => worker'.outcome # None /\ ~Live(worker'.outcome.status)

Quiet ==
    /\ UNCHANGED Control
    /\ \A v \in Variants : cache[v] # None => cache'[v] # None
    /\ UNCHANGED worker \/ worker'.pc = "idle" \/ Goes

Inv ==
    /\ TypeOK
    /\ NotStarted /\ HoldsLock /\ NothingRuns /\ FirstPublish
    /\ QueueOK /\ WorkerOK /\ SnapshotOK /\ PreflightOK /\ ConfirmOK /\ ExcludeOK
    /\ OnePublish

------------------------------------------------------------------------------
\* Values the handlers compute have their types.
LEMMA PlanNowType ==
    ASSUME TypeOK
    PROVE  PlanNow \in Plans
BY DEF TypeOK, FilesOK, Rows, PlanNow, Plans

LEMMA StaleRowsType ==
    ASSUME TypeOK, NEW plan
    PROVE  StaleRows(plan) \in SUBSET Nat
BY DEF TypeOK, FilesOK, Rows, StaleRows

LEMMA EnvType ==
    ASSUME TypeOK, NEW f \in Credentials, NEW saved \in Credentials
    PROVE  EnvWith(f) \in Credentials /\ EnvWithout(f, saved) \in Credentials
BY DEF TypeOK, EnvWith, EnvWithout

\* Without one of them the preflights are a sequence of some of them.
LEMMA WithoutType ==
    ASSUME TypeOK, NEW p
    PROVE  /\ Without(p) \in Seq(Requests)
           /\ \A i \in 1..Len(Without(p)) : \E j \in 1..Len(preflights) :
                  Without(p)[i] = preflights[j]
<1>1. CASE Created(p)
  <2> DEFINE at == CHOOSE i \in 1..Len(preflights) : preflights[i] = p
             w == [i \in 1..(Len(preflights) - 1) |-> preflights[IF i < at THEN i ELSE i + 1]]
  <2>1. at \in 1..Len(preflights)
    BY <1>1 DEF Created
  <2>2. preflights \in Seq(Requests) /\ Len(preflights) \in Nat
    BY DEF TypeOK
  <2>. HIDE DEF at
  <2>3. \A i \in 1..(Len(preflights) - 1) : (IF i < at THEN i ELSE i + 1) \in 1..Len(preflights)
    BY <2>1, <2>2
  <2>4. Len(preflights) - 1 \in Nat
    BY <2>1, <2>2
  <2>5. w \in Seq(Requests) /\ Len(w) = Len(preflights) - 1
    BY <2>2, <2>3, <2>4, IsASeq
  <2>6. Without(p) = w
    BY <1>1 DEF Without, at
  <2>. QED  BY <2>3, <2>5, <2>6
<1>2. CASE ~Created(p)
  BY <1>2 DEF Without, TypeOK
<1>. QED  BY <1>1, <1>2

------------------------------------------------------------------------------
\* The initial state satisfies the strengthened invariant.
LEMMA InitInv == Init => Inv
<1>. SUFFICES ASSUME Init PROVE Inv
  OBVIOUS
<1>1. TypeOK
  BY BoundsAreNat DEF Init, TypeOK, FilesOK, Rows, RequestRecords, WorkerRecords, NoRequest, Idle,
                      PCs, WorkerPCs, Credentials, Requests
<1>2. NotStarted /\ HoldsLock /\ NothingRuns /\ FirstPublish
  BY DEF Init, NotStarted, HoldsLock, NothingRuns, FirstPublish, NoRequest, Unstarted, Silent
<1>3. QueueOK /\ WorkerOK /\ SnapshotOK /\ ExcludeOK /\ OnePublish
  BY NoneIsNoValue DEF Init, QueueOK, WorkerOK, SnapshotOK, ExcludeOK, OnePublish,
                       NoRequest, Idle, Live, Statuses
<1>4. PreflightOK /\ ConfirmOK
  BY DEF Init, PreflightOK, ConfirmOK, Created, NoRequest
<1>. QED  BY <1>1, <1>2, <1>3, <1>4 DEF Inv

\* The requests keep their type.
LEMMA RequestsType == Inv /\ [Next]_vars => req' \in [Requests -> RequestRecords]
<1>. SUFFICES ASSUME Inv, [Next]_vars PROVE req' \in [Requests -> RequestRecords]
  OBVIOUS
<1>0. TypeOK /\ req \in [Requests -> RequestRecords] /\ FilesOK
  BY DEF Inv, TypeOK
<1>. USE DEF RequestRecords, NoRequest, PCs, Credentials
<1>1. ASSUME NEW q \in Requests, NEW v \in Variants, NEW mode \in Modes, NEW f \in Credentials,
             PreflightStart(q, v, mode, f)
      PROVE  req' \in [Requests -> RequestRecords]
  BY <1>0, <1>1 DEF TypeOK, PreflightStart
<1>2. ASSUME NEW q \in Requests, PreflightPlan(q) PROVE req' \in [Requests -> RequestRecords]
  <2>1. [req[q] EXCEPT !.pc = "preview", !.plan = PlanNow] \in RequestRecords
    BY <1>0, PlanNowType
  <2>2. req' = [req EXCEPT ![q] = [req[q] EXCEPT !.pc = "preview", !.plan = PlanNow]]
    BY <1>0, <1>2 DEF PreflightPlan
  <2>. QED  BY <1>0, <2>1, <2>2
<1>3. ASSUME NEW q \in Requests, PreflightKeep(q) PROVE req' \in [Requests -> RequestRecords]
  BY <1>0, <1>3, StaleRowsType DEF PreflightKeep, Over
<1>4. ASSUME NEW q \in Requests, NEW d \in Dirs, NEW mode \in Modes, NEW f \in Credentials,
             NEW p \in Requests \cup {None}, Submit(q, d, mode, f, p)
      PROVE  req' \in [Requests -> RequestRecords]
  <2> DEFINE new == [NoRequest EXCEPT !.pc = "answered", !.dir = d, !.mode = mode, !.dotenv = f,
                         !.pf = p, !.plan = IF p = None THEN None ELSE req[p].plan]
  <2>1. (IF p = None THEN None ELSE req[p].plan) \in Plans \cup {None}
    BY <1>0
  <2>2. new \in RequestRecords /\ [new EXCEPT !.pc = "hangs"] \in RequestRecords
    BY <2>1
  <2>3. req' = [req EXCEPT ![q] = new] \/ req' = [req EXCEPT ![q] = [new EXCEPT !.pc = "hangs"]]
    BY <1>4 DEF Submit
  <2>. HIDE DEF new
  <2>. QED  BY <1>0, <2>2, <2>3
<1>5. ASSUME NEW q \in Requests, NEW d \in Dirs, NEW parent \in Dirs, NEW mode \in Modes,
             SubmitRebuild(q, d, parent, mode)
      PROVE  req' \in [Requests -> RequestRecords]
  BY <1>0, <1>5 DEF SubmitRebuild, FilesOK, Snapshots
<1>6. ASSUME NEW q \in Requests, NEW d \in Dirs, PublishStart(q, d) PROVE req' \in [Requests -> RequestRecords]
  <2> DEFINE f == IF disk[d] = None THEN None ELSE disk[d].dotenv
  <2>1. f \in Credentials
    BY <1>0 DEF FilesOK, Snapshots
  <2>2. req' = [req EXCEPT ![q] = [NoRequest EXCEPT !.pc = "publishing", !.dir = d, !.dotenv = f]]
    BY <1>6 DEF PublishStart
  <2>. HIDE DEF f
  <2>. QED  BY <1>0, <2>1, <2>2
<1>7. ASSUME NEW q \in Requests, PublishQueue(q) PROVE req' \in [Requests -> RequestRecords]
  BY <1>0, <1>7 DEF PublishQueue
<1>8. ASSUME NEW q \in Requests, NEW p \in Requests, ConfirmPreflight(q, p) PROVE req' \in [Requests -> RequestRecords]
  <2> DEFINE new == [req[p] EXCEPT !.pf = p]
  <2>1. new \in RequestRecords /\ env \in Credentials
    BY <1>0, <1>8 DEF TypeOK
  <2>2. [new EXCEPT !.pc = "replan", !.saved = env] \in RequestRecords
    BY <2>1
  <2>3. [NoRequest EXCEPT !.pc = "refused"] \in RequestRecords
    OBVIOUS
  <2>4. \/ req' = [req EXCEPT ![q] = [new EXCEPT !.pc = "replan", !.saved = env]]
        \/ req' = [req EXCEPT ![q] = [NoRequest EXCEPT !.pc = "refused"]]
    BY <1>8 DEF ConfirmPreflight, Confirm, Refuse
  <2>. HIDE DEF new
  <2>. QED  BY <1>0, <2>2, <2>3, <2>4
<1>9. ASSUME NEW q \in Requests, NEW d \in Dirs, ConfirmRun(q, d) PROVE req' \in [Requests -> RequestRecords]
  <2> DEFINE new == [NoRequest EXCEPT !.dir = d, !.mode = disk[d].mode, !.dotenv = disk[d].dotenv,
                         !.shown = disk[d].conf]
  <2>1. new \in RequestRecords /\ env \in Credentials
    BY <1>0, <1>9 DEF ConfirmRun, FilesOK, Snapshots, TypeOK
  <2>2. [new EXCEPT !.pc = "replan", !.saved = env] \in RequestRecords
    BY <2>1
  <2>3. [NoRequest EXCEPT !.pc = "refused"] \in RequestRecords
    OBVIOUS
  <2>4. \/ req' = [req EXCEPT ![q] = [new EXCEPT !.pc = "replan", !.saved = env]]
        \/ req' = [req EXCEPT ![q] = [NoRequest EXCEPT !.pc = "refused"]]
    BY <1>9 DEF ConfirmRun, Confirm, Refuse
  <2>. HIDE DEF new
  <2>. QED  BY <1>0, <2>2, <2>3, <2>4
<1>10. ASSUME NEW q \in Requests, ConfirmPlan(q) PROVE req' \in [Requests -> RequestRecords]
  BY <1>0, <1>10, PlanNowType DEF ConfirmPlan, Refuse
<1>11. ASSUME NEW q \in Requests, ConfirmRetire(q) PROVE req' \in [Requests -> RequestRecords]
  BY <1>0, <1>11 DEF ConfirmRetire, Refuse
<1>12. ASSUME NEW q \in Requests, ConfirmEnd(q) PROVE req' \in [Requests -> RequestRecords]
  BY <1>0, <1>12 DEF ConfirmEnd, Refuse, Over
<1>13. ASSUME NEW q \in Requests, AuditLost(q) PROVE req' \in [Requests -> RequestRecords]
  BY <1>0, <1>13 DEF AuditLost, Refuse
<1>14. ASSUME NEW v \in Variants, ReviewLook(v) PROVE req' \in [Requests -> RequestRecords]
  BY <1>0, <1>14 DEF ReviewLook
<1>15. ASSUME NEW q \in Requests, NEW v \in Variants, NEW scope \in Scopes \cup {None},
              ReviewStart(q, v, scope)
      PROVE  req' \in [Requests -> RequestRecords]
  <2> DEFINE refused == [NoRequest EXCEPT !.pc = "refused"]
             commit == [NoRequest EXCEPT !.pc = "commit", !.dir = <<v, None>>]
             exclude == [NoRequest EXCEPT !.pc = "exclude", !.dir = <<v, None>>, !.shown = {scope}]
  <2>1. refused \in RequestRecords /\ commit \in RequestRecords /\ Over \in RequestRecords
    BY DEF Over
  <2>2. scope # None => exclude \in RequestRecords
    OBVIOUS
  <2>3. \/ req' = [req EXCEPT ![q] = refused] \/ req' = [req EXCEPT ![q] = commit]
        \/ req' = [req EXCEPT ![q] = Over]
        \/ scope # None /\ req' = [req EXCEPT ![q] = exclude]
    BY <1>15 DEF ReviewStart, Refuse, Answer
  <2>. HIDE DEF refused, commit, exclude
  <2>. QED  BY <1>0, <2>1, <2>2, <2>3
<1>16. ASSUME NEW q \in Requests, ReviewCommit(q) PROVE req' \in [Requests -> RequestRecords]
  BY <1>0, <1>16 DEF ReviewCommit, Answer, Over
<1>17. ASSUME NEW q \in Requests, Exclude(q) PROVE req' \in [Requests -> RequestRecords]
  BY <1>0, <1>17 DEF Exclude, Answer, Over
<1>18. CASE Take \/ TaskPlan \/ TaskWork \/ PublishWork \/ TaskLost \/ OtherProgram \/ UNCHANGED vars
  BY <1>0, <1>18 DEF Take, TaskPlan, TaskWork, PublishWork, TaskLost, OtherProgram, vars
<1>19. CASE TaskSave
  BY <1>0, <1>19 DEF TaskSave, Over
<1>. QED
  BY <1>1, <1>2, <1>3, <1>4, <1>5, <1>6, <1>7, <1>8, <1>9, <1>10, <1>11, <1>12, <1>13, <1>14,
     <1>15, <1>16, <1>17, <1>18, <1>19, ModesAreKnown
     DEF Next, Ask, Serve, Work

\* The worker keeps its type.
LEMMA WorkerType == Inv /\ [Next]_vars => worker' \in WorkerRecords
<1>. SUFFICES ASSUME Inv, [Next]_vars PROVE worker' \in WorkerRecords
  OBVIOUS
<1>0. TypeOK /\ FilesOK /\ WorkerOK /\ SnapshotOK /\ worker \in WorkerRecords /\ PlanNow \in Plans
  BY PlanNowType DEF Inv, TypeOK
<1>. USE DEF WorkerRecords, WorkerPCs, Outcomes
<1>a. ASSUME NEW outcome \in Statuses, NEW ckpt \in BOOLEAN, EndsAs(outcome, ckpt)
      PROVE  worker' \in WorkerRecords
  BY <1>0, <1>a DEF EndsAs
<1>b. worker.pc \in {"plan", "work"} => disk[req[worker.task].dir].ckpt \in BOOLEAN
  BY <1>0 DEF WorkerOK, SnapshotOK, FilesOK, Snapshots, Live
<1>1. CASE Take
  <2>1. Head(queue) \in Requests
    BY <1>0, <1>1 DEF Take, TypeOK
  <2>2. env \in Credentials
    BY <1>0 DEF TypeOK
  <2>. QED  BY <1>1, <2>1, <2>2 DEF Take, Idle
<1>2. CASE TaskPlan
  <2>1. CASE worker' = [worker EXCEPT !.pc = "work", !.plan = PlanNow]
    BY <1>0, <2>1
  <2>2. CASE EndsAs("failed", disk[req[worker.task].dir].ckpt)
    BY <1>2, <1>a, <1>b, <2>2 DEF TaskPlan, Statuses
  <2>. QED  BY <1>2, <2>1, <2>2 DEF TaskPlan
<1>3. CASE TaskWork
  <2>1. \E outcome \in {"waiting", "failed", "completed"} :
           \E ckpt \in {disk[req[worker.task].dir].ckpt, TRUE} : EndsAs(outcome, ckpt)
    BY <1>3 DEF TaskWork
  <2>2. disk[req[worker.task].dir].ckpt \in BOOLEAN
    BY <1>b, <1>3 DEF TaskWork
  <2>. QED  BY <1>a, <2>1, <2>2 DEF Statuses
<1>4. CASE PublishWork
  BY <1>a, <1>4 DEF PublishWork, Statuses
<1>5. CASE TaskSave \/ TaskLost
  BY <1>0, <1>5 DEF TaskSave, TaskLost, Idle, Credentials
<1>6. CASE OtherProgram \/ UNCHANGED vars
  BY <1>0, <1>6 DEF OtherProgram, vars
<1>7. ASSUME NEW q \in Requests, Ask(q) PROVE worker' = worker
  BY <1>7 DEF Ask, PreflightStart, Submit, SubmitRebuild, PublishStart, ConfirmPreflight,
              ConfirmRun, Confirm, ReviewStart
<1>8. ASSUME NEW q \in Requests, Serve(q) PROVE worker' = worker
  BY <1>8 DEF Serve, PreflightPlan, PreflightKeep, PublishQueue, ConfirmPlan, ConfirmRetire,
              ConfirmEnd, ReviewCommit, Exclude
<1>9. CASE (\E q \in Requests : AuditLost(q)) \/ (\E v \in Variants : ReviewLook(v))
  BY <1>0, <1>9 DEF AuditLost, ReviewLook
<1>. QED
  BY <1>0, <1>1, <1>2, <1>3, <1>4, <1>5, <1>6, <1>7, <1>8, <1>9 DEF Next, Work

\* The rows and the files keep their types.
LEMMA FilesType == Inv /\ [Next]_vars => FilesOK'
<1>. SUFFICES ASSUME Inv, [Next]_vars PROVE FilesOK'
  OBVIOUS
<1>0. TypeOK /\ FilesOK /\ WorkerOK /\ SnapshotOK /\ ConfirmOK /\ ExcludeOK
  BY DEF Inv, TypeOK
<1>1. ASSUME NEW q \in Requests, NEW d \in Dirs, NEW mode \in Modes, NEW f \in Credentials,
             Queued(q, d, mode, f)
      PROVE  disk' \in [Dirs -> Snapshots \cup {None}]
  <2>1. [status |-> "queued", mode |-> mode, dotenv |-> f, conf |-> {},
         ckpt |-> disk[d] # None /\ disk[d].ckpt] \in Snapshots
    BY <1>0 DEF FilesOK, Rows, Snapshots, Statuses
  <2>. QED  BY <1>0, <1>1, <2>1 DEF Queued, FilesOK
<1>2. ASSUME NEW q \in Requests, Ask(q) PROVE FilesOK'
  <2>1. disk' \in [Dirs -> Snapshots \cup {None}]
    <3>1. CASE disk' = disk
      BY <1>0, <3>1 DEF FilesOK, Rows
    <3>2. CASE \E d \in Dirs, mode \in Modes, f \in Credentials, p \in Requests \cup {None} :
                   Submit(q, d, mode, f, p)
      BY <1>0, <1>1, <3>1, <3>2 DEF Submit
    <3>3. CASE \E d, parent \in Dirs, mode \in Modes : SubmitRebuild(q, d, parent, mode)
      <4>1. PICK d \in Dirs, parent \in Dirs, mode \in Modes : SubmitRebuild(q, d, parent, mode)
        BY <3>3
      <4>2. disk[parent].dotenv \in Credentials /\ Queued(q, d, mode, disk[parent].dotenv)
        BY <1>0, <4>1 DEF SubmitRebuild, FilesOK, Snapshots
      <4>. QED  BY <1>1, <4>2
    <3>. QED
      BY <1>2, <3>1, <3>2, <3>3 DEF Ask, Credentials, PreflightStart, PublishStart,
             ConfirmPreflight, ConfirmRun, Confirm, ReviewStart
  <2>2. UNCHANGED <<source, row, clock, glossary, bundles>>
    BY <1>2 DEF Ask, PreflightStart, Submit, SubmitRebuild, PublishStart, ConfirmPreflight,
                ConfirmRun, Confirm, ReviewStart
  <2>3. cache' \in [Variants -> (SUBSET Scopes) \cup {None}]
    <3>1. CASE cache' = cache
      BY <1>0, <3>1 DEF FilesOK, Rows
    <3>2. ASSUME NEW v \in Variants, NEW scope \in Scopes \cup {None}, ReviewStart(q, v, scope)
          PROVE  cache' \in [Variants -> (SUBSET Scopes) \cup {None}]
      BY <1>0, <3>2 DEF ReviewStart, FilesOK
    <3>. QED
      BY <1>2, <3>1, <3>2 DEF Ask, PreflightStart, Submit, SubmitRebuild, PublishStart,
             ConfirmPreflight, ConfirmRun, Confirm
  <2>. QED  BY <1>0, <2>1, <2>2, <2>3 DEF FilesOK, Rows
<1>3. ASSUME NEW q \in Requests, ConfirmEnd(q) PROVE FilesOK'
  <2>1. req[q] \in RequestRecords
    BY <1>0 DEF TypeOK
  <2>2. req[q].pf # None \/ (req[q].dir \in Dirs /\ req[q].mode \in Modes)
    BY <1>0, <1>3 DEF ConfirmEnd, ConfirmOK, Confirming
  <2>3. req[q].dotenv \in Credentials
    BY <2>1 DEF RequestRecords
  <2>4. CASE disk' = disk
    BY <1>0, <1>3, <2>4 DEF ConfirmEnd, FilesOK
  <2>5. CASE req[q].pf = None /\ Queued(q, req[q].dir, req[q].mode, req[q].dotenv)
    BY <1>0, <1>1, <1>3, <2>2, <2>3, <2>5 DEF ConfirmEnd, FilesOK
  <2>. QED  BY <1>3, <2>4, <2>5 DEF ConfirmEnd
<1>4. ASSUME NEW q \in Requests, Serve(q), ~ConfirmEnd(q) PROVE FilesOK'
  BY <1>0, <1>4 DEF Serve, PreflightPlan, PreflightKeep, PublishQueue, ConfirmPlan, ConfirmRetire,
              ReviewCommit, Exclude, ExcludeOK, Excluding, FilesOK, Rows
<1>5. CASE (\E q \in Requests : AuditLost(q)) \/ (\E v \in Variants : ReviewLook(v))
  BY <1>0, <1>5 DEF AuditLost, ReviewLook, FilesOK, Rows
<1>6. CASE Take \/ PublishWork \/ TaskLost \/ UNCHANGED vars
  BY <1>0, <1>6 DEF Take, PublishWork, TaskLost, FilesOK, Rows, vars
<1>7. CASE TaskPlan
  BY <1>0, <1>7 DEF TaskPlan, FilesOK, Rows
<1>8. CASE TaskWork
  <2>1. worker.plan \in Plans
    BY <1>0, <1>8 DEF TaskWork, WorkerOK, TypeOK, WorkerRecords
  <2>2. \/ UNCHANGED <<row, clock>>
        \/ clock' = clock + 1 /\ row' = [src |-> worker.plan.src, tok |-> clock']
    BY <1>8 DEF TaskWork, Promotes
  <2>3. clock' \in Nat /\ row' \in Rows \cup {None}
    BY <1>0, <2>1, <2>2 DEF FilesOK, Rows, Plans
  <2>4. UNCHANGED <<source, glossary, cache, disk>>
    BY <1>8 DEF TaskWork
  <2>5. req[worker.task].dir \in Dirs
    BY <1>0, <1>8 DEF TaskWork, WorkerOK, SnapshotOK, Live
  <2>6. bundles' \in SUBSET Dirs
    BY <1>0, <1>8, <2>5 DEF TaskWork, FilesOK
  <2>. QED  BY <1>0, <2>3, <2>4, <2>6 DEF FilesOK, Rows
<1>9. CASE TaskSave
  <2>1. worker.task \in Requests /\ worker.outcome \in Outcomes
    BY <1>0, <1>9 DEF TaskSave, WorkerOK, TypeOK, WorkerRecords
  <2>2. ASSUME ~IsPublish(worker.task)
        PROVE  disk[req[worker.task].dir] \in Snapshots
    BY <1>0, <1>9, <2>1, <2>2 DEF TaskSave, WorkerOK, SnapshotOK, Live, IsPublish, FilesOK, Rows
  <2>3. ASSUME NEW conf \in SUBSET Nat, NEW r \in Snapshots
        PROVE  [r EXCEPT !.status = worker.outcome.status, !.ckpt = worker.outcome.ckpt,
                         !.conf = conf] \in Snapshots
    BY <2>1 DEF Snapshots, Outcomes
  <2>4. disk' \in [Dirs -> Snapshots \cup {None}]
    BY <1>0, <1>9, <2>2, <2>3, StaleRowsType DEF TaskSave, FilesOK, Rows
  <2>. QED  BY <1>0, <1>9, <2>4 DEF TaskSave, FilesOK, Rows
<1>10. CASE OtherProgram
  BY <1>0, <1>10 DEF OtherProgram, FilesOK, Rows
<1>. QED
  BY <1>2, <1>3, <1>4, <1>5, <1>6, <1>7, <1>8, <1>9, <1>10 DEF Next, Work, Serve


LEMMA QueuedIsNewTask ==
    ASSUME TypeOK, NEW q \in Requests, NEW d \in Dirs, NEW mode \in Modes, NEW f \in Credentials,
           Queued(q, d, mode, f)
    PROVE  NewTask(q, d)
<1>0. disk \in [Dirs -> Snapshots \cup {None}]
  BY DEF TypeOK, FilesOK
<1>1. [status |-> "queued", mode |-> mode, dotenv |-> f, conf |-> {},
       ckpt |-> disk[d] # None /\ disk[d].ckpt] \in Snapshots
  BY <1>0 DEF Snapshots, Statuses
<1>. QED  BY <1>0, <1>1, NoneIsNoRecord DEF Queued, NewTask

LEMMA AskArrives ==
    ASSUME TypeOK, NEW q \in Requests, Ask(q)
    PROVE  Arrives(q)
<1>0. /\ req \in [Requests -> RequestRecords] /\ disk \in [Dirs -> Snapshots \cup {None}]
      /\ cache \in [Variants -> (SUBSET Scopes) \cup {None}] /\ glossary \in SUBSET Scopes
  BY DEF TypeOK, FilesOK
<1>. USE DEF NoRequest, LockFree, Silent
<1>1. ASSUME NEW v \in Variants, NEW mode \in Modes, NEW f \in Credentials,
             PreflightStart(q, v, mode, f)
      PROVE  Arrives(q)
  BY <1>0, <1>1 DEF PreflightStart, Arrives
<1>2. ASSUME NEW d \in Dirs, NEW mode \in Modes, NEW f \in Credentials,
             NEW p \in Requests \cup {None}, Submit(q, d, mode, f, p)
      PROVE  Arrives(q)
  <2> DEFINE new == [NoRequest EXCEPT !.pc = "answered", !.dir = d, !.mode = mode, !.dotenv = f,
                         !.pf = p, !.plan = IF p = None THEN None ELSE req[p].plan]
  <2>0. new.pc = "answered" /\ new.dir = d /\ [new EXCEPT !.pc = "hangs"].pc = "hangs"
    OBVIOUS
  <2>1. CASE req' = [req EXCEPT ![q] = new] /\ Queued(q, d, mode, f) /\ UNCHANGED lock
    <3>1. NewTask(q, d)
      BY <1>2, <2>1, QueuedIsNewTask
    <3>2. req'[q] = new /\ \A p2 \in Requests : p2 # q => req'[p2] = req[p2]
      BY <1>0, <2>1
    <3>. HIDE DEF new
    <3>. QED  BY <1>2, <2>0, <2>1, <3>1, <3>2 DEF Submit, Arrives
  <2>2. CASE req' = [req EXCEPT ![q] = [new EXCEPT !.pc = "hangs"]] /\ lock' = q
             /\ UNCHANGED <<queue, tasks, disk>>
    <3>2. req'[q] = [new EXCEPT !.pc = "hangs"] /\ \A p2 \in Requests : p2 # q => req'[p2] = req[p2]
      BY <1>0, <2>2
    <3>. HIDE DEF new
    <3>. QED  BY <1>2, <2>0, <2>2, <3>2 DEF Submit, Arrives
  <2>. QED  BY <1>2, <2>1, <2>2 DEF Submit
<1>3. ASSUME NEW d \in Dirs, NEW parent \in Dirs, NEW mode \in Modes,
             SubmitRebuild(q, d, parent, mode)
      PROVE  Arrives(q)
  <2>1. disk[parent].dotenv \in Credentials
    BY <1>0, <1>3 DEF SubmitRebuild, Snapshots
  <2>2. NewTask(q, d)
    BY <1>3, <2>1, QueuedIsNewTask DEF SubmitRebuild
  <2>3. req'[q].pc = "answered" /\ req'[q].dir = d /\ \A p \in Requests : p # q => req'[p] = req[p]
    BY <1>0, <1>3 DEF SubmitRebuild
  <2>. QED  BY <1>3, <2>2, <2>3 DEF SubmitRebuild, Arrives
<1>4. ASSUME NEW d \in Dirs, PublishStart(q, d) PROVE Arrives(q)
  BY <1>0, <1>4 DEF PublishStart, Arrives
<1>5. ASSUME NEW p \in Requests, ConfirmPreflight(q, p) PROVE Arrives(q)
  <2> DEFINE new == [req[p] EXCEPT !.pf = p]
  <2>1. [new EXCEPT !.pc = "replan", !.saved = env].pc = "replan"
        /\ [new EXCEPT !.pc = "replan", !.saved = env].pf = p
    BY <1>0 DEF RequestRecords
  <2>2. p # None /\ Kept(p) /\ Confirm(q, new)
    BY <1>5, NoneIsNoValue DEF ConfirmPreflight
  <2>. HIDE DEF new
  <2>. QED  BY <1>0, <2>1, <2>2 DEF Confirm, Refuse, Arrives
<1>6. ASSUME NEW d \in Dirs, ConfirmRun(q, d) PROVE Arrives(q)
  <2> DEFINE new == [NoRequest EXCEPT !.dir = d, !.mode = disk[d].mode, !.dotenv = disk[d].dotenv,
                         !.shown = disk[d].conf]
  <2>1. disk[d].mode \in Modes /\ Confirm(q, new)
    BY <1>0, <1>6 DEF ConfirmRun, Snapshots
  <2>2. /\ [new EXCEPT !.pc = "replan", !.saved = env].pc = "replan"
        /\ [new EXCEPT !.pc = "replan", !.saved = env].pf = None
        /\ [new EXCEPT !.pc = "replan", !.saved = env].dir = d
        /\ [new EXCEPT !.pc = "replan", !.saved = env].mode = disk[d].mode
    OBVIOUS
  <2>. HIDE DEF new
  <2>. QED  BY <1>0, <2>1, <2>2 DEF Confirm, Refuse, Arrives
<1>7. ASSUME NEW v \in Variants, NEW scope \in Scopes \cup {None}, ReviewStart(q, v, scope)
      PROVE  Arrives(q)
  <2> DEFINE terms == IF cache[v] = None THEN glossary ELSE cache[v]
             exclude == [NoRequest EXCEPT !.pc = "exclude", !.dir = <<v, None>>, !.shown = {scope}]
  <2>0. terms # None
    BY <1>0, NoneIsNoRecord
  <2>1. CASE Busy \/ scope = None
    BY <1>0, <1>7, <2>1 DEF ReviewStart, Refuse, Arrives
  <2>2. CASE ~Busy /\ scope # None
    <3>1. cache' = [cache EXCEPT ![v] = terms] /\ cache'[v] # None
      BY <1>0, <1>7, <2>0, <2>2 DEF ReviewStart
    <3>2. CASE Answer(q) /\ UNCHANGED lock
      BY <1>0, <1>7, <2>2, <3>1, <3>2 DEF ReviewStart, Answer, Over, Arrives
    <3>3. CASE req' = [req EXCEPT ![q] = exclude] /\ lock' = q
      <4>1. /\ exclude.pc = "exclude" /\ exclude.dir = <<v, None>> /\ exclude.shown = {scope}
            /\ req'[q] = exclude /\ \A p \in Requests : p # q => req'[p] = req[p]
        BY <1>0, <3>3
      <4>2. Excluding(q)'
        BY <2>2, <3>1, <4>1 DEF Excluding
      <4>. HIDE DEF exclude, terms
      <4>. QED  BY <1>0, <1>7, <2>0, <2>2, <3>1, <3>3, <4>1, <4>2 DEF ReviewStart, Arrives
    <3>. QED  BY <1>7, <2>2, <3>2, <3>3 DEF ReviewStart
  <2>. QED  BY <2>1, <2>2
<1>. QED
  BY <1>1, <1>2, <1>3, <1>4, <1>5, <1>6, <1>7, ModesAreKnown DEF Ask, Credentials

\* A step keeps the types.
LEMMA TypeStep == Inv /\ [Next]_vars => TypeOK'
<1>. SUFFICES ASSUME Inv, [Next]_vars PROVE TypeOK'
  OBVIOUS
<1>0. TypeOK /\ FilesOK /\ WorkerOK /\ ConfirmOK
  BY DEF Inv, TypeOK
<1>1. req' \in [Requests -> RequestRecords] /\ worker' \in WorkerRecords /\ FilesOK'
  BY RequestsType, WorkerType, FilesType
<1>2. env' \in Credentials
  <2>1. CASE env' = env
    BY <1>0, <2>1 DEF TypeOK
  <2>2. \A q \in Requests : req[q].dotenv \in Credentials /\ req[q].saved \in Credentials
    BY <1>0 DEF TypeOK, RequestRecords
  <2>3. worker.saved \in Credentials
    BY <1>0 DEF TypeOK, WorkerRecords
  <2>4. \A f, saved \in Credentials : EnvWith(f) \in Credentials /\ EnvWithout(f, saved) \in Credentials
    BY <1>0, EnvType
  <2>5. ASSUME NEW q \in Requests, Ask(q) PROVE env' \in Credentials
    <3>1. ASSUME NEW d \in Dirs, ConfirmRun(q, d) PROVE env' \in Credentials
      <4>1. disk[d].dotenv \in Credentials
        BY <1>0, <3>1 DEF ConfirmRun, FilesOK, Snapshots
      <4>2. env' = env \/ env' = EnvWith(disk[d].dotenv)
        BY <3>1 DEF ConfirmRun, Confirm, NoRequest
      <4>. QED  BY <2>1, <2>4, <4>1, <4>2 DEF Credentials
    <3>2. ASSUME NEW p \in Requests, ConfirmPreflight(q, p) PROVE env' \in Credentials
      <4>1. req[p] \in RequestRecords
        BY <1>0 DEF TypeOK
      <4>2. env' = env \/ env' = EnvWith(req[p].dotenv)
        BY <3>2, <4>1 DEF ConfirmPreflight, Confirm, RequestRecords
      <4>. QED  BY <2>1, <2>2, <2>4, <4>2
    <3>3. ASSUME NEW v \in Variants, NEW mode \in Modes, NEW f \in Credentials,
                 PreflightStart(q, v, mode, f)
          PROVE  env' \in Credentials
      BY <2>4, <3>3 DEF PreflightStart
    <3>. QED
      BY <2>1, <2>5, <3>1, <3>2, <3>3, ModesAreKnown
         DEF Ask, Submit, SubmitRebuild, PublishStart, ReviewStart, Credentials
  <2>6. ASSUME NEW q \in Requests, Serve(q) PROVE env' \in Credentials
    BY <2>1, <2>2, <2>4, <2>6
       DEF Serve, PreflightPlan, PreflightKeep, PublishQueue, ConfirmPlan, ConfirmRetire,
           ConfirmEnd, ReviewCommit, Exclude
  <2>7. ASSUME worker.pc # "idle", NEW outcome, NEW ckpt, EndsAs(outcome, ckpt)
        PROVE  env' \in Credentials
    BY <1>0, <2>2, <2>3, <2>4, <2>7 DEF EndsAs, WorkerOK
  <2>8. CASE Take
    <3>1. Head(queue) \in Requests
      BY <1>0, <2>8 DEF Take, TypeOK
    <3>. QED  BY <2>2, <2>4, <2>8, <3>1 DEF Take, Credentials
  <2>9. CASE TaskPlan \/ TaskWork \/ PublishWork
    BY <2>1, <2>7, <2>9 DEF TaskPlan, TaskWork, PublishWork
  <2>10. CASE \/ \E q \in Requests : AuditLost(q)
              \/ \E v \in Variants : ReviewLook(v)
              \/ TaskSave \/ TaskLost \/ OtherProgram \/ UNCHANGED vars
    BY <2>1, <2>10 DEF AuditLost, ReviewLook, TaskSave, TaskLost, OtherProgram, vars
  <2>. QED  BY <2>5, <2>6, <2>8, <2>9, <2>10 DEF Next, Work
<1>3. lock' \in Requests \cup {None}
  <2>1. CASE lock' = lock
    BY <1>0, <2>1 DEF TypeOK
  <2>2. ASSUME NEW q \in Requests, Ask(q) PROVE lock' \in {lock, q}
    BY <1>0, <2>2, AskArrives DEF Arrives
  <2>3. ASSUME NEW q \in Requests, Serve(q) \/ AuditLost(q) PROVE lock' \in {lock, None}
    BY <2>3 DEF Serve, PreflightPlan, PreflightKeep, PublishQueue, ConfirmPlan, ConfirmRetire,
                ConfirmEnd, ReviewCommit, Exclude, AuditLost
  <2>4. CASE \/ Work \/ TaskLost \/ OtherProgram \/ UNCHANGED vars
             \/ \E v \in Variants : ReviewLook(v)
    BY <2>1, <2>4 DEF Work, Take, TaskPlan, TaskWork, PublishWork, TaskSave, TaskLost,
                      ReviewLook, OtherProgram, vars
  <2>. QED  BY <2>1, <2>2, <2>3, <2>4 DEF Next
<1>4. preflights' \in Seq(Requests)
  <2>1. CASE preflights' = preflights
    BY <1>0, <2>1 DEF TypeOK
  <2>2. ASSUME NEW q \in Requests, PreflightPlan(q) PROVE preflights' \in Seq(Requests)
    BY <1>0, <2>2 DEF TypeOK, PreflightPlan
  <2>3. ASSUME NEW q \in Requests, PreflightKeep(q) \/ ConfirmEnd(q)
        PROVE  preflights' \in Seq(Requests)
    BY <1>0, <2>1, <2>3, WithoutType DEF PreflightKeep, ConfirmEnd
  <2>4. ASSUME NEW q \in Requests, Ask(q) \/ AuditLost(q) PROVE preflights' = preflights
    BY <2>4 DEF Ask, PreflightStart, Submit, SubmitRebuild, PublishStart, ConfirmPreflight,
                ConfirmRun, Confirm, ReviewStart, AuditLost
  <2>5. ASSUME NEW q \in Requests, Serve(q), ~PreflightPlan(q), ~PreflightKeep(q), ~ConfirmEnd(q)
        PROVE  preflights' = preflights
    BY <2>5 DEF Serve, PublishQueue, ConfirmPlan, ConfirmRetire, ReviewCommit, Exclude
  <2>6. CASE \/ Work \/ TaskLost \/ OtherProgram \/ UNCHANGED vars
             \/ \E v \in Variants : ReviewLook(v)
    BY <2>1, <2>6 DEF Work, Take, TaskPlan, TaskWork, PublishWork, TaskSave, TaskLost,
                      ReviewLook, OtherProgram, vars
  <2>. QED  BY <2>1, <2>2, <2>3, <2>4, <2>5, <2>6 DEF Next
<1>5. queue' \in Seq(Requests) /\ tasks' \in [Requests -> Statuses \cup {None}]
  <2>1. CASE UNCHANGED <<queue, tasks>>
    BY <1>0, <2>1 DEF TypeOK
  <2>2. ASSUME NEW q \in Requests, queue' = Append(queue, q),
               tasks' = [tasks EXCEPT ![q] = "queued"]
        PROVE  queue' \in Seq(Requests) /\ tasks' \in [Requests -> Statuses \cup {None}]
    BY <1>0, <2>2 DEF TypeOK, Statuses
  <2>3. ASSUME NEW q \in Requests, Ask(q)
        PROVE  \/ UNCHANGED <<queue, tasks>>
               \/ queue' = Append(queue, q) /\ tasks' = [tasks EXCEPT ![q] = "queued"]
    BY <1>0, <2>3, AskArrives DEF Arrives, NewTask
  <2>4. ASSUME NEW q \in Requests, Serve(q) \/ AuditLost(q)
        PROVE  \/ UNCHANGED <<queue, tasks>>
               \/ queue' = Append(queue, q) /\ tasks' = [tasks EXCEPT ![q] = "queued"]
    BY <2>4 DEF Serve, PreflightPlan, PreflightKeep, PublishQueue, ConfirmPlan, ConfirmRetire,
                ConfirmEnd, Queued, ReviewCommit, Exclude, AuditLost
  <2>5. CASE Take
    BY <1>0, <2>5 DEF Take, TypeOK, Statuses
  <2>6. CASE TaskSave
    <3>1. worker.outcome.status \in Statuses
      BY <1>0, <2>6 DEF TaskSave, WorkerOK, TypeOK, WorkerRecords, Outcomes
    <3>. QED  BY <1>0, <2>6, <3>1 DEF TaskSave, MemoryShows, TypeOK
  <2>7. CASE \/ TaskPlan \/ TaskWork \/ PublishWork \/ TaskLost \/ OtherProgram
             \/ UNCHANGED vars \/ \E v \in Variants : ReviewLook(v)
    BY <2>1, <2>7 DEF TaskPlan, TaskWork, PublishWork, TaskLost, ReviewLook, OtherProgram, vars
  <2>. QED  BY <2>1, <2>2, <2>3, <2>4, <2>5, <2>6, <2>7 DEF Next, Work
<1>6. others' \in Nat /\ faults' \in Nat
  <2>1. ASSUME NEW q \in Requests, Ask(q) PROVE UNCHANGED <<others, faults>>
    BY <2>1 DEF Ask, PreflightStart, Submit, SubmitRebuild, PublishStart, ConfirmPreflight,
                ConfirmRun, Confirm, ReviewStart
  <2>2. ASSUME NEW q \in Requests, Serve(q) PROVE UNCHANGED <<others, faults>>
    BY <2>2 DEF Serve, PreflightPlan, PreflightKeep, PublishQueue, ConfirmPlan, ConfirmRetire,
                ConfirmEnd, ReviewCommit, Exclude
  <2>3. CASE (\E q \in Requests : AuditLost(q)) \/ TaskLost \/ OtherProgram
    BY <1>0, <2>3 DEF TypeOK, AuditLost, TaskLost, OtherProgram
  <2>4. CASE Work \/ UNCHANGED vars \/ \E v \in Variants : ReviewLook(v)
    BY <1>0, <2>4 DEF TypeOK, Work, Take, TaskPlan, TaskWork, PublishWork, TaskSave, ReviewLook, vars
  <2>. QED  BY <1>0, <2>1, <2>2, <2>3, <2>4 DEF Next, TypeOK
<1>. QED  BY <1>1, <1>2, <1>3, <1>4, <1>5, <1>6 DEF TypeOK

\* A nonempty set of numbers has a smallest element.
LEMMA Smallest ==
    ASSUME NEW S, S \subseteq Nat, S # {}
    PROVE  \E i \in S : \A j \in S : i <= j
<1>1. PICK i \in S : \A j \in S : ~ (<<j, i>> \in OpToRel(<, Nat))
  BY NatLessThanWellFounded, WFMin
<1>2. \A j \in S : ~ (j < i)
  BY <1>1 DEF OpToRel
<1>. QED  BY <1>2

\* The oldest preflight of a set that has one is of that set.
LEMMA OldestOfSet ==
    ASSUME TypeOK, NEW P, NEW p \in P, Created(p)
    PROVE  Oldest(P) \in P /\ Created(Oldest(P))
<1> DEFINE I == {i \in 1..Len(preflights) : preflights[i] \in P}
<1>1. preflights \in Seq(Requests) /\ Len(preflights) \in Nat
  BY DEF TypeOK
<1>2. I \subseteq Nat /\ I # {}
  BY <1>1 DEF Created
<1>3. PICK i \in I : \A j \in I : i <= j
  BY <1>2, Smallest
<1>4. preflights[i] \in P /\ \A j \in 1..(i - 1) : preflights[j] \notin P
  BY <1>1, <1>3
<1>. QED  BY <1>1, <1>3, <1>4 DEF Oldest, Created

\* Only a preflight that is answered is dropped to make room for one.
LEMMA KeepDrops ==
    ASSUME TypeOK, NEW q \in Requests, PreflightKeep(q)
    PROVE  LET kept == {p \in Requests : Kept(p)} \cup {q}
           IN  Cardinality(kept) > MaxPreflights => Oldest(kept) \in kept
<1> DEFINE kept == {p \in Requests : Kept(p)} \cup {q}
<1>1. CASE \E p \in Requests : Kept(p)
  BY <1>1, OldestOfSet DEF Kept
<1>2. CASE ~ \E p \in Requests : Kept(p)
  <2>1. kept = {q}
    BY <1>2
  <2>. QED  BY <2>1, FS_Singleton, BoundsAreNat
<1>. QED  BY <1>1, <1>2

LEMMA ServeServes ==
    ASSUME TypeOK, PreflightOK, ConfirmOK, ExcludeOK, NEW q \in Requests,
           Serve(q) \/ AuditLost(q)
    PROVE  Serves(q)
<1>0. req \in [Requests -> RequestRecords] /\ cache \in [Variants -> (SUBSET Scopes) \cup {None}]
      /\ preflights \in Seq(Requests)
  BY DEF TypeOK, FilesOK
<1>. USE DEF NoRequest, Silent
<1>1. CASE PreflightPlan(q)
  <2>1. /\ req[q].pc = "preflight" /\ req'[q].pc = "preview"
        /\ \A p \in Requests : p # q => req'[p] = req[p]
    BY <1>0, <1>1 DEF PreflightPlan, RequestRecords
  <2>2. \A p \in Requests : Created(p)' => Created(p) \/ p = q
    BY <1>0, <1>1 DEF PreflightPlan, Created
  <2>. QED  BY <1>1, <2>1, <2>2 DEF PreflightPlan, Serves
<1>2. CASE PreflightKeep(q)
  <2> DEFINE kept == {p \in Requests : Kept(p)} \cup {q}
             shown == [req EXCEPT ![q].pc = "answered", ![q].shown = StaleRows(req[q].plan)]
  <2>1. /\ req[q].pc = "preview" /\ shown[q].pc = "answered" /\ Over.pc = "answered"
        /\ shown \in [Requests -> RequestRecords]
        /\ \A p \in Requests : p # q => shown[p] = req[p]
    <3> DEFINE r == [req[q] EXCEPT !.pc = "answered", !.shown = StaleRows(req[q].plan)]
    <3>1. r.pc = "answered" /\ r \in RequestRecords
      BY <1>0, StaleRowsType DEF RequestRecords, PCs
    <3>2. shown = [req EXCEPT ![q] = r]
      BY <1>0
    <3>. HIDE DEF r, shown
    <3>. QED  BY <1>0, <1>2, <3>1, <3>2 DEF PreflightKeep, Over
  <2>2. CASE Cardinality(kept) > MaxPreflights
    <3>1. Oldest(kept) \in kept
      BY <1>2, <2>2, KeepDrops
    <3>2. preflights' = Without(Oldest(kept)) /\ req' = [shown EXCEPT ![Oldest(kept)] = Over]
      BY <1>2, <2>2 DEF PreflightKeep
    <3>3. \A p \in kept : p # q => tasks[p] = None /\ req[p].pc = "answered"
      BY DEF Kept, PreflightOK
    <3>. HIDE DEF kept, shown
    <3>4. req'[q].pc = "answered"
      BY <2>1, <3>2
    <3>5. \A p \in Requests : p # q =>
             req'[p] = req[p] \/ (tasks[p] = None /\ req[p].pc = "answered" /\ req'[p] = Over)
      BY <2>1, <3>1, <3>2, <3>3
    <3>6. \A p \in Requests : Created(p)' => Created(p)
      BY <1>0, <3>2, WithoutType DEF Created
    <3>. QED  BY <1>2, <2>1, <3>4, <3>5, <3>6 DEF PreflightKeep, Serves
  <2>3. CASE ~(Cardinality(kept) > MaxPreflights)
    <3>1. req' = shown /\ UNCHANGED preflights
      BY <1>2, <2>3 DEF PreflightKeep
    <3>2. \A p \in Requests : Created(p)' => Created(p)
      BY <3>1 DEF Created
    <3>. HIDE DEF kept, shown
    <3>. QED  BY <1>2, <2>1, <3>1, <3>2 DEF PreflightKeep, Serves
  <2>. QED  BY <2>2, <2>3
<1>3. CASE PublishQueue(q)
  BY <1>0, <1>3 DEF PublishQueue, RequestRecords, Serves, Created
<1>4. CASE ConfirmPlan(q)
  BY <1>0, <1>4 DEF ConfirmPlan, Refuse, RequestRecords, Serves, Created
<1>5. CASE ConfirmRetire(q)
  BY <1>0, <1>5 DEF ConfirmRetire, Refuse, RequestRecords, Serves, Created
<1>6. CASE ConfirmEnd(q)
  <2>1. Confirming(q)
    BY <1>6 DEF ConfirmEnd, ConfirmOK
  <2>2. CASE /\ req[q].pf # None
             /\ req' = [req EXCEPT ![q] = Over, ![req[q].pf] = Over]
             /\ preflights' = Without(req[q].pf)
             /\ UNCHANGED <<queue, tasks, disk>>
    <3>1. req[q].pf \in Requests /\ Over.pc = "answered"
      BY <1>0, <2>2 DEF RequestRecords, Over
    <3>2. /\ req'[q].pc = "answered"
          /\ \A p \in Requests : p # q =>
                 req'[p] = req[p] \/ (tasks[p] = None /\ req[p].pc = "answered" /\ req'[p] = Over)
      BY <1>0, <2>1, <2>2, <3>1 DEF Confirming
    <3>3. \A p \in Requests : Created(p)' => Created(p)
      BY <1>0, <2>2, WithoutType DEF Created
    <3>. QED  BY <1>6, <2>2, <3>2, <3>3 DEF ConfirmEnd, Serves
  <2>3. CASE req[q].pf = None /\ Refuse(q) /\ UNCHANGED <<queue, tasks, disk, preflights>>
    BY <1>0, <1>6, <2>3 DEF ConfirmEnd, Refuse, Serves, Created
  <2>4. CASE /\ req[q].pf = None /\ req' = [req EXCEPT ![q].pc = "answered", ![q].plan = None]
             /\ Queued(q, req[q].dir, req[q].mode, req[q].dotenv) /\ UNCHANGED preflights
    <3>1. /\ req[q].dir \in Dirs /\ req[q].mode \in Modes /\ req[q].dotenv \in Credentials
          /\ req'[q].pc = "answered" /\ req'[q].dir = req[q].dir
          /\ \A p \in Requests : p # q => req'[p] = req[p]
      BY <1>0, <2>1, <2>4 DEF Confirming, RequestRecords
    <3>2. NewTask(q, req[q].dir)
      BY <2>4, <3>1, QueuedIsNewTask
    <3>. QED  BY <1>6, <2>4, <3>1, <3>2 DEF ConfirmEnd, Serves, Created
  <2>. QED  BY <1>6, <2>2, <2>3, <2>4 DEF ConfirmEnd
<1>7. CASE ReviewCommit(q)
  BY <1>0, <1>7 DEF ReviewCommit, Answer, Over, Serves, Created
<1>8. CASE Exclude(q)
  <2>1. \A v \in Variants : cache[v] # None => cache'[v] # None
    <3>1. Excluding(q) /\ req[q].dir[1] \in Variants
      BY <1>8 DEF Exclude, ExcludeOK, Excluding
    <3>2. cache[req[q].dir[1]] \cup req[q].shown \in SUBSET Scopes
      BY <1>0, <3>1 DEF Excluding
    <3>3. cache' = [cache EXCEPT ![req[q].dir[1]] = cache[req[q].dir[1]] \cup req[q].shown]
      BY <1>8 DEF Exclude
    <3>. QED  BY <1>0, <3>1, <3>2, <3>3, NoneIsNoRecord
  <2>. QED  BY <1>0, <1>8, <2>1 DEF Exclude, Answer, Over, Serves, Created
<1>9. CASE AuditLost(q)
  BY <1>0, <1>9 DEF AuditLost, Refuse, Serves, Created
<1>. QED
  BY <1>1, <1>2, <1>3, <1>4, <1>5, <1>6, <1>7, <1>8, <1>9 DEF Serve

------------------------------------------------------------------------------
\* The steps, and what each keeps.

LEMMA OtherIsQuiet ==
    ASSUME TypeOK, WorkerOK, SnapshotOK,
           \/ TaskPlan \/ TaskWork \/ PublishWork \/ TaskLost \/ OtherProgram \/ UNCHANGED vars
           \/ \E v \in Variants : ReviewLook(v)
    PROVE  Quiet
<1>0. /\ cache \in [Variants -> (SUBSET Scopes) \cup {None}] /\ glossary \in SUBSET Scopes
      /\ worker \in WorkerRecords
      /\ worker.pc \in {"plan", "work"} => disk[req[worker.task].dir].ckpt \in BOOLEAN
  BY DEF TypeOK, FilesOK, WorkerOK, SnapshotOK, Snapshots, Live
<1>. USE DEF Control, Goes
<1>a. ASSUME NEW outcome \in {"waiting", "failed", "completed"}, NEW ckpt \in BOOLEAN,
             worker.pc # "idle", EndsAs(outcome, ckpt)
      PROVE  Goes
  <2>1. [status |-> outcome, ckpt |-> ckpt] \in Outcomes
    BY DEF Outcomes, Statuses
  <2>. QED  BY <1>0, <1>a, <2>1, NoneIsNoRecord DEF EndsAs, WorkerRecords, Live
<1>1. CASE TaskPlan
  <2>1. CASE PlanStands(worker.task) /\ worker' = [worker EXCEPT !.pc = "work", !.plan = PlanNow]
    BY <1>0, <1>1, <2>1 DEF TaskPlan, Quiet, WorkerRecords
  <2>2. CASE EndsAs("failed", disk[req[worker.task].dir].ckpt)
    BY <1>0, <1>1, <1>a, <2>2 DEF TaskPlan, Quiet
  <2>. QED  BY <1>1, <2>1, <2>2 DEF TaskPlan
<1>2. CASE TaskWork
  <2>1. \E outcome \in {"waiting", "failed", "completed"} :
           \E ckpt \in {disk[req[worker.task].dir].ckpt, TRUE} : EndsAs(outcome, ckpt)
    BY <1>2 DEF TaskWork
  <2>2. Goes
    BY <1>0, <1>2, <1>a, <2>1 DEF TaskWork
  <2>. QED  BY <1>2, <2>2 DEF TaskWork, Quiet
<1>3. CASE PublishWork
  <2>1. Goes
    BY <1>0, <1>3, <1>a DEF PublishWork
  <2>. QED  BY <1>3, <2>1 DEF PublishWork, Quiet
<1>4. CASE TaskLost
  BY <1>4 DEF TaskLost, Idle, Quiet
<1>5. CASE OtherProgram \/ UNCHANGED vars
  BY <1>5 DEF OtherProgram, vars, Quiet
<1>6. ASSUME NEW v \in Variants, ReviewLook(v) PROVE Quiet
  BY <1>0, <1>6, NoneIsNoRecord DEF ReviewLook, Quiet
<1>. QED  BY <1>1, <1>2, <1>3, <1>4, <1>5, <1>6

LEMMA Kinds ==
    ASSUME Inv, [Next]_vars
    PROVE  \/ \E q \in Requests : Arrives(q) \/ Serves(q)
           \/ Quiet \/ Take \/ TaskSave
<1>. TypeOK /\ WorkerOK /\ SnapshotOK /\ PreflightOK /\ ConfirmOK /\ ExcludeOK
  BY DEF Inv
<1>. QED
  BY AskArrives, ServeServes, OtherIsQuiet DEF Next, Work

\* The task the worker takes was queued.
LEMMA TakeEffect ==
    ASSUME TypeOK, QueueOK, Take
    PROVE  /\ Head(queue) \in Requests /\ tasks[Head(queue)] = "queued"
           /\ tasks' = [tasks EXCEPT ![Head(queue)] = "running"]
           /\ worker'.task = Head(queue)
           /\ worker'.pc = IF IsPublish(Head(queue)) THEN "publish" ELSE "plan"
           /\ queue' = Tail(queue) /\ Len(queue) > 0
           /\ UNCHANGED <<req, preflights, lock, disk, cache>>
<1>1. queue \in Seq(Requests) /\ queue # <<>>
  BY DEF TypeOK, Take
<1>2. Len(queue) > 0 /\ Head(queue) = queue[1] /\ Head(queue) \in Requests
  BY <1>1
<1>3. tasks[queue[1]] = "queued"
  BY <1>1, <1>2 DEF QueueOK
<1>. QED  BY <1>1, <1>2, <1>3 DEF Take, Idle

\* A task that is saved was running, and does not run again.
LEMMA SaveEffect ==
    ASSUME TypeOK, WorkerOK, SnapshotOK, TaskSave
    PROVE  /\ worker.task \in Requests /\ tasks[worker.task] = "running"
           /\ tasks' = [tasks EXCEPT ![worker.task] = worker.outcome.status]
           /\ ~Live(worker.outcome.status)
           /\ req' = [req EXCEPT ![worker.task] = Over]
           /\ worker'.pc = "idle"
           /\ \A d \in Dirs : disk[d] # None => disk'[d] # None
           /\ UNCHANGED <<preflights, queue, lock, cache>>
<1>1. /\ worker.task \in Requests /\ tasks[worker.task] = "running" /\ worker.outcome \in Outcomes
      /\ ~Live(worker.outcome.status)
      /\ disk \in [Dirs -> Snapshots \cup {None}]
  BY DEF TaskSave, WorkerOK, TypeOK, FilesOK, WorkerRecords
<1>2. ASSUME ~IsPublish(worker.task)
      PROVE  /\ req[worker.task].dir \in Dirs
             /\ disk[req[worker.task].dir] \in Snapshots
  BY <1>1, <1>2 DEF SnapshotOK, Live, IsPublish
<1>3. ASSUME NEW conf \in SUBSET Nat, NEW r \in Snapshots
      PROVE  [r EXCEPT !.status = worker.outcome.status, !.ckpt = worker.outcome.ckpt,
                       !.conf = conf] \in Snapshots
  BY <1>1 DEF Snapshots, Outcomes
<1>4. \A d \in Dirs : disk[d] # None => disk'[d] # None
  <2> DEFINE conf == IF worker.outcome.status = "waiting" THEN StaleRows(PlanNow) ELSE {}
             r == disk[req[worker.task].dir]
             saved == [r EXCEPT !.status = worker.outcome.status, !.ckpt = worker.outcome.ckpt,
                                !.conf = conf]
  <2>1. conf \in SUBSET Nat
    BY StaleRowsType
  <2>2. IsPublish(worker.task) => disk' = disk
    BY DEF TaskSave
  <2>3. ~IsPublish(worker.task) => disk' = [disk EXCEPT ![req[worker.task].dir] = saved]
    BY DEF TaskSave
  <2>4. ~IsPublish(worker.task) => req[worker.task].dir \in Dirs /\ saved \in Snapshots
    BY <1>2, <1>3, <2>1
  <2>. HIDE DEF saved
  <2>. QED  BY <1>1, <2>2, <2>3, <2>4, NoneIsNoRecord
<1>. QED  BY <1>1, <1>4 DEF TaskSave, MemoryShows, Idle

LEMMA NotStartedStep == Inv /\ [Next]_vars => NotStarted'
<1>. SUFFICES ASSUME Inv, [Next]_vars PROVE NotStarted'
  OBVIOUS
<1>0. /\ TypeOK /\ NotStarted /\ QueueOK /\ WorkerOK /\ SnapshotOK
      /\ tasks \in [Requests -> Statuses \cup {None}] /\ req \in [Requests -> RequestRecords]
  BY DEF Inv, TypeOK
<1>1. ASSUME NEW q \in Requests, Arrives(q) PROVE NotStarted'
  BY <1>0, <1>1 DEF Arrives, NewTask, NotStarted, Unstarted
<1>2. ASSUME NEW q \in Requests, Serves(q) PROVE NotStarted'
  BY <1>0, <1>2 DEF Serves, NewTask, NotStarted, Unstarted, Silent, Over, NoRequest
<1>3. CASE Quiet
  BY <1>0, <1>3 DEF Quiet, Control, NotStarted
<1>4. CASE Take
  BY <1>0, <1>4, TakeEffect, NoneIsNoValue DEF NotStarted, Statuses
<1>5. CASE TaskSave
  BY <1>0, <1>5, SaveEffect, NoneIsNoValue DEF NotStarted, Statuses, Over, NoRequest, Unstarted
<1>. QED  BY <1>1, <1>2, <1>3, <1>4, <1>5, Kinds

LEMMA HoldsLockStep == Inv /\ [Next]_vars => HoldsLock'
<1>. SUFFICES ASSUME Inv, [Next]_vars PROVE HoldsLock'
  OBVIOUS
<1>0. /\ TypeOK /\ HoldsLock /\ QueueOK /\ WorkerOK /\ SnapshotOK
      /\ req \in [Requests -> RequestRecords]
  BY DEF Inv, TypeOK
<1>1. ASSUME NEW q \in Requests, Arrives(q) PROVE HoldsLock'
  BY <1>0, <1>1, NoneIsNoValue DEF Arrives, HoldsLock, Silent
<1>2. ASSUME NEW q \in Requests, Serves(q) PROVE HoldsLock'
  BY <1>0, <1>2, NoneIsNoValue DEF Serves, HoldsLock, Silent, Over, NoRequest
<1>3. CASE Quiet
  BY <1>0, <1>3 DEF Quiet, Control, HoldsLock
<1>4. CASE Take
  BY <1>0, <1>4, TakeEffect DEF HoldsLock
<1>5. CASE TaskSave
  BY <1>0, <1>5, SaveEffect DEF HoldsLock, Over, NoRequest, Silent
<1>. QED  BY <1>1, <1>2, <1>3, <1>4, <1>5, Kinds

LEMMA NothingRunsStep == Inv /\ [Next]_vars => NothingRuns'
<1>. SUFFICES ASSUME Inv, [Next]_vars PROVE NothingRuns'
  OBVIOUS
<1>0. /\ TypeOK /\ HoldsLock /\ NothingRuns /\ QueueOK /\ WorkerOK /\ SnapshotOK
      /\ req \in [Requests -> RequestRecords] /\ tasks \in [Requests -> Statuses \cup {None}]
  BY DEF Inv, TypeOK
<1>. USE DEF Busy, Live
<1>1. ASSUME NEW q \in Requests, Arrives(q) PROVE NothingRuns'
  BY <1>0, <1>1, NoneIsNoValue DEF Arrives, NewTask, HoldsLock, NothingRuns, Silent
<1>2. ASSUME NEW q \in Requests, Serves(q) PROVE NothingRuns'
  BY <1>0, <1>2, NoneIsNoValue DEF Serves, NewTask, HoldsLock, NothingRuns, Silent, Over, NoRequest
<1>3. CASE Quiet
  BY <1>0, <1>3 DEF Quiet, Control, NothingRuns
<1>4. CASE Take
  BY <1>0, <1>4, TakeEffect DEF NothingRuns
<1>5. CASE TaskSave
  BY <1>0, <1>5, SaveEffect DEF NothingRuns, Over, NoRequest, Silent
<1>. QED  BY <1>1, <1>2, <1>3, <1>4, <1>5, Kinds

LEMMA PublishStep == Inv /\ [Next]_vars => FirstPublish' /\ OnePublish'
<1>. SUFFICES ASSUME Inv, [Next]_vars PROVE FirstPublish' /\ OnePublish'
  OBVIOUS
<1>0. /\ TypeOK /\ NotStarted /\ HoldsLock /\ FirstPublish /\ OnePublish
      /\ QueueOK /\ WorkerOK /\ SnapshotOK
      /\ req \in [Requests -> RequestRecords] /\ tasks \in [Requests -> Statuses \cup {None}]
  BY DEF Inv, TypeOK
<1>. USE DEF Publishing, Live, FirstPublish, OnePublish
<1>1. ASSUME NEW q \in Requests, Arrives(q) PROVE FirstPublish' /\ OnePublish'
  BY <1>0, <1>1, NoneIsNoValue DEF Arrives, NewTask, HoldsLock, NotStarted, Unstarted, Silent
<1>2. ASSUME NEW q \in Requests, Serves(q) PROVE FirstPublish' /\ OnePublish'
  BY <1>0, <1>2, NoneIsNoValue
     DEF Serves, NewTask, HoldsLock, NotStarted, Unstarted, Silent, Over, NoRequest
<1>3. CASE Quiet
  BY <1>0, <1>3 DEF Quiet, Control
<1>4. CASE Take
  BY <1>0, <1>4, TakeEffect
<1>5. CASE TaskSave
  BY <1>0, <1>5, SaveEffect DEF Over, NoRequest
<1>. QED  BY <1>1, <1>2, <1>3, <1>4, <1>5, Kinds

LEMMA QueueStep == Inv /\ [Next]_vars => QueueOK'
<1>. SUFFICES ASSUME Inv, [Next]_vars PROVE QueueOK'
  OBVIOUS
<1>0. /\ TypeOK /\ NotStarted /\ QueueOK /\ WorkerOK /\ SnapshotOK /\ queue \in Seq(Requests)
      /\ req \in [Requests -> RequestRecords] /\ tasks \in [Requests -> Statuses \cup {None}]
  BY DEF Inv, TypeOK
<1>1. ASSUME NEW q \in Requests, tasks[q] = None, queue' = Append(queue, q),
             tasks' = [tasks EXCEPT ![q] = "queued"]
      PROVE  QueueOK'
  BY <1>0, <1>1, NoneIsNoValue DEF QueueOK, Statuses
<1>2. CASE UNCHANGED <<queue, tasks>>
  BY <1>0, <1>2 DEF QueueOK
<1>3. ASSUME NEW q \in Requests, Arrives(q) PROVE QueueOK'
  BY <1>0, <1>1, <1>2, <1>3 DEF Arrives, NewTask, NotStarted, Unstarted
<1>4. ASSUME NEW q \in Requests, Serves(q) PROVE QueueOK'
  BY <1>0, <1>1, <1>2, <1>4 DEF Serves, NewTask, NotStarted, Unstarted, Silent
<1>5. CASE Quiet
  BY <1>2, <1>5 DEF Quiet, Control
<1>6. CASE Take
  <2>1. /\ queue' = Tail(queue) /\ Len(queue) > 0 /\ Head(queue) = queue[1]
        /\ tasks' = [tasks EXCEPT ![queue[1]] = "running"]
    BY <1>0, <1>6, TakeEffect
  <2>2. /\ Len(queue') = Len(queue) - 1
        /\ \A i \in 1..Len(queue') : queue'[i] = queue[i + 1] /\ i + 1 \in 1..Len(queue)
    BY <1>0, <2>1
  <2>. QED  BY <1>0, <2>1, <2>2 DEF QueueOK
<1>7. CASE TaskSave
  BY <1>0, <1>7, SaveEffect DEF QueueOK
<1>. QED  BY <1>3, <1>4, <1>5, <1>6, <1>7, Kinds

LEMMA WorkerStep == Inv /\ [Next]_vars => WorkerOK'
<1>. SUFFICES ASSUME Inv, [Next]_vars PROVE WorkerOK'
  OBVIOUS
<1>0. /\ TypeOK /\ NotStarted /\ QueueOK /\ WorkerOK /\ SnapshotOK
      /\ req \in [Requests -> RequestRecords] /\ tasks \in [Requests -> Statuses \cup {None}]
  BY DEF Inv, TypeOK
<1>. USE DEF WorkerOK
<1>1. ASSUME UNCHANGED worker,
             worker.pc # "idle" => UNCHANGED <<tasks[worker.task], req[worker.task]>>
      PROVE  WorkerOK'
  BY <1>0, <1>1
<1>2. ASSUME NEW q \in Requests, Arrives(q) PROVE WorkerOK'
  <2>1. tasks[q] = None
    BY <1>0, <1>2 DEF Arrives, NotStarted, Unstarted
  <2>2. worker.pc # "idle" => worker.task # q
    BY <1>0, <2>1, NoneIsNoValue DEF Statuses
  <2>. QED  BY <1>0, <1>1, <1>2, <2>2 DEF Arrives, NewTask
<1>3. ASSUME NEW q \in Requests, Serves(q) PROVE WorkerOK'
  <2>1. tasks[q] = None
    BY <1>0, <1>3 DEF Serves, NotStarted, Unstarted, Silent
  <2>2. worker.pc # "idle" => worker.task # q /\ tasks[worker.task] # None
    BY <1>0, <2>1, NoneIsNoValue DEF Statuses
  <2>. QED  BY <1>0, <1>1, <1>3, <2>2 DEF Serves, NewTask
<1>4. CASE Quiet
  BY <1>0, <1>4, PlanNowType, NoneIsNoRecord DEF Quiet, Control, Goes, PlanStands
<1>5. CASE Take
  BY <1>0, <1>5, TakeEffect DEF IsPublish
<1>6. CASE TaskSave
  BY <1>0, <1>6, SaveEffect
<1>. QED  BY <1>2, <1>3, <1>4, <1>5, <1>6, Kinds

LEMMA SnapshotStep == Inv /\ [Next]_vars => SnapshotOK'
<1>. SUFFICES ASSUME Inv, [Next]_vars PROVE SnapshotOK'
  OBVIOUS
<1>0. /\ TypeOK /\ NotStarted /\ QueueOK /\ WorkerOK /\ SnapshotOK
      /\ req \in [Requests -> RequestRecords] /\ tasks \in [Requests -> Statuses \cup {None}]
  BY DEF Inv, TypeOK
<1>. USE DEF SnapshotOK, Live
<1>1. ASSUME NEW q \in Requests, Arrives(q) PROVE SnapshotOK'
  BY <1>0, <1>1, NoneIsNoValue DEF Arrives, NewTask, NotStarted, Unstarted, Statuses
<1>2. ASSUME NEW q \in Requests, Serves(q) PROVE SnapshotOK'
  BY <1>0, <1>2, NoneIsNoValue DEF Serves, NewTask, NotStarted, Unstarted, Statuses, Silent
<1>3. CASE Quiet
  BY <1>0, <1>3 DEF Quiet, Control
<1>4. CASE Take
  BY <1>0, <1>4, TakeEffect
<1>5. CASE TaskSave
  BY <1>0, <1>5, SaveEffect
<1>. QED  BY <1>1, <1>2, <1>3, <1>4, <1>5, Kinds

LEMMA PreflightStep == Inv /\ [Next]_vars => PreflightOK'
<1>. SUFFICES ASSUME Inv, [Next]_vars PROVE PreflightOK'
  OBVIOUS
<1>0. /\ TypeOK /\ NotStarted /\ QueueOK /\ WorkerOK /\ SnapshotOK /\ PreflightOK
      /\ req \in [Requests -> RequestRecords] /\ tasks \in [Requests -> Statuses \cup {None}]
  BY DEF Inv, TypeOK
<1>. USE DEF PreflightOK
<1>1. ASSUME NEW q \in Requests, Arrives(q) PROVE PreflightOK'
  <2>1. \A p \in Requests : Created(p)' => Created(p) /\ p # q
    BY <1>0, <1>1 DEF Arrives, Created, PreflightOK
  <2>. HIDE DEF Created
  <2>. QED  BY <1>0, <1>1, <2>1 DEF Arrives, NewTask
<1>2. ASSUME NEW q \in Requests, Serves(q) PROVE PreflightOK'
  <2>1. \A p \in Requests : Created(p)' => Created(p) \/ (p = q /\ req'[q].pc = "preview")
    BY <1>2 DEF Serves
  <2>2. \A p \in Requests \ {q} : Created(p) => tasks'[p] = None /\ req'[p].pc \in {"preview", "answered"}
    BY <1>0, <1>2 DEF Serves, NewTask, Over, NoRequest
  <2>3. Created(q) => req[q].pc = "preview"
    BY <1>0, <1>2 DEF Serves, Silent
  <2>4. Created(q) => tasks'[q] = None /\ req'[q].pc \in {"preview", "answered"}
    BY <1>0, <1>2, <2>3 DEF Serves, NotStarted, Unstarted, Silent
  <2>5. req'[q].pc = "preview" => tasks'[q] = None
    BY <1>0, <1>2 DEF Serves, NotStarted, Unstarted, Silent
  <2>. QED  BY <2>1, <2>2, <2>4, <2>5
<1>3. CASE Quiet
  BY <1>0, <1>3 DEF Quiet, Control, Created
<1>4. CASE Take
  BY <1>0, <1>4, TakeEffect, NoneIsNoValue DEF Created, Statuses
<1>5. CASE TaskSave
  BY <1>0, <1>5, SaveEffect, NoneIsNoValue DEF Created, Statuses
<1>. QED  BY <1>1, <1>2, <1>3, <1>4, <1>5, Kinds

LEMMA ConfirmStep == Inv /\ [Next]_vars => ConfirmOK'
<1>. SUFFICES ASSUME Inv, [Next]_vars PROVE ConfirmOK'
  OBVIOUS
<1>0. /\ TypeOK /\ NotStarted /\ QueueOK /\ WorkerOK /\ SnapshotOK /\ PreflightOK /\ ConfirmOK
      /\ req \in [Requests -> RequestRecords] /\ tasks \in [Requests -> Statuses \cup {None}]
      /\ \A q \in Requests : req[q].pf \in Requests \cup {None}
  BY DEF Inv, TypeOK, RequestRecords
<1>. USE DEF ConfirmOK, Confirming
<1>1. ASSUME NEW q \in Requests, Arrives(q) PROVE ConfirmOK'
  <2>1. req' \in [Requests -> RequestRecords]
    BY RequestsType
  <2>2. ASSUME NEW p \in Requests, req'[p].pc \in {"replan", "retire", "audit"}, p # q
        PROVE  Confirming(p)'
    BY <1>0, <1>1, <2>2 DEF Arrives, NewTask
  <2>3. ASSUME req'[q].pc \in {"replan", "retire", "audit"}
        PROVE  Confirming(q)'
    <3>1. /\ tasks' = tasks
          /\ IF req'[q].pf = None THEN req'[q].dir \in Dirs /\ req'[q].mode \in Modes
             ELSE Kept(req'[q].pf)
      BY <1>1, <2>3 DEF Arrives
    <3>2. req'[q].pf \in Requests \cup {None}
      BY <2>1 DEF RequestRecords
    <3>. QED  BY <1>0, <1>1, <3>1, <3>2 DEF Kept, PreflightOK, Arrives
  <2>. QED  BY <2>2, <2>3
<1>2. ASSUME NEW q \in Requests, Serves(q) PROVE ConfirmOK'
  <2>1. ASSUME NEW p \in Requests, req[p].pc = "answered", tasks[p] = None
        PROVE  req'[p].pc = "answered" /\ tasks'[p] = None
    BY <1>0, <1>2, <2>1 DEF Serves, NewTask, Over, NoRequest, Silent
  <2>2. ASSUME NEW p \in Requests, req'[p].pc \in {"replan", "retire", "audit"}
        PROVE  /\ req[p].pc \in {"replan", "retire", "audit"}
               /\ req'[p].pf = req[p].pf /\ req'[p].dir = req[p].dir /\ req'[p].mode = req[p].mode
    BY <1>0, <1>2, <2>2 DEF Serves, Over, NoRequest
  <2>. QED  BY <1>0, <2>1, <2>2
<1>3. CASE Quiet
  BY <1>0, <1>3 DEF Quiet, Control
<1>4. CASE Take
  BY <1>0, <1>4, TakeEffect, NoneIsNoValue DEF Statuses
<1>5. CASE TaskSave
  BY <1>0, <1>5, SaveEffect, NoneIsNoValue DEF Statuses, Over, NoRequest
<1>. QED  BY <1>1, <1>2, <1>3, <1>4, <1>5, Kinds

LEMMA ExcludeStep == Inv /\ [Next]_vars => ExcludeOK'
<1>. SUFFICES ASSUME Inv, [Next]_vars PROVE ExcludeOK'
  OBVIOUS
<1>0. /\ TypeOK /\ QueueOK /\ WorkerOK /\ SnapshotOK /\ ExcludeOK
      /\ req \in [Requests -> RequestRecords]
  BY DEF Inv, TypeOK
<1>a. ASSUME NEW p \in Requests, Excluding(p), req'[p] = req[p],
             \A v \in Variants : cache[v] # None => cache'[v] # None
      PROVE  Excluding(p)'
  BY <1>a DEF Excluding
<1>1. ASSUME NEW q \in Requests, Arrives(q) PROVE ExcludeOK'
  BY <1>0, <1>1, <1>a DEF Arrives, ExcludeOK
<1>2. ASSUME NEW q \in Requests, Serves(q) PROVE ExcludeOK'
  BY <1>0, <1>2, <1>a DEF Serves, ExcludeOK, Over, NoRequest
<1>3. CASE Quiet
  BY <1>0, <1>3, <1>a DEF Quiet, Control, ExcludeOK
<1>4. CASE Take
  BY <1>0, <1>4, <1>a, TakeEffect DEF ExcludeOK
<1>5. CASE TaskSave
  BY <1>0, <1>5, <1>a, SaveEffect DEF ExcludeOK, Over, NoRequest
<1>. QED  BY <1>1, <1>2, <1>3, <1>4, <1>5, Kinds

LEMMA InvStep == Inv /\ [Next]_vars => Inv'
BY TypeStep, NotStartedStep, HoldsLockStep, NothingRunsStep, PublishStep, QueueStep, WorkerStep,
   SnapshotStep, PreflightStep, ConfirmStep, ExcludeStep
   DEF Inv

\* The strengthened invariant holds.
LEMMA Invariance == Spec => []Inv
BY InitInv, InvStep, PTL DEF Spec

------------------------------------------------------------------------------
\* Every variable keeps its type, whatever the requests, the faults and the other
\* programs do: web/tasks.py reads fields of tasks and preflights without checks.
THEOREM TypeCorrect == Spec => []TypeOK
<1>1. Inv => TypeOK
  BY DEF Inv
<1>. QED  BY <1>1, Invariance, PTL

\* A run is published by one task at a time: submit_publish looks for a live publish
\* under the lock it queues its own under.
THEOREM PublishedOnce == Spec => []OnePublish
<1>1. Inv => OnePublish
  BY DEF Inv
<1>. QED  BY <1>1, Invariance, PTL

\* While a task of any variant is queued or running, no request writes the store or
\* the glossary: a request that will write has found no task under the maintenance
\* lock, and no task is queued before the lock is free again.
THEOREM Undisturbed == Spec => RunsUndisturbed
<1>1. ASSUME Inv, [Next]_vars,
             \E q \in Requests : Serve(q), <<row', glossary'>> # <<row, glossary>>
      PROVE  ~Busy
  <2>0. TypeOK /\ PreflightOK /\ ConfirmOK /\ ExcludeOK /\ NothingRuns
    BY <1>1 DEF Inv
  <2>1. PICK q \in Requests : Serves(q)
    BY <1>1, <2>0, ServeServes
  <2>2. req[q].pc \in Silent
    BY <1>1, <2>1 DEF Serves, Silent
  <2>. QED  BY <2>0, <2>2 DEF NothingRuns
<1>2. Inv /\ [Next]_vars =>
          [(\E q \in Requests : Serve(q)) /\ <<row', glossary'>> # <<row, glossary>> => ~Busy]_vars
  BY <1>1
<1>. QED  BY <1>2, Invariance, PTL DEF Spec, RunsUndisturbed

\* A confirmation takes away only a row an operator was shown, unchanged since, and
\* stale for the plan of that moment; nothing else takes one away.
THEOREM RetiredOnlyAsShown == Spec => RetiredAsShown
<1> DEFINE Shown(q) == req[q].pc = "retire" /\ row.tok \in req[q].shown /\ row.src # req[q].plan.src
<1>0. \A s, t \in Nat : [src |-> s, tok |-> t] # None
  BY NoneIsNoRecord DEF Rows
<1>1. ASSUME Inv, [Next]_vars, row # None, row' = None
      PROVE  \E q \in Requests : Shown(q)
  <2>0. /\ TypeOK /\ WorkerOK /\ clock \in Nat /\ source \in Nat /\ worker \in WorkerRecords
        /\ row \in Rows
    BY <1>1 DEF Inv, TypeOK, FilesOK
  <2>1. ASSUME NEW q \in Requests, ConfirmRetire(q) PROVE \E p \in Requests : Shown(p)
    BY <1>1, <2>1 DEF ConfirmRetire, RowsAsShown, StaleRows
  <2>2. ASSUME NEW q \in Requests, Serve(q), ~ConfirmRetire(q) PROVE FALSE
    BY <1>0, <1>1, <2>0, <2>2
       DEF Serve, PreflightPlan, PreflightKeep, PublishQueue, ConfirmPlan, ConfirmEnd, ReviewCommit,
           Exclude
  <2>3. ASSUME NEW q \in Requests, Ask(q) PROVE FALSE
    BY <1>1, <2>0, <2>3, AskArrives DEF Arrives
  <2>4. CASE TaskWork
    <3>1. worker.plan \in Plans
      BY <2>0, <2>4 DEF TaskWork, WorkerOK, WorkerRecords
    <3>2. row' = row \/ row' = [src |-> worker.plan.src, tok |-> clock + 1]
      BY <2>4 DEF TaskWork, Promotes
    <3>. QED  BY <1>0, <1>1, <2>0, <3>1, <3>2 DEF Plans
  <2>5. CASE OtherProgram
    BY <1>0, <1>1, <2>0, <2>5 DEF OtherProgram
  <2>6. CASE \/ \E q \in Requests : AuditLost(q)
             \/ \E v \in Variants : ReviewLook(v)
             \/ Take \/ TaskPlan \/ PublishWork \/ TaskSave \/ TaskLost \/ UNCHANGED vars
    BY <1>1, <2>6 DEF AuditLost, ReviewLook, Take, TaskPlan, PublishWork, TaskSave, TaskLost, vars
  <2>. QED  BY <1>1, <2>1, <2>2, <2>3, <2>4, <2>5, <2>6 DEF Next, Work
<1>2. Inv /\ [Next]_vars => [row # None /\ row' = None => \E q \in Requests : Shown(q)]_vars
  BY <1>1
<1>. QED  BY <1>2, Invariance, PTL DEF Spec, RetiredAsShown

=============================================================================
