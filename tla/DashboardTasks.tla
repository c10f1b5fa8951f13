--------------------------- MODULE DashboardTasks ---------------------------
(****************************************************************************)
(* What one dashboard process does at a time (web/tasks.py,                 *)
(* web/server_impl.py, web/server.py): HTTP requests in threads of their    *)
(* own, one worker that executes queued tasks of every variant, the         *)
(* maintenance lock between them, and other programs that write the         *)
(* translation memory, the sources and the glossary.                        *)
(*                                                                          *)
(* The translation memory is its one formal row that may be stale; a source *)
(* is the number of its version; the glossary is the set of its exclusions. *)
(* A request identifies the task or the preflight it creates. Restarts of   *)
(* the dashboard, and a second one, are in RunOwnership.                    *)
(****************************************************************************)
EXTENDS Naturals, Sequences, FiniteSets

CONSTANTS
    Dirs,           \* run directories: a variant and the number of a run identifier
    Modes,          \* the modes asked for, of "preview" and "release"
    MaxRequests,    \* bound on the requests that create or change something
    Scopes,         \* exclusions of a glossary term
    Dotenvs,        \* the values dotenv files give to a credential
    PlanDotenvs,    \* those of them that preflights and confirmations load
    None,
    MaxPreflights,  \* preflights that are kept: 20 in the code
    MaxOthers,      \* bound on the writes of other programs
    MaxFaults       \* bound on the files that cannot be written

\* Requests in the order of their arrival.
Requests == 1..MaxRequests

\* Each has a task service and a review service.
Variants == {d[1] : d \in Dirs}

Statuses == {"queued", "running", "completed", "failed", "waiting"}

ASSUME NoneIsNoValue ==
    None \notin Dirs /\ None \notin Dotenvs /\ None \notin Requests /\ None \notin Statuses

ASSUME ModesAreKnown == Modes \subseteq {"preview", "release"} /\ PlanDotenvs \subseteq Dotenvs

ASSUME BoundsAreNat == 
    /\ MaxPreflights \in Nat \ {0} /\ MaxRequests \in Nat
    /\ MaxOthers \in Nat /\ MaxFaults \in Nat

VARIABLES
    source,      \* the version of the text
    row,         \* its formal row: the version it translates and a token, or None
    clock,       \* the tokens given so far
    glossary,    \* the exclusions in the file
    cache,       \* the exclusions each review service read once, or None
    env,         \* the credential in the process environment, None at start
    lock,        \* the request that holds the maintenance lock, or None
    req,         \* the requests
    preflights,  \* those whose preflight is planned or kept, oldest first
    queue,       \* tasks in the executor's queue
    tasks,       \* the status of each task in memory, None when there is none
    disk,        \* runs/<run>/task-request.json of each variant
    bundles,     \* the runs whose output/release/<run> has a manifest that verifies
    worker,      \* the thread of the executor
    others, faults

vars == <<source, row, clock, glossary, cache, env, lock, req, preflights, queue, tasks,
          disk, worker, bundles, others, faults>>

NoRequest == [pc |-> "new", dir |-> None, pf |-> None, mode |-> None, dotenv |-> None,
              saved |-> None, plan |-> None, shown |-> {}]

Idle == [pc |-> "idle", task |-> None, plan |-> None, saved |-> None, outcome |-> None]

\* The text has changed since its translation became formal.
Init ==
    /\ source = 1
    /\ row = [src |-> 0, tok |-> 0]
    /\ clock = 0
    /\ glossary = {} /\ cache = [v \in Variants |-> None]
    /\ env = None /\ lock = None
    /\ req = [q \in Requests |-> NoRequest]
    /\ preflights = <<>> /\ queue = <<>>
    /\ tasks = [q \in Requests |-> None]
    /\ disk = [d \in Dirs |-> None] /\ bundles = {}
    /\ worker = Idle
    /\ others = 0 /\ faults = 0

Rows == [src : Nat, tok : Nat]

Plans == [src : Nat, hit : Nat \cup {None}, excl : SUBSET Scopes]

Credentials == Dotenvs \cup {None}

PCs == {"new", "preflight", "preview", "replan", "retire", "audit", "commit", "exclude",
        "publishing", "publish", "hangs", "answered", "refused"}

WorkerPCs == {"idle", "plan", "work", "publish", "save"}

\* A preflight or a review is of a variant, and of no run.
RequestRecords ==
    [pc : PCs, dir : Dirs \cup (Variants \X {None}) \cup {None}, pf : Requests \cup {None},
     mode : Modes \cup {None}, dotenv : Credentials, saved : Credentials,
     plan : Plans \cup {None}, shown : SUBSET (Nat \cup Scopes)]

Snapshots == [status : Statuses, mode : Modes, dotenv : Credentials, conf : SUBSET Nat,
              ckpt : BOOLEAN]

Outcomes == [status : Statuses, ckpt : BOOLEAN]

WorkerRecords == [pc : WorkerPCs, task : Requests \cup {None}, plan : Plans \cup {None},
                  saved : Credentials, outcome : Outcomes \cup {None}]

ASSUME NoneIsNoRecord ==
    /\ None \notin Rows /\ None \notin Plans /\ None \notin Snapshots /\ None \notin Outcomes
    /\ \A excluded \in SUBSET Scopes : None # excluded

FilesOK ==
    /\ source \in Nat /\ clock \in Nat
    /\ row \in Rows \cup {None}
    /\ glossary \in SUBSET Scopes
    /\ cache \in [Variants -> (SUBSET Scopes) \cup {None}]
    /\ disk \in [Dirs -> Snapshots \cup {None}] /\ bundles \in SUBSET Dirs

TypeOK ==
    /\ FilesOK
    /\ env \in Credentials /\ lock \in Requests \cup {None}
    /\ req \in [Requests -> RequestRecords]
    /\ preflights \in Seq(Requests) /\ queue \in Seq(Requests)
    /\ tasks \in [Requests -> Statuses \cup {None}]
    /\ worker \in WorkerRecords
    /\ others \in Nat /\ faults \in Nat

Live(s) == s \in {"queued", "running"}

\* _tasks_busy: a task of any variant.
Busy == \E q \in Requests : Live(tasks[q])

\* temporary_dotenv around a block: what it saves, and what it puts back.
EnvWith(f) == IF f = None THEN env ELSE f

EnvWithout(f, saved) == IF f = None THEN env ELSE saved

\* The plan of the present files and rows. Its fingerprint covers an answer that
\* fits the source, and not a stale row.
PlanNow == [src |-> source, hit |-> IF row # None /\ row.src = source THEN row.tok ELSE None,
            excl |-> glossary]

\* _stale_formal_preview: the tokens of formal rows of another source than the plan's.
StaleRows(plan) == IF row # None /\ row.src # plan.src THEN {row.tok} ELSE {}

\* TaskService._lock of a variant: a request that hangs keeps it.
ServiceFree(v) == \A q \in Requests : req[q].pc = "hangs" => req[q].dir[1] # v

\* A request, a preflight or a task nothing refers to any more.
Over == [NoRequest EXCEPT !.pc = "answered"]

Refuse(q) == req' = [req EXCEPT ![q] = [NoRequest EXCEPT !.pc = "refused"]]

Answer(q) == req' = [req EXCEPT ![q] = Over]

------------------------------------------------------------------------------
(* preflight, and the preview of stale_for_run.                              *)

PreflightStart(q, v, mode, f) ==
    /\ req[q].pc = "new"
    /\ req' = [req EXCEPT ![q] = [NoRequest EXCEPT !.pc = "preflight", !.dir = <<v, None>>, !.mode = mode,
                                                   !.dotenv = f, !.saved = env]]
    /\ env' = EnvWith(f)
    /\ UNCHANGED <<source, row, clock, glossary, cache, lock, preflights, queue, tasks,
                   disk, worker, bundles, others, faults>>

Created(p) == \E i \in 1..Len(preflights) : preflights[i] = p

Kept(p) == Created(p) /\ req[p].pc = "answered"

\* The preflights without p.
Without(p) ==
    LET at == CHOOSE i \in 1..Len(preflights) : preflights[i] = p
    IN  IF Created(p)
        THEN [i \in 1..(Len(preflights) - 1) |-> preflights[IF i < at THEN i ELSE i + 1]]
        ELSE preflights

PreflightPlan(q) ==
    /\ req[q].pc = "preflight"
    /\ req' = [req EXCEPT ![q].pc = "preview", ![q].plan = PlanNow]
    /\ preflights' = Append(preflights, q)
    /\ env' = EnvWithout(req[q].dotenv, req[q].saved)
    /\ UNCHANGED <<source, row, clock, glossary, cache, lock, queue, tasks, disk, worker,
                   bundles, others, faults>>

Oldest(P) ==
    preflights[CHOOSE i \in 1..Len(preflights) :
                   preflights[i] \in P /\ \A j \in 1..(i - 1) : preflights[j] \notin P]

\* The stale rows are read after the plan; then the oldest preflight is dropped, which
\* may be this one.
PreflightKeep(q) ==
    /\ req[q].pc = "preview" /\ ServiceFree(req[q].dir[1])
    /\ LET kept == {p \in Requests : Kept(p)} \cup {q}
           shown == [req EXCEPT ![q].pc = "answered", ![q].shown = StaleRows(req[q].plan)]
       IN  IF Cardinality(kept) > MaxPreflights
           THEN /\ preflights' = Without(Oldest(kept))
                /\ req' = [shown EXCEPT ![Oldest(kept)] = Over]
           ELSE req' = shown /\ UNCHANGED preflights
    /\ UNCHANGED <<source, row, clock, glossary, cache, env, lock, queue, tasks, disk,
                   worker, bundles, others, faults>>

------------------------------------------------------------------------------
(* submit, submit_rebuild and submit_publish.                                *)

\* owner.lock of a run directory that this process has claimed.
Claimed(d) ==
    \E q \in Requests :
        /\ req[q].dir = d /\ req[q].pc # "publish"
        /\ worker.task = q \/ \E i \in 1..Len(queue) : queue[i] = q

\* _validate_resume, for a directory no live task has: a preview that failed or
\* waits for a confirmation, with a checkpoint and the same parameters.
Resumable(d, mode, f) ==
    /\ disk[d] # None /\ mode = "preview" /\ disk[d].mode = "preview"
    /\ disk[d].status \in {"failed", "waiting"} /\ disk[d].ckpt /\ disk[d].dotenv = f

\* _validate_resume of a run whose last snapshot was not written: the lock of the
\* service is taken twice, before the parameters are compared, and the request never
\* returns (see RunOwnership).
Hangs(d, mode) ==
    ~Claimed(d) /\ disk[d] # None /\ disk[d].status = "queued" /\ mode = "preview"

\* Run identifiers are used in the order of their numbers.
New(d) == disk[d] = None /\ \A n \in 1..(d[2] - 1) : disk[<<d[1], n>>] # None

Admits(d, mode, f) ==
    /\ ~Claimed(d)
    /\ New(d) \/ Resumable(d, mode, f)

\* The task is in the table, its snapshot on disk, and the executor has it.
Queued(q, d, mode, f) ==
    /\ tasks' = [tasks EXCEPT ![q] = "queued"]
    /\ disk' = [disk EXCEPT ![d] = [status |-> "queued", mode |-> mode, dotenv |-> f, conf |-> {},
                                    ckpt |-> disk[d] # None /\ disk[d].ckpt]]
    /\ queue' = Append(queue, q)

\* One slip: a request does not wait for the maintenance lock.
NoLock == TRUE

LockFree == lock = None

\* A run, with a preflight of the same parameters or without.
Submit(q, d, mode, f, p) ==
    /\ req[q].pc = "new" /\ LockFree
    /\ p # None => Kept(p) /\ req[p].dir[1] = d[1] /\ req[p].mode = mode /\ req[p].dotenv = f
    /\ LET new == [NoRequest EXCEPT !.pc = "answered", !.dir = d, !.mode = mode, !.dotenv = f,
                                    !.pf = p, !.plan = IF p = None THEN None ELSE req[p].plan]
       IN  \/ /\ Admits(d, mode, f) /\ req' = [req EXCEPT ![q] = new]
              /\ Queued(q, d, mode, f) /\ UNCHANGED lock
           \/ /\ Hangs(d, mode) /\ req' = [req EXCEPT ![q] = [new EXCEPT !.pc = "hangs"]]
              /\ lock' = q /\ UNCHANGED <<queue, tasks, disk>>
    /\ UNCHANGED <<source, row, clock, glossary, cache, env, preflights, worker, bundles,
                   others, faults>>

\* A new run with the parameters of its parent.
SubmitRebuild(q, d, parent, mode) ==
    /\ req[q].pc = "new" /\ LockFree
    /\ parent # d /\ parent[1] = d[1] /\ disk[parent] # None /\ New(d)
    /\ req' = [req EXCEPT ![q] = [NoRequest EXCEPT !.pc = "answered", !.dir = d, !.mode = mode,
                                                   !.dotenv = disk[parent].dotenv]]
    /\ Queued(q, d, mode, disk[parent].dotenv)
    /\ UNCHANGED <<source, row, clock, glossary, cache, env, lock, preflights, worker,
                   bundles, others, faults>>

Publishing(d) ==
    \E q \in Requests : Live(tasks[q]) /\ req[q].pc = "publish" /\ req[q].dir = d

\* The bundle of the run is verified, whatever its snapshot says, and no other publish
\* is live.
PublishStart(q, d) ==
    /\ req[q].pc = "new" /\ LockFree
    /\ d \in bundles /\ ~Publishing(d)
    /\ LET f == IF disk[d] = None THEN None ELSE disk[d].dotenv
       IN  req' = [req EXCEPT ![q] = [NoRequest EXCEPT !.pc = "publishing", !.dir = d,
                                                       !.dotenv = f]]
    /\ lock' = q
    /\ UNCHANGED <<source, row, clock, glossary, cache, env, preflights, queue, tasks,
                   disk, worker, bundles, others, faults>>

PublishQueue(q) ==
    /\ req[q].pc = "publishing"
    /\ req' = [req EXCEPT ![q].pc = "publish"]
    /\ tasks' = [tasks EXCEPT ![q] = "queued"]
    /\ queue' = Append(queue, q)
    /\ lock' = None
    /\ UNCHANGED <<source, row, clock, glossary, cache, env, preflights, disk, worker,
                   bundles, others, faults>>
------------------------------------------------------------------------------
(* confirm_stale: for a kept preflight p, or for a waiting run in d.           *)

\* One slip: the rows that count are those of the moment.
RowsOfTheMoment(q) == StaleRows(req[q].plan) # {}

\* What the transaction of the retirement checks again.
RowsAsShown(q) == StaleRows(req[q].plan) = req[q].shown

Confirm(q, new) ==
    /\ req[q].pc = "new" /\ LockFree
    /\ IF Busy
       THEN Refuse(q) /\ UNCHANGED <<env, lock>>
       ELSE /\ req' = [req EXCEPT ![q] = [new EXCEPT !.pc = "replan", !.saved = env]]
            /\ env' = EnvWith(new.dotenv)
            /\ lock' = q
    /\ UNCHANGED <<source, row, clock, glossary, cache, preflights, queue, tasks, disk,
                   worker, bundles, others, faults>>

ConfirmPreflight(q, p) ==
    /\ Kept(p)
    /\ Confirm(q, [req[p] EXCEPT !.pf = p])

ConfirmRun(q, d) ==
    /\ disk[d] # None /\ disk[d].status = "waiting"
    /\ Confirm(q, [NoRequest EXCEPT !.dir = d, !.mode = disk[d].mode,
                                    !.dotenv = disk[d].dotenv, !.shown = disk[d].conf])

\* The plan is made anew. That of a preflight must be the one it showed, and there
\* must be stale rows where it showed some, and none where it did not.
ConfirmPlan(q) ==
    /\ req[q].pc = "replan"
    /\ env' = EnvWithout(req[q].dotenv, req[q].saved)
    /\ IF (req[q].pf # None => req[q].plan = PlanNow)
          /\ ((StaleRows(PlanNow) = {}) <=> (req[q].shown = {}))
       THEN req' = [req EXCEPT ![q].pc = "retire", ![q].plan = PlanNow] /\ UNCHANGED lock
       ELSE Refuse(q) /\ lock' = None
    /\ UNCHANGED <<source, row, clock, glossary, cache, preflights, queue, tasks, disk,
                   worker, bundles, others, faults>>

\* A backup, and the transaction that retires the rows if they are those shown.
ConfirmRetire(q) ==
    /\ req[q].pc = "retire"
    /\ IF req[q].shown = {} \/ RowsAsShown(q)
       THEN /\ row' = IF req[q].shown = {} THEN row ELSE None
            /\ req' = [req EXCEPT ![q].pc = "audit"]
            /\ UNCHANGED lock
       ELSE Refuse(q) /\ lock' = None /\ UNCHANGED row
    /\ UNCHANGED <<source, clock, glossary, cache, env, preflights, queue, tasks, disk,
                   worker, bundles, others, faults>>

\* One slip: a lock that its own thread cannot take again.
LocksAgain(q) == lock = None

\* The maintenance lock is an RLock.
Reenters(q) == lock = q

\* The audit file is written, and the preflight dropped or the run submitted, which
\* takes the lock a second time. That run may be one that cannot be resumed.
ConfirmEnd(q) ==
    /\ req[q].pc = "audit"
    /\ lock' = None
    /\ \/ /\ req[q].pf # None
          /\ req' = [req EXCEPT ![q] = Over, ![req[q].pf] = Over]
          /\ preflights' = Without(req[q].pf)
          /\ UNCHANGED <<queue, tasks, disk>>
       \/ /\ req[q].pf = None /\ Reenters(q)
          /\ IF Admits(req[q].dir, req[q].mode, req[q].dotenv)
             THEN /\ req' = [req EXCEPT ![q].pc = "answered", ![q].plan = None]
                  /\ Queued(q, req[q].dir, req[q].mode, req[q].dotenv)
             ELSE Refuse(q) /\ UNCHANGED <<queue, tasks, disk>>
          /\ UNCHANGED preflights
    /\ UNCHANGED <<source, row, clock, glossary, cache, env, worker, bundles, others,
                   faults>>

\* The audit file cannot be written: the rows are retired, and nothing else is done.
AuditLost(q) ==
    /\ req[q].pc = "audit" /\ faults < MaxFaults
    /\ faults' = faults + 1
    /\ lock' = None
    /\ Refuse(q)
    /\ UNCHANGED <<source, row, clock, glossary, cache, env, preflights, queue, tasks,
                   disk, worker, bundles, others>>

------------------------------------------------------------------------------
(* The writes of a review: a commit to the store, an exclusion to the glossary. *)

\* A view of the glossary clusters makes the service read the file, once.
ReviewLook(v) ==
    /\ cache[v] = None
    /\ cache' = [cache EXCEPT ![v] = glossary]
    /\ UNCHANGED <<source, row, clock, glossary, env, lock, req, preflights, queue, tasks,
                   disk, worker, bundles, others, faults>>

ReviewStart(q, v, scope) ==
    /\ req[q].pc = "new" /\ LockFree
    /\ IF Busy
       THEN Refuse(q) /\ UNCHANGED <<lock, cache>>
       ELSE IF scope = None
       THEN /\ req' = [req EXCEPT ![q] = [NoRequest EXCEPT !.pc = "commit", !.dir = <<v, None>>]]
            /\ lock' = q /\ UNCHANGED cache
       ELSE LET terms == IF cache[v] = None THEN glossary ELSE cache[v]
            IN  /\ cache' = [cache EXCEPT ![v] = terms]
                /\ IF scope \in terms
                   THEN Answer(q) /\ UNCHANGED lock
                   ELSE /\ req' = [req EXCEPT ![q] = [NoRequest EXCEPT !.pc = "exclude",
                                       !.dir = <<v, None>>, !.shown = {scope}]]
                        /\ lock' = q
    /\ UNCHANGED <<source, row, clock, glossary, env, preflights, queue, tasks, disk,
                   worker, bundles, others, faults>>

\* apply_human_review: the row becomes formal, of the source the review showed.
ReviewCommit(q) ==
    /\ req[q].pc = "commit"
    /\ clock' = clock + 1
    /\ \E s \in 0..source : row' = [src |-> s, tok |-> clock']
    /\ Answer(q)
    /\ lock' = None
    /\ UNCHANGED <<source, glossary, cache, env, preflights, queue, tasks, disk, worker,
                   bundles, others, faults>>

\* exclude_glossary_scope: the file becomes the terms of the service and the new
\* exclusion. The decision log may refuse the line that says so.
Exclude(q) ==
    /\ req[q].pc = "exclude"
    /\ LET v == req[q].dir[1]
       IN  /\ glossary' = cache[v] \cup req[q].shown
           /\ cache' = [cache EXCEPT ![v] = glossary']
    /\ Answer(q)
    /\ lock' = None
    /\ UNCHANGED <<source, row, clock, env, preflights, queue, tasks, disk, worker,
                   bundles, others, faults>>

------------------------------------------------------------------------------
(* The worker.                                                               *)

IsPublish(q) == req[q].pc = "publish"

Take ==
    /\ worker.pc = "idle" /\ queue # <<>>
    /\ LET q == Head(queue)
       IN  /\ ServiceFree(req[q].dir[1])
           /\ worker' = [Idle EXCEPT !.pc = IF IsPublish(q) THEN "publish" ELSE "plan",
                                     !.task = q, !.saved = env]
           /\ tasks' = [tasks EXCEPT ![q] = "running"]
           /\ env' = EnvWith(req[q].dotenv)
    /\ queue' = Tail(queue)
    /\ UNCHANGED <<source, row, clock, glossary, cache, lock, req, preflights, disk,
                   bundles, others, faults>>

EndsAs(outcome, ckpt) ==
    /\ worker' = [worker EXCEPT !.pc = "save", !.outcome = [status |-> outcome, ckpt |-> ckpt]]
    /\ env' = EnvWithout(req[worker.task].dotenv, worker.saved)

\* The plan the preflight showed must be the one made now.
PlanStands(q) == req[q].pf # None => req[q].plan = PlanNow

TaskPlan ==
    /\ worker.pc = "plan"
    /\ IF PlanStands(worker.task)
       THEN worker' = [worker EXCEPT !.pc = "work", !.plan = PlanNow] /\ UNCHANGED env
       ELSE EndsAs("failed", disk[req[worker.task].dir].ckpt)
    /\ UNCHANGED <<source, row, clock, glossary, cache, lock, req, preflights, queue,
                   tasks, disk, bundles, others, faults>>

\* What a run ships becomes formal, unless a formal row answered.
Promotes ==
    IF worker.plan.hit = None
    THEN clock' = clock + 1 /\ row' = [src |-> worker.plan.src, tok |-> clock']
    ELSE UNCHANGED <<row, clock>>

\* The execution: what it translates is refused by a formal row of another source.
\* A run may fail before or after it has a checkpoint; a preview, and a release the
\* quality gate refuses, end without a bundle; any other release has one, promotes
\* what it ships, and may fail before that or after.
TaskWork ==
    /\ worker.pc = "work"
    /\ LET refused == row # None /\ row.src # worker.plan.src /\ worker.plan.hit = None
           dir == req[worker.task].dir
       IN  \/ /\ refused /\ EndsAs("waiting", TRUE) /\ UNCHANGED <<row, clock, bundles>>
          \/ /\ \E ckpt \in {disk[dir].ckpt, TRUE} : EndsAs("failed", ckpt)
             /\ UNCHANGED <<row, clock, bundles>>
          \/ /\ ~refused /\ EndsAs("completed", TRUE)
             /\ UNCHANGED <<row, clock, bundles>>
          \/ /\ ~refused /\ disk[dir].mode = "release"
             /\ bundles' = bundles \cup {dir}
             /\ \/ /\ EndsAs("failed", TRUE) /\ UNCHANGED <<row, clock>>
                \/ /\ \E status \in {"failed", "completed"} : EndsAs(status, TRUE)
                   /\ Promotes
    /\ UNCHANGED <<source, glossary, cache, lock, req, preflights, queue, tasks, disk, others,
                   faults>>

PublishWork ==
    /\ worker.pc = "publish"
    /\ \E outcome \in {"completed", "failed"} : EndsAs(outcome, FALSE)
    /\ UNCHANGED <<source, row, clock, glossary, cache, lock, req, preflights, queue,
                   tasks, disk, bundles, others, faults>>

\* One slip: the final snapshot stays on disk.
MemoryKeeps(q, status) == tasks' = tasks

MemoryShows(q, status) == tasks' = [tasks EXCEPT ![q] = status]

\* The final snapshot: on disk, then in memory. A run that waits for a confirmation
\* has planned again and shows its stale rows.
TaskSave ==
    /\ worker.pc = "save" /\ ServiceFree(req[worker.task].dir[1])
    /\ LET q == worker.task
           d == req[q].dir
           conf == IF worker.outcome.status = "waiting" THEN StaleRows(PlanNow) ELSE {}
       IN  /\ MemoryShows(q, worker.outcome.status)
           /\ disk' = IF IsPublish(q) THEN disk
                      ELSE [disk EXCEPT ![d] = [@ EXCEPT !.status = worker.outcome.status,
                                                         !.ckpt = worker.outcome.ckpt,
                                                         !.conf = conf]]
           /\ req' = [req EXCEPT ![q] = Over]
    /\ worker' = Idle
    /\ UNCHANGED <<source, row, clock, glossary, cache, env, lock, preflights, queue,
                   bundles, others, faults>>

\* The snapshot cannot be written: the run is released, its status stays.
TaskLost ==
    /\ worker.pc = "save" /\ ServiceFree(req[worker.task].dir[1]) /\ faults < MaxFaults
    /\ faults' = faults + 1
    /\ worker' = Idle
    /\ UNCHANGED <<source, row, clock, glossary, cache, env, lock, req, preflights, queue,
                   tasks, disk, bundles, others>>

------------------------------------------------------------------------------
(* Other programs: a new game version, the command line, an editor.          *)

OtherProgram ==
    /\ others < MaxOthers
    /\ others' = others + 1
    /\ \/ source' = source + 1 /\ UNCHANGED <<row, clock, glossary>>
       \/ /\ clock' = clock + 1
          /\ \E s \in 0..source : row' = [src |-> s, tok |-> clock']
          /\ UNCHANGED <<source, glossary>>
       \/ /\ \E e \in Scopes : glossary' = IF e \in glossary THEN glossary \ {e}
                                           ELSE glossary \cup {e}
          /\ UNCHANGED <<source, row, clock>>
    /\ UNCHANGED <<cache, env, lock, req, preflights, queue, tasks, disk, worker, bundles,
                   faults>>

Ask(q) ==
    /\ \A p \in 1..(q - 1) : req[p].pc # "new"
    /\ \/ \E v \in Variants, mode \in Modes, f \in PlanDotenvs \cup {None} :
              PreflightStart(q, v, mode, f)
       \/ \E d \in Dirs, mode \in Modes, f \in Dotenvs \cup {None}, p \in Requests \cup {None} :
              Submit(q, d, mode, f, p)
       \/ \E d, parent \in Dirs, mode \in Modes : SubmitRebuild(q, d, parent, mode)
       \/ \E d \in Dirs : PublishStart(q, d)
       \/ \E p \in Requests : ConfirmPreflight(q, p)
       \/ \E d \in Dirs : ConfirmRun(q, d)
       \/ \E v \in Variants, scope \in Scopes \cup {None} : ReviewStart(q, v, scope)

Serve(q) ==
    \/ PreflightPlan(q) \/ PreflightKeep(q) \/ PublishQueue(q)
    \/ ConfirmPlan(q) \/ ConfirmRetire(q) \/ ConfirmEnd(q)
    \/ ReviewCommit(q) \/ Exclude(q)

Work == Take \/ TaskPlan \/ TaskWork \/ PublishWork \/ TaskSave

Next ==
    \/ \E q \in Requests : Ask(q) \/ Serve(q) \/ AuditLost(q)
    \/ \E v \in Variants : ReviewLook(v)
    \/ Work \/ TaskLost
    \/ OtherProgram

Spec == Init /\ [][Next]_vars

\* The worker goes on, and so does some thread that can; nobody need send a request.
FairSpec == Spec /\ WF_vars(Work) /\ WF_vars(\E q \in Requests : Serve(q))

------------------------------------------------------------------------------
\* While a task of any variant is queued or running, no request changes the store
\* or the glossary: a run reads one state of what this process writes.
RunsUndisturbed ==
    [][(\E q \in Requests : Serve(q)) /\ <<row', glossary'>> # <<row, glossary>>
          => ~Busy]_vars

\* A confirmation takes away only a row an operator was shown, unchanged since, and
\* stale for the plan of that moment.
RetiredAsShown ==
    [][row # None /\ row' = None => \E q \in Requests :
          req[q].pc = "retire" /\ row.tok \in req[q].shown /\ row.src # req[q].plan.src]_vars

\* A run is published by one task at a time.
OnePublish ==
    \A p, q \in Requests :
        /\ Live(tasks[p]) /\ req[p].pc = "publish"
        /\ Live(tasks[q]) /\ req[q].pc = "publish" /\ req[p].dir = req[q].dir
        => p = q

\* A task that names a dotenv file runs with the credential of that file.
TaskEnvironment ==
    worker.pc \in {"plan", "work", "publish"} /\ req[worker.task].dotenv # None
        => env = req[worker.task].dotenv

\* The credential of the process is what it was when nothing loads a file.
EnvironmentRestored ==
    worker.pc \in {"idle", "save"} /\ (\A q \in Requests : req[q].pc \notin {"preflight", "replan"})
        => env = None

\* The dashboard becomes idle again, if its snapshots can be written.
BusyEnds == Busy ~> (~Busy \/ faults > 0)

\* Whatever the faults: what the finally of a task is there for.
AlwaysIdleAgain == Busy ~> ~Busy

Waiting(q) == req[q].pc \notin {"new", "answered", "refused", "publish"}

\* Every request is answered, confirmations that submit their run included.
RequestsAnswered ==
    (\E q \in Requests : Waiting(q)) ~> ((\A q \in Requests : ~Waiting(q)) \/ faults > 0)

\* A run whose stale rows were retired is resumed, or its audit could not be written.
ConfirmedRunResumes ==
    [][\A q \in Requests : req[q].pc = "audit" /\ req[q].pf = None /\ req'[q].pc # "audit"
          /\ faults' = faults => tasks'[q] = "queued"]_vars

\* An exclusion is not undone by the exclusion of something else.
ExclusionsKept == [][\A q \in Requests : Exclude(q) => glossary \subseteq glossary']_vars
=============================================================================
