---------------------------- MODULE RunOwnership ----------------------------
(****************************************************************************)
(* Who runs a run: the task service of the dashboard (web/tasks.py) over    *)
(* one run directory, which several dashboard processes may share.          *)
(*                                                                          *)
(* A submission decides whether the run may be resumed, claims it with      *)
(* owner.lock, writes task-request.json and queues the task; the            *)
(* single-worker executor runs it, writes the final snapshot, shows it to   *)
(* the API and releases the claim. Every file operation is an action.       *)
(*                                                                          *)
(* The processes are those of one user on one host; a process that is gone  *)
(* is found dead by its pid, and a restarted one has another start time.    *)
(****************************************************************************)
EXTENDS Integers, Sequences, FiniteSets

CONSTANTS
    Procs,          \* dashboard processes
    Tasks,          \* task identifiers, each used once
    MaxCrashes,     \* bound on the processes killed and started again
    MaxWriteFails,  \* bound on the snapshot writes that fail
    None            \* no file, no task

ASSUME BoundsAreNat == MaxCrashes \in Nat /\ MaxWriteFails \in Nat

ASSUME NoneIsNoTask == None \notin Tasks

VARIABLES
    dir,      \* the run directory exists
    lock,     \* owner.lock: absent, or who created it and whether its payload is written
    snap,     \* task-request.json
    ckpt,     \* checkpoint.json exists
    life,     \* how often each process has been started
    mem,      \* TaskService._tasks: the status the API shows, or None
    call,     \* the submission each process is handling
    queue,    \* the tasks accepted by the executor of each process
    worker,   \* the thread of that executor
    crashes, fails

vars == <<dir, lock, snap, ckpt, life, mem, call, queue, worker, crashes, fails>>

files == <<dir, lock, snap, ckpt>>

Modes == {"preview", "release"}

Interrupted == {"queued", "running"}

Ended == {"completed", "failed", "waiting_confirmation"}

Resumable == {"failed", "waiting_confirmation"} \cup Interrupted

Locks == [proc : Procs, life : 0..MaxCrashes, written : BOOLEAN]

Snapshots == [task : Tasks, status : Interrupted \cup Ended, mode : Modes]

ASSUME NoneIsNoRecord ==
    None \notin Locks /\ None \notin Snapshots /\ None \notin Interrupted \cup Ended

\* "blocked": waiting for TaskService._lock while holding it.
CallPCs == {"idle", "read", "live", "checkpoint", "blocked", "claim", "inspect",
            "takeover", "create", "payload", "snapshot"}

WorkerPCs == {"idle", "running", "final", "show", "release"}

\* mode: what is asked for; prior: the mode of the snapshot that was read.
Calls == [pc : CallPCs, mode : Modes, prior : Modes]

TypeOK ==
    /\ dir \in BOOLEAN /\ ckpt \in BOOLEAN
    /\ lock \in Locks \cup {None}
    /\ snap \in Snapshots \cup {None}
    /\ life \in [Procs -> 0..MaxCrashes]
    /\ mem \in [Procs -> [Tasks -> Interrupted \cup Ended \cup {None}]]
    /\ call \in [Procs -> Calls]
    /\ queue \in [Procs -> Seq([task : Tasks, mode : Modes])]
    /\ worker \in [Procs -> [pc : WorkerPCs, status : Ended]]
    /\ crashes \in 0..MaxCrashes
    /\ fails \in 0..MaxWriteFails

NoCall == [pc |-> "idle", mode |-> "preview", prior |-> "preview"]

NoWork == [pc |-> "idle", status |-> "failed"]

Init ==
    /\ dir = FALSE /\ ckpt = FALSE
    /\ lock = None /\ snap = None
    /\ life = [p \in Procs |-> 0]
    /\ mem = [p \in Procs |-> [t \in Tasks |-> None]]
    /\ call = [p \in Procs |-> NoCall]
    /\ queue = [p \in Procs |-> <<>>]
    /\ worker = [p \in Procs |-> NoWork]
    /\ crashes = 0 /\ fails = 0

------------------------------------------------------------------------------
\* TaskService._lock, a threading.Lock: not reentrant, held from the resume
\* check to the end of the claim.
LockFree(p) == call[p].pc \in {"idle", "snapshot"}

\* The tasks no submission has used yet.
Fresh == {t \in Tasks : \A p \in Procs : mem[p][t] = None} \
         (IF snap = None THEN {} ELSE {snap.task})

\* One slip: an unreadable payload counts as dead.
OwnerIsAliveIfReadable(owner) == owner.written /\ life[owner.proc] = owner.life

\* _owner_is_alive: an unreadable payload counts as alive.
OwnerIsAlive(owner) == ~owner.written \/ life[owner.proc] = owner.life

Refuse(p) == call' = [call EXCEPT ![p] = NoCall]

Goto(p, pc) == call' = [call EXCEPT ![p].pc = pc]

\* _submit. A release run, and a rebuild, need a directory that does not exist.
Submit(p) ==
    /\ call[p].pc = "idle"
    /\ Fresh # {}
    /\ \E mode \in Modes :
           /\ dir => mode = "preview"
           /\ call' = [call EXCEPT ![p].pc = IF dir THEN "read" ELSE "claim",
                                   ![p].mode = mode]
    /\ UNCHANGED <<files, life, mem, queue, worker, crashes, fails>>

\* _validate_resume up to the liveness test.
ReadSnapshot(p) ==
    /\ call[p].pc = "read"
    /\ IF snap = None \/ snap.status \notin Resumable
       THEN Refuse(p)
       ELSE call' = [call EXCEPT
                ![p].pc = IF snap.status \in Interrupted THEN "live" ELSE "checkpoint",
                ![p].prior = snap.mode]
    /\ UNCHANGED <<files, life, mem, queue, worker, crashes, fails>>

\* _is_live. Without a lock file it takes TaskService._lock once more.
IsLive(p) ==
    /\ call[p].pc = "live"
    /\ IF lock = None THEN Goto(p, "blocked")
       ELSE IF OwnerIsAlive(lock) THEN Refuse(p) ELSE Goto(p, "checkpoint")
    /\ UNCHANGED <<files, life, mem, queue, worker, crashes, fails>>

\* The rest of _validate_resume: a checkpoint, and the parameters of the snapshot.
HasCheckpoint(p) ==
    /\ call[p].pc = "checkpoint"
    /\ IF ckpt /\ call[p].prior = call[p].mode THEN Goto(p, "claim") ELSE Refuse(p)
    /\ UNCHANGED <<files, life, mem, queue, worker, crashes, fails>>

OwnLock(p) == [proc |-> p, life |-> life[p], written |-> FALSE]

\* _claim_run: O_CREAT | O_EXCL.
Claim(p) ==
    /\ call[p].pc = "claim"
    /\ dir' = TRUE
    /\ IF lock = None
       THEN lock' = OwnLock(p) /\ Goto(p, "payload")
       ELSE lock' = lock /\ Goto(p, "inspect")
    /\ UNCHANGED <<snap, ckpt, life, mem, queue, worker, crashes, fails>>

\* A lock that is gone by now is unreadable as well.
Inspect(p) ==
    /\ call[p].pc = "inspect"
    /\ IF lock = None \/ OwnerIsAlive(lock) THEN Refuse(p) ELSE Goto(p, "takeover")
    /\ UNCHANGED <<files, life, mem, queue, worker, crashes, fails>>

\* The lock of a dead owner is removed by name, whatever it holds by now.
TakeOver(p) ==
    /\ call[p].pc = "takeover"
    /\ lock' = None
    /\ Goto(p, "create")
    /\ UNCHANGED <<dir, snap, ckpt, life, mem, queue, worker, crashes, fails>>

Create(p) ==
    /\ call[p].pc = "create"
    /\ IF lock = None
       THEN lock' = OwnLock(p) /\ Goto(p, "payload")
       ELSE lock' = lock /\ Refuse(p)
    /\ UNCHANGED <<dir, snap, ckpt, life, mem, queue, worker, crashes, fails>>

\* The payload goes to the file that was opened, which may have been unlinked.
WritePayload(p) ==
    /\ call[p].pc = "payload"
    /\ lock' = IF lock = OwnLock(p) THEN [lock EXCEPT !.written = TRUE] ELSE lock
    /\ Goto(p, "snapshot")
    /\ UNCHANGED <<dir, snap, ckpt, life, mem, queue, worker, crashes, fails>>

\* The task is entered, its snapshot written and the task queued; when the
\* write fails all of it is undone and the lock removed.
Enqueue(p) ==
    /\ call[p].pc = "snapshot"
    /\ Refuse(p)
    /\ \/ \E t \in Fresh :
              /\ snap' = [task |-> t, status |-> "queued", mode |-> call[p].mode]
              /\ mem' = [mem EXCEPT ![p][t] = "queued"]
              /\ queue' = [queue EXCEPT ![p] =
                              Append(@, [task |-> t, mode |-> call[p].mode])]
              /\ UNCHANGED <<lock, fails>>
       \/ /\ fails < MaxWriteFails
          /\ fails' = fails + 1
          /\ lock' = None
          /\ UNCHANGED <<snap, mem, queue>>
    /\ UNCHANGED <<dir, ckpt, life, worker, crashes>>

------------------------------------------------------------------------------
(* TaskService._run on the worker thread.                                    *)

Current(p) == Head(queue[p])

Start(p) ==
    /\ worker[p].pc = "idle" /\ queue[p] # <<>>
    /\ LockFree(p)
    /\ mem' = [mem EXCEPT ![p][Current(p).task] = "running"]
    /\ worker' = [worker EXCEPT ![p].pc = "running"]
    /\ UNCHANGED <<files, life, call, queue, crashes, fails>>

\* JsonCheckpoint of the run in progress.
Checkpoint(p) ==
    /\ worker[p].pc = "running" /\ ~ckpt
    /\ ckpt' = TRUE
    /\ UNCHANGED <<dir, lock, snap, life, mem, call, queue, worker, crashes, fails>>

\* One slip: the claim is released too early.
EndReleasing(p) ==
    /\ worker[p].pc = "running"
    /\ LockFree(p)
    /\ lock' = None
    /\ \E status \in Ended :
           worker' = [worker EXCEPT ![p] = [pc |-> "final", status |-> status]]
    /\ UNCHANGED <<dir, snap, ckpt, life, mem, call, queue, crashes, fails>>

\* The runner returns or raises, and the task table is read under the lock.
End(p) ==
    /\ worker[p].pc = "running"
    /\ LockFree(p)
    /\ \E status \in Ended :
           worker' = [worker EXCEPT ![p] = [pc |-> "final", status |-> status]]
    /\ UNCHANGED <<files, life, mem, call, queue, crashes, fails>>

\* One slip: the API is told first.
WriteFinalAfterShow(p) ==
    /\ worker[p].pc = "final"
    /\ mem' = [mem EXCEPT ![p][Current(p).task] = worker[p].status]
    /\ worker' = [worker EXCEPT ![p].pc = "show"]
    /\ UNCHANGED <<files, life, call, queue, crashes, fails>>

WriteFinal(p) ==
    /\ worker[p].pc = "final"
    /\ \/ /\ snap' = [task |-> Current(p).task, status |-> worker[p].status,
                      mode |-> Current(p).mode]
          /\ worker' = [worker EXCEPT ![p].pc = "show"]
          /\ UNCHANGED fails
       \/ /\ fails < MaxWriteFails
          /\ fails' = fails + 1
          /\ worker' = [worker EXCEPT ![p].pc = "release"]
          /\ UNCHANGED snap
    /\ UNCHANGED <<dir, lock, ckpt, life, mem, call, queue, crashes>>

\* One slip: the table keeps the status of the start.
ShowNothing(p) ==
    /\ worker[p].pc = "show"
    /\ worker' = [worker EXCEPT ![p].pc = "release"]
    /\ UNCHANGED <<files, life, mem, call, queue, crashes, fails>>

Show(p) ==
    /\ worker[p].pc = "show"
    /\ LockFree(p)
    /\ mem' = [mem EXCEPT ![p][Current(p).task] = worker[p].status]
    /\ worker' = [worker EXCEPT ![p].pc = "release"]
    /\ UNCHANGED <<files, life, call, queue, crashes, fails>>

Release(p) ==
    /\ worker[p].pc = "release"
    /\ lock' = None
    /\ worker' = [worker EXCEPT ![p] = NoWork]
    /\ queue' = [queue EXCEPT ![p] = Tail(@)]
    /\ UNCHANGED <<dir, snap, ckpt, life, mem, call, crashes, fails>>

------------------------------------------------------------------------------
\* The process is killed and started again: its memory is gone, the files stay.
Crash(p) ==
    /\ crashes < MaxCrashes
    /\ crashes' = crashes + 1
    /\ life' = [life EXCEPT ![p] = @ + 1]
    /\ mem' = [mem EXCEPT ![p] = [t \in Tasks |-> None]]
    /\ call' = [call EXCEPT ![p] = NoCall]
    /\ queue' = [queue EXCEPT ![p] = <<>>]
    /\ worker' = [worker EXCEPT ![p] = NoWork]
    /\ UNCHANGED <<files, fails>>

\* One step of the request thread after a submission was accepted for handling.
CallStep(p) ==
    \/ ReadSnapshot(p) \/ IsLive(p) \/ HasCheckpoint(p) \/ Claim(p) \/ Inspect(p)
    \/ TakeOver(p) \/ Create(p) \/ WritePayload(p) \/ Enqueue(p)

WorkerStep(p) ==
    \/ Start(p) \/ Checkpoint(p) \/ End(p) \/ WriteFinal(p) \/ Show(p) \/ Release(p)

Next == \E p \in Procs : Submit(p) \/ CallStep(p) \/ WorkerStep(p) \/ Crash(p)

Spec == Init /\ [][Next]_vars

\* Threads of a live process are scheduled, and a run of the pipeline ends. The
\* worker competes with requests for TaskService._lock and gets it in the end.
FairSpec ==
    /\ Spec
    /\ \A p \in Procs : WF_vars(CallStep(p))
    /\ \A p \in Procs : SF_vars(Start(p)) /\ SF_vars(End(p)) /\ SF_vars(Show(p))
    /\ \A p \in Procs : WF_vars(WriteFinal(p)) /\ WF_vars(Release(p))

------------------------------------------------------------------------------
Executing(p) == worker[p].pc # "idle"

\* No two processes work in the same run directory: they would overwrite each
\* other's checkpoint and translations.
OneRunner == \A p, q \in Procs : Executing(p) /\ Executing(q) => p = q

\* Whoever is executing holds the claim, until the final snapshot is on disk.
RunnerHoldsLock ==
    \A p \in Procs : Executing(p) =>
        lock # None /\ lock.proc = p /\ lock.life = life[p] /\ lock.written

\* The API never shows an end that a restart would not find on disk.
DiskBeforeApi ==
    \A p \in Procs, t \in Tasks : mem[p][t] \in Ended =>
        snap # None /\ (snap.task = t => snap.status = mem[p][t])

\* A snapshot is only replaced by a resumed task once the task it names has
\* stopped, and never when that task has completed.
ResumedAfterStop ==
    [][snap # None /\ snap' # snap /\ snap'.task # snap.task =>
          /\ snap.status # "completed"
          /\ \A p \in Procs : queue[p] = <<>> \/ Current(p).task # snap.task
                              \/ worker[p].pc = "release"]_vars

\* Every submission is answered.
SubmitAnswered == \A p \in Procs : call[p].pc # "idle" ~> call[p].pc = "idle"

\* A task that was accepted ends, or its process is killed.
TaskEnds ==
    \A p \in Procs, t \in Tasks :
        mem[p][t] = "queued" ~> mem[p][t] \in Ended \cup {None}
=============================================================================
