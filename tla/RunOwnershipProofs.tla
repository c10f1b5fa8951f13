------------------------- MODULE RunOwnershipProofs -------------------------
(****************************************************************************)
(* One runner per run directory, for any number of dashboards, tasks and    *)
(* failed writes, as long as no process is killed.                          *)
(*                                                                          *)
(* What excludes others is the creation of owner.lock (O_EXCL): from there  *)
(* to its release a process holds the claim, and without a killed process   *)
(* every owner is alive, so no claim is taken over.                         *)
(****************************************************************************)
EXTENDS RunOwnership, SequenceTheorems, TLAPS

Items == [task : Tasks, mode : Modes]

LivesOK == \A p \in Procs : life[p] <= crashes

\* The thread works on the first task of its queue.
WorkOK == \A p \in Procs : worker[p].pc # "idle" => queue[p] # <<>>

TypeInv == TypeOK /\ LivesOK /\ WorkOK

------------------------------------------------------------------------------
(* Types.                                                                    *)

LEMMA NothingTypes ==
    /\ NoCall \in Calls /\ NoCall.pc = "idle"
    /\ NoWork \in [pc : WorkerPCs, status : Ended] /\ NoWork.pc = "idle"
    /\ <<>> \in Seq([task : Tasks, mode : Modes])
BY DEF NoCall, NoWork, Calls, CallPCs, WorkerPCs, Modes, Ended

LEMMA TypeInit == Init => TypeInv
<1>. SUFFICES ASSUME Init PROVE TypeInv
  OBVIOUS
<1>1. /\ mem \in [Procs -> [Tasks -> Interrupted \cup Ended \cup {None}]]
      /\ call \in [Procs -> Calls]
      /\ worker \in [Procs -> [pc : WorkerPCs, status : Ended]]
      /\ queue \in [Procs -> Seq([task : Tasks, mode : Modes])]
  BY NothingTypes DEF Init
<1>2. life \in [Procs -> 0..MaxCrashes] /\ crashes \in 0..MaxCrashes /\ fails \in 0..MaxWriteFails
      /\ LivesOK
  BY BoundsAreNat DEF Init, LivesOK
<1>3. WorkOK
  BY NothingTypes DEF Init, WorkOK
<1>. QED  BY <1>1, <1>2, <1>3 DEF Init, TypeInv, TypeOK

\* The lock file a process creates is a lock.
LEMMA OwnLockType == ASSUME TypeInv, NEW p \in Procs PROVE OwnLock(p) \in Locks
BY DEF TypeInv, TypeOK, OwnLock, Locks

\* Appending to a queue.
LEMMA AppendFacts ==
    ASSUME NEW S, NEW s \in Seq(S), NEW x \in S
    PROVE  Append(s, x) \in Seq(S) /\ Append(s, x) # <<>>
BY AppendProperties

\* A request that looks further keeps its type.
LEMMA CallFields ==
    ASSUME NEW c \in Calls, NEW pc \in CallPCs, NEW m \in Modes
    PROVE  [c EXCEPT !.pc = pc, !.mode = m] \in Calls /\ [c EXCEPT !.pc = pc, !.prior = m] \in Calls
BY DEF Calls

LEMMA CallType == ASSUME TypeInv, NEW p \in Procs, Submit(p) \/ CallStep(p) PROVE TypeInv'
<1>. USE DEF TypeInv, TypeOK, CallPCs, WorkerPCs, Modes
<1>1. NoCall \in Calls
  BY DEF NoCall, Calls
<1>2. ASSUME NEW pc \in CallPCs, Goto(p, pc) PROVE call' \in [Procs -> Calls]
  BY <1>2 DEF Goto, Calls
<1>3. ASSUME Refuse(p) PROVE call' \in [Procs -> Calls]
  BY <1>1, <1>3 DEF Refuse
<1>4. CASE Submit(p)
  <2>1. PICK mode \in Modes :
            call' = [call EXCEPT ![p].pc = IF dir THEN "read" ELSE "claim", ![p].mode = mode]
    BY <1>4 DEF Submit
  <2>. DEFINE c == [call[p] EXCEPT !.pc = IF dir THEN "read" ELSE "claim", !.mode = mode]
  <2>3. call[p] \in Calls /\ (IF dir THEN "read" ELSE "claim") \in CallPCs
    BY DEF CallPCs
  <2>4. c \in Calls
    BY <2>3, CallFields
  <2>5. call' = [call EXCEPT ![p] = c]
    BY <2>1
  <2>2. call' \in [Procs -> Calls]
    BY <2>4, <2>5
  <2>. QED  BY <1>4, <2>2 DEF Submit, files, LivesOK, WorkOK
<1>5. CASE ReadSnapshot(p) \/ IsLive(p) \/ HasCheckpoint(p) \/ Inspect(p)
  <2>1. CASE ReadSnapshot(p)
    <3>1. CASE snap # None /\ snap.status \in Resumable
      <4>1. snap \in Snapshots /\ snap.mode \in Modes
        BY <3>1 DEF Snapshots
      <4>. DEFINE c == [call[p] EXCEPT
                          !.pc = IF snap.status \in Interrupted THEN "live" ELSE "checkpoint",
                          !.prior = snap.mode]
      <4>5. /\ call[p] \in Calls
            /\ (IF snap.status \in Interrupted THEN "live" ELSE "checkpoint") \in CallPCs
        BY DEF CallPCs
      <4>2. c \in Calls
        BY <4>1, <4>5, CallFields
      <4>3. call' = [call EXCEPT ![p] = c]
        BY <2>1, <3>1 DEF ReadSnapshot
      <4>4. call' \in [Procs -> Calls]
        BY <4>2, <4>3
      <4>. QED  BY <2>1, <4>4 DEF ReadSnapshot, files, LivesOK, WorkOK
    <3>2. CASE ~(snap # None /\ snap.status \in Resumable)
      BY <1>3, <2>1, <3>2 DEF ReadSnapshot, files, LivesOK, WorkOK
    <3>. QED  BY <3>1, <3>2
  <2>. QED
    BY <1>2, <1>3, <1>5, <2>1 DEF IsLive, HasCheckpoint, Inspect, files, LivesOK, WorkOK
<1>6. CASE Claim(p) \/ TakeOver(p) \/ Create(p)
  BY <1>2, <1>3, <1>6, OwnLockType DEF Claim, TakeOver, Create, LivesOK, WorkOK
<1>7. CASE WritePayload(p)
  <2>1. lock' \in Locks \cup {None}
    <3>1. CASE lock = OwnLock(p)
      <4>1. lock' = [proc |-> p, life |-> life[p], written |-> TRUE]
        BY <1>7, <3>1 DEF WritePayload, OwnLock
      <4>. QED  BY <4>1 DEF Locks
    <3>2. CASE lock # OwnLock(p)
      BY <1>7, <3>2 DEF WritePayload
    <3>. QED  BY <3>1, <3>2
  <2>. QED  BY <1>2, <1>7, <2>1 DEF WritePayload, LivesOK, WorkOK
<1>8. CASE Enqueue(p)
  <2>1. call' \in [Procs -> Calls] /\ UNCHANGED <<dir, ckpt, life, worker, crashes>>
    BY <1>3, <1>8 DEF Enqueue
  <2>2. CASE UNCHANGED <<snap, mem, queue>> /\ fails < MaxWriteFails /\ fails' = fails + 1 /\ lock' = None
    <3>1. fails' \in 0..MaxWriteFails
      BY <2>2, BoundsAreNat
    <3>. QED  BY <2>1, <2>2, <3>1 DEF LivesOK, WorkOK
  <2>3. ASSUME NEW t \in Fresh,
               snap' = [task |-> t, status |-> "queued", mode |-> call[p].mode],
               mem' = [mem EXCEPT ![p][t] = "queued"],
               queue' = [queue EXCEPT ![p] = Append(@, [task |-> t, mode |-> call[p].mode])],
               UNCHANGED <<lock, fails>>
        PROVE  TypeInv'
    <3>1. t \in Tasks /\ [task |-> t, mode |-> call[p].mode] \in Items /\ queue[p] \in Seq(Items)
      BY DEF Fresh, Items, Calls
    <3>2. \A x \in Items : Append(queue[p], x) \in Seq(Items) /\ Append(queue[p], x) # <<>>
      BY <3>1, AppendFacts
    <3>3. snap' \in Snapshots \cup {None}
      BY <2>3, <3>1 DEF Interrupted, Snapshots, Calls
    <3>4. mem' \in [Procs -> [Tasks -> Interrupted \cup Ended \cup {None}]]
      BY <2>3, <3>1 DEF Interrupted
    <3>5. queue' \in [Procs -> Seq(Items)] /\ queue'[p] # <<>> /\ \A q \in Procs \ {p} : queue'[q] = queue[q]
      BY <2>3, <3>1, <3>2 DEF Items
    <3>. QED  BY <2>1, <2>3, <3>3, <3>4, <3>5 DEF LivesOK, WorkOK, Items
  <2>. QED  BY <1>8, <2>2, <2>3 DEF Enqueue
<1>. QED  BY <1>4, <1>5, <1>6, <1>7, <1>8 DEF CallStep

\* The first task of a queue is a task.
LEMMA CurrentType ==
    ASSUME TypeInv, NEW p \in Procs, queue[p] # <<>>
    PROVE  Current(p) \in Items /\ Tail(queue[p]) \in Seq(Items)
<1>1. queue[p] \in Seq(Items)
  BY DEF TypeInv, TypeOK, Items
<1>. QED  BY <1>1 DEF Current

LEMMA WorkerType == ASSUME TypeInv, NEW p \in Procs, WorkerStep(p) PROVE TypeInv'
<1>. USE DEF TypeInv, TypeOK, WorkerPCs
<1>1. CASE Start(p)
  <2>1. Current(p).task \in Tasks
    BY <1>1, CurrentType DEF Start, Items
  <2>. QED  BY <1>1, <2>1 DEF Start, files, LivesOK, WorkOK, Interrupted
<1>2. CASE Checkpoint(p)
  BY <1>2 DEF Checkpoint, LivesOK, WorkOK
<1>3. CASE End(p)
  <2>1. PICK status \in Ended : worker' = [worker EXCEPT ![p] = [pc |-> "final", status |-> status]]
    BY <1>3 DEF End
  <2>2. worker' \in [Procs -> [pc : WorkerPCs, status : Ended]] /\ worker[p].pc # "idle"
        /\ \A q \in Procs \ {p} : worker'[q] = worker[q]
    BY <1>3, <2>1 DEF End
  <2>. QED  BY <1>3, <2>2 DEF End, files, LivesOK, WorkOK
<1>4. CASE WriteFinal(p)
  <2>1. Current(p) \in Items /\ worker[p].status \in Ended
    BY <1>4, CurrentType DEF WriteFinal, WorkOK
  <2>2. snap' \in Snapshots \cup {None}
    BY <1>4, <2>1 DEF WriteFinal, Items, Snapshots
  <2>3. worker' \in [Procs -> [pc : WorkerPCs, status : Ended]]
        /\ worker[p].pc # "idle" /\ \A q \in Procs \ {p} : worker'[q] = worker[q]
    BY <1>4 DEF WriteFinal
  <2>4. fails' \in 0..MaxWriteFails
    BY <1>4, BoundsAreNat DEF WriteFinal
  <2>. QED  BY <1>4, <2>2, <2>3, <2>4 DEF WriteFinal, LivesOK, WorkOK
<1>5. CASE Show(p)
  <2>1. Current(p).task \in Tasks /\ worker[p].status \in Ended
    BY <1>5, CurrentType DEF Show, WorkOK, Items
  <2>. QED  BY <1>5, <2>1 DEF Show, files, LivesOK, WorkOK
<1>6. CASE Release(p)
  <2>1. Tail(queue[p]) \in Seq(Items)
    BY <1>6, CurrentType DEF Release, WorkOK
  <2>2. queue' \in [Procs -> Seq(Items)] /\ \A q \in Procs \ {p} : queue'[q] = queue[q]
    BY <1>6, <2>1 DEF Release, Items
  <2>3. worker' \in [Procs -> [pc : WorkerPCs, status : Ended]] /\ worker'[p].pc = "idle"
        /\ \A q \in Procs \ {p} : worker'[q] = worker[q]
    BY <1>6 DEF Release, NoWork, Ended
  <2>. QED  BY <1>6, <2>2, <2>3 DEF Release, LivesOK, WorkOK, Items
<1>. QED  BY <1>1, <1>2, <1>3, <1>4, <1>5, <1>6 DEF WorkerStep

LEMMA CrashType == ASSUME TypeInv, NEW p \in Procs, Crash(p) PROVE TypeInv'
<1>1. NoCall \in Calls /\ NoWork \in [pc : WorkerPCs, status : Ended]
      /\ <<>> \in Seq(Items) /\ NoWork.pc = "idle"
  BY DEF NoCall, NoWork, Calls, CallPCs, WorkerPCs, Modes, Ended
<1>2. /\ life' \in [Procs -> 0..MaxCrashes] /\ crashes' \in 0..MaxCrashes /\ LivesOK'
  BY BoundsAreNat DEF Crash, TypeInv, TypeOK, LivesOK
<1>3. /\ mem' \in [Procs -> [Tasks -> Interrupted \cup Ended \cup {None}]]
      /\ call' \in [Procs -> Calls]
      /\ worker' \in [Procs -> [pc : WorkerPCs, status : Ended]]
  BY <1>1 DEF Crash, TypeInv, TypeOK
<1>4. queue' \in [Procs -> Seq(Items)]
  BY <1>1 DEF Crash, TypeInv, TypeOK, Items
<1>5. WorkOK'
  BY <1>1 DEF Crash, TypeInv, TypeOK, WorkOK
<1>. QED  BY <1>2, <1>3, <1>4, <1>5 DEF Crash, files, TypeInv, TypeOK, Items

LEMMA TypeStep == TypeInv /\ [Next]_vars => TypeInv'
<1>. SUFFICES ASSUME TypeInv, [Next]_vars PROVE TypeInv'
  OBVIOUS
<1>1. CASE UNCHANGED vars
  BY <1>1 DEF vars, TypeInv, TypeOK, LivesOK, WorkOK
<1>. QED  BY <1>1, CallType, WorkerType, CrashType DEF Next

------------------------------------------------------------------------------
(* The claim.                                                                *)

\* From the creation of owner.lock to its release.
Holds(p) == call[p].pc \in {"payload", "snapshot"} \/ queue[p] # <<>>

\* A claim is this process's own, and its payload is written before a task is queued.
ClaimOK ==
    \A p \in Procs : Holds(p) =>
        lock # None /\ lock.proc = p /\ (call[p].pc # "payload" => lock.written)

\* A process claims a run only when it has none, and queues one task per claim.
OneClaim ==
    \A p \in Procs :
        /\ call[p].pc \in {"payload", "snapshot"} => queue[p] = <<>>
        /\ queue[p] # <<>> => Tail(queue[p]) = <<>>

\* Every owner is found alive.
NoneTaken ==
    /\ \A p \in Procs : call[p].pc \notin {"takeover", "create"}
    /\ \A p \in Procs : life[p] = 0
    /\ lock # None => lock.life = 0 /\ lock.proc \in Procs

ClaimInv == TypeInv /\ ClaimOK /\ OneClaim /\ NoneTaken
\* One process at a time holds the claim.
LEMMA OneHolder == ASSUME ClaimOK, NEW p \in Procs, NEW q \in Procs, Holds(p), Holds(q) PROVE p = q
BY DEF ClaimOK

LEMMA ClaimInit == Init => ClaimInv
BY TypeInit DEF Init, ClaimInv, ClaimOK, OneClaim, NoneTaken, Holds, NoCall

\* A request that neither creates nor enters a claim leaves them alone.
LEMMA LookStep ==
    ASSUME ClaimInv, NEW p \in Procs,
           Submit(p) \/ ReadSnapshot(p) \/ IsLive(p) \/ HasCheckpoint(p) \/ Inspect(p)
    PROVE  ClaimOK' /\ OneClaim' /\ NoneTaken'
<1>1. UNCHANGED <<lock, life, queue>>
  BY DEF Submit, ReadSnapshot, IsLive, HasCheckpoint, Inspect, files
<1>2. call[p].pc \notin {"payload", "snapshot"}
  BY DEF Submit, ReadSnapshot, IsLive, HasCheckpoint, Inspect
<1>3. \A q \in Procs \ {p} : call'[q] = call[q]
  BY DEF Submit, ReadSnapshot, IsLive, HasCheckpoint, Inspect, Goto, Refuse, ClaimInv, TypeInv, TypeOK
<1>4. call'[p].pc \notin {"payload", "snapshot", "takeover", "create"}
  <2>1. lock # None => OwnerIsAlive(lock)
    BY DEF OwnerIsAlive, ClaimInv, NoneTaken
  <2>. QED
    BY <2>1 DEF Submit, ReadSnapshot, IsLive, HasCheckpoint, Inspect, Goto, Refuse, NoCall,
                ClaimInv, TypeInv, TypeOK, Calls
<1>5. ClaimOK'
  BY <1>1, <1>2, <1>3, <1>4 DEF ClaimInv, ClaimOK, Holds
<1>6. OneClaim'
  BY <1>1, <1>3, <1>4 DEF ClaimInv, OneClaim
<1>. QED  BY <1>1, <1>3, <1>4, <1>5, <1>6 DEF ClaimInv, NoneTaken

LEMMA ClaimStep ==
    ASSUME ClaimInv, NEW p \in Procs, Claim(p) PROVE ClaimOK' /\ OneClaim' /\ NoneTaken'
<1>0. OwnLock(p) \in Locks /\ OwnLock(p).proc = p /\ OwnLock(p).life = life[p]
  BY OwnLockType DEF ClaimInv, OwnLock
<1>. USE DEF ClaimInv, TypeInv, TypeOK, Calls
<1>1. UNCHANGED <<life, queue>> /\ call[p].pc = "claim"
      /\ \A q \in Procs \ {p} : call'[q] = call[q]
  BY DEF Claim, Goto
<1>2. CASE lock = None
  <2>1. lock' = OwnLock(p) /\ call'[p].pc = "payload"
    BY <1>2 DEF Claim, Goto
  <2>2. \A q \in Procs : ~Holds(q)
    BY <1>2 DEF ClaimOK
  <2>3. lock' # None /\ lock'.proc = p /\ lock'.life = 0
    BY <1>0, <2>1, NoneIsNoRecord DEF NoneTaken
  <2>. QED  BY <1>1, <2>1, <2>2, <2>3 DEF ClaimOK, OneClaim, NoneTaken, Holds
<1>3. CASE lock # None
  <2>1. lock' = lock /\ call'[p].pc = "inspect"
    BY <1>3 DEF Claim, Goto
  <2>. QED  BY <1>1, <2>1 DEF ClaimOK, OneClaim, NoneTaken, Holds
<1>. QED  BY <1>2, <1>3

LEMMA PayloadStep ==
    ASSUME ClaimInv, NEW p \in Procs, WritePayload(p) PROVE ClaimOK' /\ OneClaim' /\ NoneTaken'
<1>. USE DEF ClaimInv, TypeInv, TypeOK, Calls
<1>1. UNCHANGED <<life, queue>> /\ call[p].pc = "payload" /\ call'[p].pc = "snapshot"
      /\ \A q \in Procs \ {p} : call'[q] = call[q]
  BY DEF WritePayload, Goto
<1>2. Holds(p) /\ lock \in Locks /\ lock.proc = p /\ lock # None
  BY <1>1 DEF Holds, ClaimOK
<1>3. lock' # None /\ lock'.proc = p /\ lock'.written /\ lock'.life = 0
  <2>1. CASE lock.written
    <3>1. lock # OwnLock(p)
      BY <2>1 DEF OwnLock
    <3>. QED  BY <1>2, <2>1, <3>1 DEF WritePayload, NoneTaken
  <2>2. CASE ~lock.written
    <3>1. lock = OwnLock(p)
      BY <1>2, <2>2 DEF OwnLock, Locks, NoneTaken
    <3>2. lock' = [proc |-> p, life |-> life[p], written |-> TRUE]
      BY <3>1 DEF WritePayload, OwnLock
    <3>3. [proc |-> p, life |-> life[p], written |-> TRUE] \in Locks
      BY DEF Locks
    <3>. QED  BY <3>2, <3>3, NoneIsNoRecord DEF NoneTaken
  <2>. QED  BY <1>2, <2>1, <2>2 DEF Locks
<1>4. \A q \in Procs : Holds(q)' => Holds(q)
  BY <1>1 DEF Holds
<1>. QED  BY <1>1, <1>2, <1>3, <1>4, OneHolder DEF ClaimOK, OneClaim, NoneTaken, Holds

LEMMA EnqueueStep ==
    ASSUME ClaimInv, NEW p \in Procs, Enqueue(p) PROVE ClaimOK' /\ OneClaim' /\ NoneTaken'
<1>. USE DEF ClaimInv, TypeInv, TypeOK, Calls
<1>1. UNCHANGED life /\ call[p].pc = "snapshot" /\ call'[p].pc = "idle"
      /\ \A q \in Procs \ {p} : call'[q] = call[q]
  BY DEF Enqueue, Refuse, NoCall
<1>2. Holds(p) /\ lock # None /\ lock.proc = p /\ lock.written /\ queue[p] = <<>>
  BY <1>1 DEF Holds, ClaimOK, OneClaim
<1>3. \A q \in Procs \ {p} : ~Holds(q)
  BY <1>2, OneHolder
<1>4. CASE lock' = None /\ UNCHANGED queue
  <2>1. \A q \in Procs : ~Holds(q)'
    BY <1>1, <1>2, <1>3, <1>4 DEF Holds
  <2>. QED  BY <1>1, <1>2, <1>3, <1>4, <2>1 DEF ClaimOK, OneClaim, NoneTaken, Holds
<1>5. ASSUME NEW x \in Items, queue' = [queue EXCEPT ![p] = Append(@, x)], UNCHANGED lock
      PROVE  ClaimOK' /\ OneClaim' /\ NoneTaken'
  <2>1. queue'[p] = <<x>> /\ Tail(queue'[p]) = <<>> /\ \A q \in Procs \ {p} : queue'[q] = queue[q]
    BY <1>2, <1>5
  <2>2. \A q \in Procs : Holds(q)' => q = p
    BY <1>1, <1>3, <2>1 DEF Holds
  <2>. QED  BY <1>1, <1>2, <1>3, <1>5, <2>1, <2>2 DEF ClaimOK, OneClaim, NoneTaken, Holds
<1>6. \A t \in Fresh : [task |-> t, mode |-> call[p].mode] \in Items
  BY DEF Fresh, Items
<1>. QED  BY <1>4, <1>5, <1>6 DEF Enqueue

LEMMA ReleaseStep ==
    ASSUME ClaimInv, NEW p \in Procs, Release(p) PROVE ClaimOK' /\ OneClaim' /\ NoneTaken'
<1>. USE DEF ClaimInv, TypeInv, TypeOK, Calls
<1>1. UNCHANGED <<life, call>> /\ lock' = None /\ queue[p] # <<>> /\ queue'[p] = <<>>
      /\ \A q \in Procs \ {p} : queue'[q] = queue[q]
  BY DEF Release, WorkOK, OneClaim
<1>2. \A q \in Procs \ {p} : ~Holds(q)
  BY <1>1, OneHolder DEF Holds
<1>3. \A q \in Procs : ~Holds(q)'
  BY <1>1, <1>2 DEF Holds, OneClaim
<1>. QED  BY <1>1, <1>2, <1>3 DEF ClaimOK, OneClaim, NoneTaken, Holds

LEMMA ClaimInvStep == ASSUME MaxCrashes = 0 PROVE ClaimInv /\ [Next]_vars => ClaimInv'
<1>. SUFFICES ASSUME ClaimInv, [Next]_vars PROVE ClaimOK' /\ OneClaim' /\ NoneTaken'
  BY TypeStep DEF ClaimInv
<1>1. CASE UNCHANGED vars
  BY <1>1 DEF vars, ClaimInv, ClaimOK, OneClaim, NoneTaken, Holds
<1>2. ASSUME NEW p \in Procs, WorkerStep(p) PROVE ClaimOK' /\ OneClaim' /\ NoneTaken'
  <2>1. CASE Release(p)
    BY <2>1, ReleaseStep
  <2>2. CASE ~Release(p)
    <3>1. UNCHANGED <<lock, life, call, queue>>
      BY <1>2, <2>2 DEF WorkerStep, Start, Checkpoint, End, WriteFinal, Show, files
    <3>. QED  BY <3>1 DEF ClaimInv, ClaimOK, OneClaim, NoneTaken, Holds
  <2>. QED  BY <2>1, <2>2
<1>3. ASSUME NEW p \in Procs, Submit(p) \/ CallStep(p) PROVE ClaimOK' /\ OneClaim' /\ NoneTaken'
  <2>1. ~TakeOver(p) /\ ~Create(p)
    BY DEF TakeOver, Create, ClaimInv, NoneTaken
  <2>. QED
    BY <1>3, <2>1, LookStep, ClaimStep, PayloadStep, EnqueueStep DEF CallStep
<1>4. ASSUME NEW p \in Procs, Crash(p) PROVE FALSE
  BY <1>4 DEF Crash, ClaimInv, TypeInv, TypeOK
<1>. QED  BY <1>1, <1>2, <1>3, <1>4 DEF Next

LEMMA ClaimInvariance == ASSUME MaxCrashes = 0 PROVE Spec => []ClaimInv
BY ClaimInit, ClaimInvStep, PTL DEF Spec

------------------------------------------------------------------------------
(* Memory and disk.                                                          *)

\* A task belongs to the process that accepted it.
OneOwner ==
    \A p, q \in Procs, t \in Tasks : mem[p][t] # None /\ mem[q][t] # None => p = q

\* The task at the head of a queue has not ended, but in its last step.
HeadOK ==
    \A p \in Procs : queue[p] # <<>> /\ worker[p].pc # "release" =>
        mem[p][Current(p).task] \in Interrupted

\* The end the API is about to show is on disk.
ShowOK ==
    \A p \in Procs : worker[p].pc = "show" =>
        snap # None /\ snap.task = Current(p).task /\ snap.status = worker[p].status

DiskInv == HeadOK /\ ShowOK /\ OneOwner /\ DiskBeforeApi

LEMMA DiskInit == Init => DiskInv
BY NoneIsNoRecord, NothingTypes DEF Init, DiskInv, OneOwner, HeadOK, ShowOK, DiskBeforeApi, NoWork, Ended

\* Of the processes only p has a queue when p holds the claim.
LEMMA OthersIdle ==
    ASSUME ClaimInv, NEW p \in Procs, Holds(p), NEW q \in Procs \ {p}
    PROVE  queue[q] = <<>> /\ worker[q].pc = "idle"
BY OneHolder DEF ClaimInv, TypeInv, WorkOK, Holds

LEMMA EnqueueDisk == ASSUME ClaimInv, DiskInv, NEW p \in Procs, Enqueue(p) PROVE DiskInv'
<1>1. Holds(p) /\ queue[p] = <<>> /\ worker[p].pc = "idle" /\ UNCHANGED worker
  BY DEF Enqueue, Holds, ClaimInv, OneClaim, TypeInv, WorkOK
<1>2. \A q \in Procs : queue[q] = <<>> /\ worker[q].pc = "idle"
  BY <1>1, OthersIdle
<1>3. CASE UNCHANGED <<snap, mem, queue>>
  BY <1>1, <1>3 DEF DiskInv, OneOwner, HeadOK, ShowOK, DiskBeforeApi, Current
<1>4. ASSUME NEW t \in Fresh,
             snap' = [task |-> t, status |-> "queued", mode |-> call[p].mode],
             mem' = [mem EXCEPT ![p][t] = "queued"],
             queue' = [queue EXCEPT ![p] = Append(@, [task |-> t, mode |-> call[p].mode])]
      PROVE  DiskInv'
  <2>1. t \in Tasks /\ \A q \in Procs : mem[q][t] = None
    BY DEF Fresh
  <2>2. /\ mem'[p][t] = "queued" /\ "queued" \notin Ended /\ "queued" \in Interrupted
        /\ \A q \in Procs, u \in Tasks : q # p \/ u # t => mem'[q][u] = mem[q][u]
    BY <1>4, <2>1 DEF ClaimInv, TypeInv, TypeOK, Ended, Interrupted
  <2>3. OneOwner'
    BY <2>1, <2>2 DEF DiskInv, OneOwner
  <2>4. HeadOK'
    <3> DEFINE x == [task |-> t, mode |-> call[p].mode]
    <3>1. x.task = t /\ x \in Items /\ queue' = [queue EXCEPT ![p] = Append(@, x)]
      BY <1>4, <2>1 DEF Items, ClaimInv, TypeInv, TypeOK, Calls
    <3>. HIDE DEF x
    <3>2. queue'[p] = <<x>> /\ \A q \in Procs \ {p} : queue'[q] = <<>>
      <4>1. queue'[p] = Append(<<>>, x) /\ \A q \in Procs \ {p} : queue'[q] = queue[q]
        BY <1>1, <3>1 DEF ClaimInv, TypeInv, TypeOK
      <4>2. Append(<<>>, x) = <<x>>
        OBVIOUS
      <4>. QED  BY <1>2, <4>1, <4>2
    <3>3. Head(queue'[p]).task = t
      BY <3>1, <3>2
    <3>. QED  BY <2>2, <3>2, <3>3 DEF HeadOK, Current
  <2>5. ShowOK'
    BY <1>1, <1>2 DEF ShowOK
  <2>6. DiskBeforeApi'
    <3>1. snap' # None /\ snap'.task = t
      <4>1. snap' \in Snapshots
        BY <1>4, <2>1 DEF ClaimInv, TypeInv, TypeOK, Calls, Snapshots, Interrupted
      <4>. QED  BY <1>4, <4>1, NoneIsNoRecord
    <3>2. \A q \in Procs, u \in Tasks : mem'[q][u] \in Ended => u # t
      BY <2>1, <2>2, NoneIsNoRecord
    <3>. QED  BY <3>1, <3>2 DEF DiskBeforeApi
  <2>. QED  BY <2>3, <2>4, <2>5, <2>6 DEF DiskInv
<1>. QED  BY <1>3, <1>4 DEF Enqueue

\* What the thread of p works on: a task of p's, alone in the directory.
LEMMA WorkFacts ==
    ASSUME ClaimInv, DiskInv, NEW p \in Procs, queue[p] # <<>>
    PROVE  /\ Current(p) \in Items
           /\ \A q \in Procs \ {p} : queue[q] = <<>> /\ worker[q].pc = "idle"
           /\ worker[p].pc # "release" =>
                  /\ mem[p][Current(p).task] \in Interrupted
                  /\ \A q \in Procs \ {p} : mem[q][Current(p).task] = None
<1>1. Current(p) \in Items /\ Holds(p)
  BY CurrentType DEF ClaimInv, Holds
<1>2. \A q \in Procs \ {p} : queue[q] = <<>> /\ worker[q].pc = "idle"
  BY <1>1, OthersIdle
<1>. QED  BY <1>1, <1>2, NoneIsNoRecord DEF DiskInv, HeadOK, OneOwner, Items

LEMMA WorkerDisk == ASSUME ClaimInv, DiskInv, NEW p \in Procs, WorkerStep(p) PROVE DiskInv'
<1>1. CASE Start(p)
  <2>1. queue[p] # <<>> /\ worker[p].pc = "idle" /\ UNCHANGED <<queue, snap>>
        /\ worker' = [worker EXCEPT ![p].pc = "running"]
        /\ mem' = [mem EXCEPT ![p][Current(p).task] = "running"]
    BY <1>1 DEF Start, files
  <2>2. /\ mem'[p][Current(p).task] = "running" /\ "running" \in Interrupted /\ "running" \notin Ended
        /\ \A q \in Procs, u \in Tasks : q # p \/ u # Current(p).task => mem'[q][u] = mem[q][u]
        /\ Current(p).task \in Tasks
    BY <2>1, WorkFacts DEF ClaimInv, TypeInv, TypeOK, Interrupted, Ended, Items
  <2>3. OneOwner'
    BY <2>1, <2>2, WorkFacts, NoneIsNoRecord DEF DiskInv, OneOwner
  <2>4. /\ worker'[p].pc = "running"
        /\ \A q \in Procs \ {p} : worker'[q].pc = "idle" /\ queue[q] = <<>>
    BY <2>1, WorkFacts DEF ClaimInv, TypeInv, TypeOK
  <2>5. HeadOK' /\ ShowOK'
    BY <2>1, <2>2, <2>4 DEF HeadOK, ShowOK, Current
  <2>6. DiskBeforeApi'
    BY <2>1, <2>2 DEF DiskInv, DiskBeforeApi
  <2>. QED  BY <2>3, <2>5, <2>6 DEF DiskInv
<1>2. CASE Checkpoint(p)
  BY <1>2 DEF Checkpoint, DiskInv, OneOwner, HeadOK, ShowOK, DiskBeforeApi, Current
<1>3. CASE End(p)
  <2>1. UNCHANGED <<queue, snap, mem>> /\ worker[p].pc = "running"
        /\ worker'[p].pc = "final" /\ \A q \in Procs \ {p} : worker'[q] = worker[q]
    BY <1>3 DEF End, files, ClaimInv, TypeInv, TypeOK
  <2>. QED  BY <2>1 DEF DiskInv, OneOwner, HeadOK, ShowOK, DiskBeforeApi, Current
<1>4. CASE WriteFinal(p)
  <2>1. UNCHANGED <<queue, mem>> /\ worker[p].pc = "final" /\ queue[p] # <<>>
        /\ worker'[p].pc \in {"show", "release"} /\ worker'[p].status = worker[p].status
        /\ \A q \in Procs \ {p} : worker'[q] = worker[q]
    BY <1>4 DEF WriteFinal, ClaimInv, TypeInv, TypeOK, WorkOK
  <2>2. HeadOK' /\ OneOwner'
    BY <2>1 DEF DiskInv, OneOwner, HeadOK, Current
  <2>3. CASE UNCHANGED snap /\ worker'[p].pc = "release"
    BY <2>1, <2>2, <2>3 DEF DiskInv, ShowOK, DiskBeforeApi, Current
  <2>4. CASE snap' = [task |-> Current(p).task, status |-> worker[p].status, mode |-> Current(p).mode]
    <3>1. snap' # None
      <4>1. snap' \in Snapshots
        BY <2>1, <2>4, WorkFacts DEF ClaimInv, TypeInv, TypeOK, Snapshots, Items
      <4>. QED  BY <4>1, NoneIsNoRecord
    <3>2. ShowOK'
      BY <2>1, <2>4, <3>1, WorkFacts DEF ShowOK, Current
    <3>3. \A q \in Procs : mem[q][Current(p).task] \notin Ended
      BY <2>1, WorkFacts, NoneIsNoRecord DEF Interrupted, Ended
    <3>4. DiskBeforeApi'
      BY <2>1, <2>4, <3>1, <3>3 DEF DiskBeforeApi
    <3>. QED  BY <2>2, <3>2, <3>4 DEF DiskInv
  <2>. QED  BY <1>4, <2>1, <2>3, <2>4 DEF WriteFinal, ClaimInv, TypeInv, TypeOK
<1>5. CASE Show(p)
  <2>1. UNCHANGED <<queue, snap>> /\ worker[p].pc = "show" /\ queue[p] # <<>>
        /\ worker' = [worker EXCEPT ![p].pc = "release"]
        /\ mem' = [mem EXCEPT ![p][Current(p).task] = worker[p].status]
    BY <1>5 DEF Show, files, ClaimInv, TypeInv, WorkOK
  <2>2. /\ mem'[p][Current(p).task] = worker[p].status
        /\ \A q \in Procs, u \in Tasks : q # p \/ u # Current(p).task => mem'[q][u] = mem[q][u]
        /\ Current(p).task \in Tasks
    BY <2>1, WorkFacts DEF ClaimInv, TypeInv, TypeOK, Items
  <2>3. OneOwner'
    BY <2>1, <2>2, WorkFacts DEF DiskInv, OneOwner
  <2>4. /\ worker'[p].pc = "release"
        /\ \A q \in Procs \ {p} : worker'[q].pc = "idle" /\ queue[q] = <<>>
    BY <2>1, WorkFacts DEF ClaimInv, TypeInv, TypeOK
  <2>5. HeadOK' /\ ShowOK'
    BY <2>1, <2>4 DEF HeadOK, ShowOK
  <2>6. DiskBeforeApi'
    BY <2>1, <2>2 DEF DiskInv, DiskBeforeApi, ShowOK
  <2>. QED  BY <2>3, <2>5, <2>6 DEF DiskInv
<1>6. CASE Release(p)
  <2>1. UNCHANGED <<mem, snap>> /\ queue'[p] = <<>> /\ worker'[p].pc = "idle"
        /\ \A q \in Procs \ {p} : queue'[q] = queue[q] /\ worker'[q] = worker[q]
    BY <1>6, NothingTypes DEF Release, ClaimInv, OneClaim, TypeInv, TypeOK, WorkOK
  <2>. QED  BY <2>1 DEF DiskInv, OneOwner, HeadOK, ShowOK, DiskBeforeApi, Current
<1>. QED  BY <1>1, <1>2, <1>3, <1>4, <1>5, <1>6 DEF WorkerStep

LEMMA DiskStep ==
    ASSUME MaxCrashes = 0 PROVE ClaimInv /\ DiskInv /\ [Next]_vars => DiskInv'
<1>. SUFFICES ASSUME ClaimInv, DiskInv, [Next]_vars PROVE DiskInv'
  OBVIOUS
<1>1. CASE UNCHANGED vars
  BY <1>1 DEF vars, DiskInv, OneOwner, HeadOK, ShowOK, DiskBeforeApi, Current
<1>2. ASSUME NEW p \in Procs, Submit(p) \/ CallStep(p), ~Enqueue(p) PROVE DiskInv'
  <2>1. UNCHANGED <<snap, mem, queue, worker>>
    BY <1>2 DEF CallStep, Submit, ReadSnapshot, IsLive, HasCheckpoint, Claim, Inspect, TakeOver,
                Create, WritePayload, files
  <2>. QED  BY <2>1 DEF DiskInv, OneOwner, HeadOK, ShowOK, DiskBeforeApi, Current
<1>3. ASSUME NEW p \in Procs, Crash(p) PROVE FALSE
  BY <1>3 DEF Crash, ClaimInv, TypeInv, TypeOK
<1>. QED  BY <1>1, <1>2, <1>3, EnqueueDisk, WorkerDisk DEF Next

------------------------------------------------------------------------------
\* Files, requests, queues and threads keep their types, also when processes are
\* killed at any step (web/tasks.py).
THEOREM TypeCorrect == Spec => []TypeOK
<1>1. Spec => []TypeInv
  BY TypeInit, TypeStep, PTL DEF Spec
<1>2. TypeInv => TypeOK
  BY DEF TypeInv
<1>. QED  BY <1>1, <1>2, PTL

\* As long as no process is killed, at most one of any number of dashboards works in
\* the run directory: _claim_run creates owner.lock exclusively, and finds every
\* owner alive.
THEOREM Exclusion == ASSUME MaxCrashes = 0 PROVE Spec => []OneRunner
<1>1. ClaimInv => OneRunner
  BY OneHolder DEF ClaimInv, TypeInv, WorkOK, OneRunner, Executing, Holds
<1>. QED  BY <1>1, ClaimInvariance, PTL

\* Under the same assumption the thread that works holds the claim from its first
\* step to its last, with its payload written.
THEOREM Claimed == ASSUME MaxCrashes = 0 PROVE Spec => []RunnerHoldsLock
<1>1. ClaimInv => RunnerHoldsLock
  BY DEF ClaimInv, ClaimOK, NoneTaken, OneClaim, TypeInv, WorkOK, RunnerHoldsLock, Executing, Holds
<1>. QED  BY <1>1, ClaimInvariance, PTL

\* Under the same assumption the API never shows an end that is not on disk, whatever
\* snapshots cannot be written (_run, DashboardTaskService._tasks).
THEOREM DiskFirst == ASSUME MaxCrashes = 0 PROVE Spec => []DiskBeforeApi
<1>1. Spec => []DiskInv
  BY DiskInit, DiskStep, ClaimInvariance, PTL DEF Spec
<1>2. DiskInv => DiskBeforeApi
  BY DEF DiskInv
<1>. QED  BY <1>1, <1>2, PTL
=============================================================================
