--------------------------- MODULE TranslationRun ---------------------------
(****************************************************************************)
(* The translation phase of a run (application/project_runner.py and        *)
(* application/batch_orchestrator.py): worker threads take resource files   *)
(* from one queue, send batches to the provider, retry, repair or split     *)
(* them, and record each unit in one checkpoint, which is flushed to disk   *)
(* now and then. An execution that is killed or fails is resumed from what  *)
(* the disk holds, possibly after the source texts have changed.            *)
(*                                                                          *)
(* A source text is its version number, and a translation is the version    *)
(* it translates; 0 is none. One answer of the provider costs one token.    *)
(* The log of batch events, which only the dashboard reads, is left out;    *)
(* what it does to the flushes is kept. Units that fail together are        *)
(* recorded together, as no one reads which of them failed first. Nothing   *)
(* looks at the order of the units of a file, so a batch is a set of them:  *)
(* any set may be the next batch, and any half of it the first.             *)
(****************************************************************************)
EXTENDS Naturals, Sequences, FiniteSets

CONSTANTS
    Files, Units,
    UnitsOf,       \* the units of each file
    Workers,
    MaxRetries,    \* max_transient_retries
    MaxSplits,     \* max_timeout_splits
    MaxRequests,   \* max_requests, for each worker
    MaxTokens,     \* max_total_tokens, for each worker
    Threshold,     \* _MAX_CONSECUTIVE_FLUSH_FAILURES
    MaxFaults,     \* bound on crashes, provider faults and failed flushes
    MaxVersion,    \* bound on the source versions
    Legacy,        \* the checkpoint was begun before it recorded fingerprints
    NoFile         \* no file is being worked on

ASSUME BoundsAreNat ==
    /\ {MaxRetries, MaxSplits, MaxRequests, MaxTokens, MaxFaults} \subseteq Nat
    /\ Threshold \in Nat \ {0, 1} /\ MaxVersion \in Nat \ {0}
    /\ Legacy \in BOOLEAN

ASSUME SomeWorkers == Workers # {}

ASSUME FilesHaveUnits ==
    /\ NoFile \notin Files
    /\ UnitsOf \in [Files -> SUBSET Units]
    /\ \A u \in Units : \E f \in Files : u \in UnitsOf[f]
    /\ \A f, g \in Files : f # g => UnitsOf[f] \cap UnitsOf[g] = {}

VARIABLES
    phase,   \* where the execution stands
    source,  \* the version of each source text, as this execution planned it
    todo,    \* the units this execution needs a machine translation for
    mem,     \* the checkpoint of this execution
    disk,    \* checkpoint.json
    dirty,   \* _pending_flush
    fails,   \* _flush_failures
    queue,   \* the files no worker has taken
    worker,
    faults

vars == <<phase, source, todo, mem, disk, dirty, fails, queue, worker, faults>>

Versions == 0..MaxVersion

States == {"pending", "succeeded", "failed", "stale_source"}

Checkpoints == [state : [Units -> States], trans : [Units -> Versions], fp : [Units -> Versions]]

Batches == [us : SUBSET Units, qa : BOOLEAN, splits : 0..MaxSplits]

WorkerPCs == {"idle", "next", "send", "wait", "record", "close", "broken", "dead"}

\* sent counts the calls of the provider; requests is what the budget counts.
WorkerStates ==
    [pc : WorkerPCs, file : Files \cup {NoFile},
     rest : SUBSET Units, stack : Seq(Batches), batch : Batches, attempt : 0..MaxRetries,
     repaired : BOOLEAN, good : SUBSET Units, bad : SUBSET Units,
     requests : Nat, tokens : Nat, sent : Nat]

Phases == {"translating", "collected", "failed", "killed"}

TypeOK ==
    /\ phase \in Phases
    /\ source \in [Units -> 1..MaxVersion]
    /\ todo \subseteq Units
    /\ mem \in Checkpoints /\ disk \in Checkpoints
    /\ dirty \in BOOLEAN
    /\ fails \in 0..MaxFaults /\ faults \in 0..MaxFaults
    /\ queue \subseteq Files
    /\ worker \in [Workers -> WorkerStates]

NoBatch == [us |-> {}, qa |-> FALSE, splits |-> 0]

NewWorker == [pc |-> "idle", file |-> NoFile, rest |-> {}, stack |-> <<>>,
              batch |-> NoBatch, attempt |-> 0, repaired |-> FALSE,
              good |-> {}, bad |-> {}, requests |-> 0, tokens |-> 0, sent |-> 0]

Fresh == [state |-> [u \in Units |-> "pending"], trans |-> [u \in Units |-> 0],
          fp |-> [u \in Units |-> 0]]

\* One slip: the fingerprints are compared after they were overwritten.
ConfiguredThenCompared(c, src, D) ==
    [c EXCEPT !.fp = [u \in Units |-> IF u \in D THEN src[u] ELSE c.fp[u]]]

\* configure_run: a success under another fingerprint is invalidated, and then the
\* fingerprints of this execution are recorded.
Configured(c, src, D) ==
    LET stale == {u \in D : c.fp[u] # 0 /\ c.fp[u] # src[u] /\ c.state[u] = "succeeded"}
    IN  [state |-> [u \in Units |-> IF u \in stale THEN "stale_source" ELSE c.state[u]],
         trans |-> [u \in Units |-> IF u \in stale THEN 0 ELSE c.trans[u]],
         fp    |-> [u \in Units |-> IF u \in D THEN src[u] ELSE c.fp[u]]]

\* What executions that recorded no fingerprints may have left.
Old == {[Fresh EXCEPT !.state = [u \in Units |-> IF u \in D THEN "succeeded" ELSE "pending"],
                      !.trans = [u \in Units |-> IF u \in D THEN 1 ELSE 0]] : D \in SUBSET Units}

Init ==
    /\ phase = "failed"
    /\ source = [u \in Units |-> 1]
    /\ todo = {}
    /\ disk \in IF Legacy THEN Old ELSE {Fresh}
    /\ mem = disk
    /\ dirty = FALSE
    /\ fails = 0 /\ faults = 0
    /\ queue = {}
    /\ worker = [w \in Workers |-> NewWorker]

------------------------------------------------------------------------------
(* JsonCheckpoint._flush.                                                    *)

\* One slip: a failed write is forgotten.
FlushForgotten(m) ==
    {[disk |-> disk, fails |-> fails + 1, dirty |-> FALSE, faults |-> faults + 1]}

FlushFailed(m) ==
    {[disk |-> disk, fails |-> fails + 1, dirty |-> TRUE, faults |-> faults + 1]}

\* What a flush of m may do. Unless it is forced it may fall into the interval in
\* which writes are merged; a failed write is retried by the next flush.
Flushes(m, forced) ==
    {[disk |-> m, fails |-> 0, dirty |-> FALSE, faults |-> faults]}
    \cup (IF forced THEN {}
          ELSE {[disk |-> disk, fails |-> fails, dirty |-> TRUE, faults |-> faults]})
    \cup (IF faults < MaxFaults THEN FlushFailed(m) ELSE {})

\* Worker w records m and goes on as next; the error of one flush too many
\* reaches its caller, and leaves the thread where raised says.
RecordOr(w, m, forced, next, raised) ==
    \E o \in Flushes(m, forced) :
        /\ mem' = m
        /\ disk' = o.disk /\ fails' = o.fails /\ dirty' = o.dirty /\ faults' = o.faults
        /\ worker' = [worker EXCEPT ![w] =
               IF o.faults > faults /\ o.fails >= Threshold
               THEN [next EXCEPT !.pc = raised] ELSE next]

Record(w, m, forced, next) == RecordOr(w, m, forced, next, "broken")

------------------------------------------------------------------------------
\* ProjectRunner.run from the plan to the start of the workers: the first
\* execution, a resume after a crash, or one after a later stage has failed.
Execute ==
    /\ phase # "translating"
    /\ phase = "collected" => faults < MaxFaults
    /\ \E src \in [Units -> 1..MaxVersion], D \in (SUBSET Units) \ {{}}, flushed \in BOOLEAN :
           /\ \A u \in Units \ D : src[u] = source[u]
           /\ source' = src /\ todo' = D
           /\ mem' = Configured(disk, src, D)
           /\ disk' = (IF flushed THEN mem' ELSE disk)
           /\ dirty' = ~flushed
           /\ fails' = (IF flushed THEN 0 ELSE 1)
           /\ faults' = faults + (IF phase = "collected" THEN 1 ELSE 0) + fails'
           /\ faults' <= MaxFaults
           /\ queue' = {f \in Files : UnitsOf[f] \cap D # {}}
    /\ phase' = "translating"
    /\ worker' = [w \in Workers |-> NewWorker]

\* The queue is ordered by work left, which is only a preference here.
TakeFile(w) ==
    /\ phase = "translating" /\ worker[w].pc = "idle"
    /\ \E f \in queue :
           /\ queue' = queue \ {f}
           /\ RecordOr(w, mem, TRUE,
                  [worker[w] EXCEPT !.pc = "next", !.file = f,
                      !.rest = {u \in UnitsOf[f] \cap todo : mem.state[u] # "succeeded"}],
                  "dead")
    /\ UNCHANGED <<phase, source, todo>>

\* A batch of _process: its state starts anew, whatever it was split from.
Begun(s, b) == [s EXCEPT !.pc = "send", !.batch = b, !.attempt = 0, !.repaired = FALSE]

\* The next batch: what a split left, or as much of the rest as fits the token
\* budget of a request.
NextBatch(w) ==
    LET s == worker[w] IN
    /\ phase = "translating" /\ s.pc = "next"
    /\ \/ /\ s.stack # <<>>
          /\ Record(w, mem, TRUE, Begun([s EXCEPT !.stack = Tail(@)], Head(s.stack)))
       \/ /\ s.stack = <<>>
          /\ \E us \in (SUBSET s.rest) \ {{}} :
                 Record(w, mem, TRUE,
                     Begun([s EXCEPT !.rest = @ \ us],
                           [us |-> us, qa |-> FALSE, splits |-> MaxSplits]))
    /\ UNCHANGED <<phase, source, todo, queue>>

WithFailed(c, U) ==
    [c EXCEPT !.state = [u \in Units |-> IF u \in U THEN "failed" ELSE c.state[u]],
              !.trans = [u \in Units |-> IF u \in U THEN 0 ELSE c.trans[u]]]

WithSucceeded(c, U) ==
    [c EXCEPT !.state = [u \in Units |-> IF u \in U THEN "succeeded" ELSE c.state[u]],
              !.trans = [u \in Units |-> IF u \in U THEN source[u] ELSE c.trans[u]]]

\* A single unit that does not fit is failed without a request.
TooLarge(w) ==
    LET s == worker[w] IN
    /\ phase = "translating" /\ s.pc = "next"
    /\ s.stack = <<>>
    /\ \E u \in s.rest :
           Record(w, WithFailed(mem, {u}), TRUE, [s EXCEPT !.rest = @ \ {u}])
    /\ UNCHANGED <<phase, source, todo, queue>>

CompleteFile(w) ==
    LET s == worker[w] IN
    /\ phase = "translating" /\ s.pc = "next"
    /\ s.stack = <<>> /\ s.rest = {}
    /\ RecordOr(w, mem, TRUE, [s EXCEPT !.pc = "idle", !.file = NoFile, !.batch = NoBatch], "dead")
    /\ UNCHANGED <<phase, source, todo, queue>>

\* One slip: only the units of the batch are failed.
OverBudgetBatch(w, s) ==
    Record(w, WithFailed(mem, s.batch.us), FALSE,
           [s EXCEPT !.pc = "next", !.stack = <<>>, !.rest = {}])

\* BudgetExceeded: every unit of the file without a success is failed.
OverBudget(w, s) ==
    LET open == {u \in UnitsOf[s.file] \cap todo : mem.state[u] # "succeeded"} IN
    Record(w, WithFailed(mem, open), FALSE,
           [s EXCEPT !.pc = "next", !.stack = <<>>, !.rest = {}])

Send(w) ==
    LET s == worker[w] IN
    /\ phase = "translating" /\ s.pc = "send"
    /\ IF s.requests >= MaxRequests THEN OverBudget(w, s)
       ELSE Record(w, mem, FALSE, [s EXCEPT !.pc = "wait", !.sent = @ + 1])
    /\ UNCHANGED <<phase, source, todo, queue>>

------------------------------------------------------------------------------
(* The answers of the provider.                                              *)

\* _fail_all
FailAll(w, s) ==
    Record(w, WithFailed(mem, s.batch.us), TRUE, [s EXCEPT !.pc = "next", !.bad = {}])

Halves(us) ==
    {h \in (SUBSET us) \X (SUBSET us) : /\ Cardinality(h[1]) = Cardinality(us) \div 2
                                       /\ h[2] = us \ h[1]}

\* _split_or_fail, and _fail_or_split.
SplitOrFail(w, s, splits) ==
    LET child(us) == [us |-> us, qa |-> s.batch.qa, splits |-> splits] IN
    IF Cardinality(s.batch.us) = 1 THEN FailAll(w, s)
    ELSE \E h \in Halves(s.batch.us) :
             Record(w, mem, TRUE,
                 [s EXCEPT !.pc = "next", !.stack = <<child(h[1]), child(h[2])>> \o @])

\* The worker when the answer has been counted.
Counted(s) == [s EXCEPT !.requests = @ + 1]

Received(s) == [Counted(s) EXCEPT !.tokens = @ + 1]

\* A rate limit, a server error, a failed connection or a read timeout.
Transient(w) ==
    LET s == Counted(worker[w]) IN
    /\ phase = "translating" /\ s.pc = "wait"
    /\ IF s.attempt < MaxRetries
       THEN Record(w, mem, TRUE, [s EXCEPT !.pc = "send", !.attempt = @ + 1])
       ELSE \/ FailAll(w, s)
            \/ /\ Cardinality(s.batch.us) > 1 /\ s.batch.splits > 0   \* a read timeout
               /\ SplitOrFail(w, s, s.batch.splits - 1)
    /\ UNCHANGED <<phase, source, todo, queue>>

\* A permanent error fails the batch; one that says the request is too large
\* splits it, with a new allowance of timeout splits.
Permanent(w) ==
    LET s == Counted(worker[w]) IN
    /\ phase = "translating" /\ s.pc = "wait"
    /\ FailAll(w, s) \/ SplitOrFail(w, s, MaxSplits)
    /\ UNCHANGED <<phase, source, todo, queue>>

\* The answer is cut off, or its numbering or an item is wrong: the second kind is
\* asked for again once, and both end in a split.
Malformed(w) ==
    LET s == Received(worker[w]) IN
    /\ phase = "translating" /\ s.pc = "wait"
    /\ IF s.tokens > MaxTokens THEN OverBudget(w, s)
       ELSE \/ /\ ~s.repaired
               /\ Record(w, mem, TRUE, [s EXCEPT !.pc = "send", !.repaired = TRUE])
            \/ SplitOrFail(w, s, MaxSplits)
    /\ UNCHANGED <<phase, source, todo, queue>>

\* The content checks tell the units that pass from the ones that do not.
Parsed(w) ==
    LET s == Received(worker[w]) IN
    /\ phase = "translating" /\ s.pc = "wait"
    /\ s.tokens <= MaxTokens
    /\ \E bad \in SUBSET s.batch.us :
           Record(w, mem, FALSE,
                  [s EXCEPT !.pc = "record", !.good = s.batch.us \ bad, !.bad = bad])
    /\ UNCHANGED <<phase, source, todo, queue>>

\* record_result of one unit after the other, and then the end of the checks.
Accept(w) ==
    LET s == worker[w] IN
    /\ phase = "translating" /\ s.pc = "record"
    /\ \/ /\ s.good = {}
          /\ Record(w, mem, FALSE, [s EXCEPT !.pc = "close"])
       \/ \E u \in s.good :
              Record(w, WithSucceeded(mem, {u}), FALSE, [s EXCEPT !.good = @ \ {u}])
    /\ UNCHANGED <<phase, source, todo, queue>>

\* One slip: the whole batch is sent again.
RetriedWhole(s) == s.batch.us

\* The units a content retry sends.
Retried(s) == s.bad

\* One slip: the end of a batch may be merged into a later write.
CloseMerged(w) ==
    LET s == worker[w]
        next == [s EXCEPT !.pc = "next", !.bad = {}]
    IN
    /\ phase = "translating" /\ s.pc = "close"
    /\ Record(w, IF s.batch.qa THEN WithFailed(mem, s.bad) ELSE mem, FALSE,
           IF s.batch.qa \/ s.bad = {} THEN next
           ELSE [next EXCEPT !.stack = <<[us |-> Retried(s), qa |-> TRUE, splits |-> MaxSplits]>> \o @])
    /\ UNCHANGED <<phase, source, todo, queue>>

\* The end of a batch: succeeded, failed after a content retry, or to be retried
\* for the units that did not pass.
Close(w) ==
    LET s == worker[w]
        next == [s EXCEPT !.pc = "next", !.bad = {}]
    IN
    /\ phase = "translating" /\ s.pc = "close"
    /\ IF s.bad = {} THEN Record(w, mem, TRUE, next)
       ELSE IF s.batch.qa THEN Record(w, WithFailed(mem, s.bad), TRUE, next)
       ELSE Record(w, mem, TRUE,
                [next EXCEPT !.stack =
                    <<[us |-> Retried(s), qa |-> TRUE, splits |-> MaxSplits]>> \o @])
    /\ UNCHANGED <<phase, source, todo, queue>>

\* Any other exception of the provider.
Break(w) ==
    /\ phase = "translating" /\ worker[w].pc = "wait"
    /\ faults < MaxFaults
    /\ faults' = faults + 1
    /\ worker' = [worker EXCEPT ![w].pc = "broken"]
    /\ UNCHANGED <<phase, source, todo, mem, disk, dirty, fails, queue>>

\* The end of a thread: fail_resource, or complete_resource on the way out of the
\* handler of BudgetExceeded. Both flush, whether that works or not.
FailResource(w) ==
    /\ phase = "translating" /\ worker[w].pc = "broken"
    /\ RecordOr(w, mem, TRUE, [worker[w] EXCEPT !.pc = "dead"], "dead")
    /\ UNCHANGED <<phase, source, todo, queue>>

\* One slip: it waits for the files to be done, also for those of a dead thread.
CollectDone ==
    /\ phase = "translating"
    /\ queue = {} /\ \A w \in Workers : worker[w].pc = "idle"
    /\ phase' = "collected"
    /\ \E o \in Flushes(mem, TRUE) :
           disk' = o.disk /\ fails' = o.fails /\ dirty' = o.dirty /\ faults' = o.faults
    /\ UNCHANGED <<source, todo, mem, queue, worker>>

\* Every thread has ended: finalize writes what is pending, and swallows an error.
Collect ==
    /\ phase = "translating"
    /\ \A w \in Workers : worker[w].pc = "dead" \/ (worker[w].pc = "idle" /\ queue = {})
    /\ phase' = IF \E w \in Workers : worker[w].pc = "dead" THEN "failed" ELSE "collected"
    /\ IF ~dirty THEN UNCHANGED <<disk, dirty, fails, faults>>
       ELSE \E o \in Flushes(mem, TRUE) :
                disk' = o.disk /\ fails' = o.fails /\ dirty' = o.dirty /\ faults' = o.faults
    /\ UNCHANGED <<source, todo, mem, queue, worker>>

Kill ==
    /\ phase = "translating"
    /\ faults < MaxFaults
    /\ faults' = faults + 1
    /\ phase' = "killed"
    /\ mem' = disk
    /\ UNCHANGED <<source, todo, disk, dirty, fails, queue, worker>>

Answer(w) == Transient(w) \/ Permanent(w) \/ Malformed(w) \/ Parsed(w)

WorkerStep(w) ==
    TakeFile(w) \/ NextBatch(w) \/ TooLarge(w) \/ CompleteFile(w) \/ Send(w)
    \/ Answer(w) \/ Accept(w) \/ Close(w) \/ FailResource(w)

Next == Execute \/ (\E w \in Workers : WorkerStep(w) \/ Break(w)) \/ Collect \/ Kill

Spec == Init /\ [][Next]_vars

\* A thread that can go on does, and every request is answered or times out.
FairSpec == Spec /\ (\A w \in Workers : WF_vars(WorkerStep(w))) /\ WF_vars(Collect)

------------------------------------------------------------------------------
\* A translation that this execution uses is one of the current source text, also
\* when it was taken over from an earlier execution.
TranslatesCurrent ==
    phase \in {"translating", "collected"} =>
        \A u \in todo : mem.state[u] = "succeeded" => mem.trans[u] = source[u]

\* What _plan_rebuild takes from the checkpoint of a run, for any source: a
\* translation with the fingerprint of that source is a translation of it.
RebuildIsExact ==
    \A u \in Units : disk.state[u] = "succeeded" /\ disk.fp[u] # 0 => disk.trans[u] = disk.fp[u]

\* No unit is lost by batches, splits, retries or the budget: when the run collects
\* its results each unit has one.
EveryUnitHasResult ==
    phase = "collected" => \A u \in todo : mem.state[u] \in {"succeeded", "failed"}

\* A kill loses the results of the batches that are open, and no others, as long as
\* the disk can be written.
LossIsBounded ==
    phase = "translating" /\ fails = 0 =>
        \A u \in Units : mem.state[u] = "succeeded" /\ disk.state[u] # "succeeded" =>
            \E w \in Workers : worker[w].pc \in {"record", "close"} /\ u \in worker[w].batch.us

\* What is not marked as pending is on disk.
CleanIsWritten == phase # "killed" /\ ~dirty => disk = mem

\* The calls of the provider stay within the budget, whatever it answers.
SentWithinBudget == \A w \in Workers : worker[w].sent <= MaxRequests

\* A unit with a recorded translation of the current source is never sent again.
PaidOnce ==
    [][\A w \in Workers : worker[w].pc = "send" /\ worker'[w].pc = "wait" =>
          \A u \in worker[w].batch.us :
              /\ mem.state[u] # "succeeded"
              /\ ~(disk.state[u] = "succeeded" /\ disk.trans[u] = source[u])]_vars

\* The allowance of timeout splits of a batch is never more than that of the batch
\* it was split from.
SplitsOnlyDecrease ==
    [][\A w \in Workers : worker[w].pc \in {"wait", "close"} /\ worker'[w].pc = "next" =>
          \A n \in 1..(Len(worker'[w].stack) - Len(worker[w].stack)) :
              worker'[w].stack[n].splits <= worker[w].batch.splits]_vars

\* An execution ends: no retry, repair, split or content retry goes on for ever.
ExecutionEnds == phase = "translating" ~> phase # "translating"
=============================================================================
