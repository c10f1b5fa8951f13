------------------------ MODULE TranslationRunProofs ------------------------
(****************************************************************************)
(* What TLAPS proves of TranslationRun, for any files, units, threads and   *)
(* bounds. Every step of a thread records a checkpoint that differs from    *)
(* the one before in units of this execution only; the rest follows from    *)
(* that.                                                                    *)
(****************************************************************************)
EXTENDS TranslationRun, TLAPS, SequenceTheorems

BatchesOver(T) == [us : SUBSET T, qa : BOOLEAN, splits : 0..MaxSplits]

\* The states of a thread that handles units of T only.
WorkersOver(T) ==
    [pc : WorkerPCs, file : Files \cup {NoFile},
     rest : SUBSET T, stack : Seq(BatchesOver(T)), batch : BatchesOver(T),
     attempt : 0..MaxRetries, repaired : BOOLEAN, good : SUBSET T, bad : SUBSET T,
     requests : Nat, tokens : Nat, sent : Nat]

\* TypeOK, strengthened: threads handle the units of this execution, and each failed
\* flush in a row was a fault.
Shape ==
    /\ phase \in Phases
    /\ source \in [Units -> 1..MaxVersion]
    /\ todo \in SUBSET Units
    /\ mem \in Checkpoints /\ disk \in Checkpoints
    /\ dirty \in BOOLEAN
    /\ faults \in 0..MaxFaults /\ fails \in 0..faults
    /\ queue \in SUBSET Files
    /\ worker \in [Workers -> WorkersOver(todo)]

\* The checkpoints a thread may record.
Outcomes ==
    {mem} \cup {WithFailed(mem, U) : U \in SUBSET todo}
          \cup {WithSucceeded(mem, U) : U \in SUBSET todo}

Recording(w) ==
    \E m \in Outcomes, forced \in BOOLEAN, next \in WorkersOver(todo),
       raised \in {"broken", "dead"} : RecordOr(w, m, forced, next, raised)

Kept == UNCHANGED <<phase, source, todo>> /\ queue' \in SUBSET Files

------------------------------------------------------------------------------
LEMMA NewWorkerType == \A T : NewWorker \in WorkersOver(T)
<1>1. BoundsAreNat
  BY BoundsAreNat
<1>2. \A T : NoBatch \in BatchesOver(T)
  BY <1>1 DEF NoBatch, BatchesOver, BoundsAreNat
<1>3. \A T : <<>> \in Seq(BatchesOver(T))
  BY EmptySeq
<1>4. QED
  BY <1>1, <1>2, <1>3 DEF NewWorker, WorkersOver, WorkerPCs, BoundsAreNat

LEMMA OutcomeType ==
    ASSUME Shape, NEW m \in Outcomes
    PROVE  m \in Checkpoints /\ m.fp = mem.fp
<1>1. mem \in Checkpoints /\ source \in [Units -> Versions] /\ 0 \in Versions
  BY BoundsAreNat DEF Shape, Versions, BoundsAreNat
<1>2. ASSUME NEW U \in SUBSET todo
      PROVE  WithFailed(mem, U) \in Checkpoints /\ WithFailed(mem, U).fp = mem.fp
  <2>1. [u \in Units |-> IF u \in U THEN "failed" ELSE mem.state[u]] \in [Units -> States]
    BY <1>1 DEF Checkpoints, States
  <2>2. [u \in Units |-> IF u \in U THEN 0 ELSE mem.trans[u]] \in [Units -> Versions]
    BY <1>1 DEF Checkpoints
  <2>3. QED
    BY <1>1, <2>1, <2>2 DEF WithFailed, Checkpoints
<1>3. ASSUME NEW U \in SUBSET todo
      PROVE  WithSucceeded(mem, U) \in Checkpoints /\ WithSucceeded(mem, U).fp = mem.fp
  <2>1. [u \in Units |-> IF u \in U THEN "succeeded" ELSE mem.state[u]] \in [Units -> States]
    BY <1>1 DEF Checkpoints, States
  <2>2. [u \in Units |-> IF u \in U THEN source[u] ELSE mem.trans[u]] \in [Units -> Versions]
    BY <1>1 DEF Checkpoints
  <2>3. QED
    BY <1>1, <2>1, <2>2 DEF WithSucceeded, Checkpoints
<1>4. QED
  BY <1>1, <1>2, <1>3 DEF Outcomes

LEMMA ByRecord ==
    ASSUME NEW w \in Workers, NEW m \in Outcomes, NEW forced \in BOOLEAN,
           NEW next \in WorkersOver(todo), Record(w, m, forced, next)
    PROVE  Recording(w)
BY DEF Recording, Record

LEMMA ByFailAll ==
    ASSUME Shape, NEW w \in Workers, NEW s \in WorkersOver(todo), FailAll(w, s)
    PROVE  Recording(w)
<1>1. s.batch.us \in SUBSET todo
  BY DEF WorkersOver, BatchesOver
<1>2. WithFailed(mem, s.batch.us) \in Outcomes
  BY <1>1 DEF Outcomes
<1>3. [s EXCEPT !.pc = "next", !.bad = {}] \in WorkersOver(todo)
  BY DEF WorkersOver, WorkerPCs
<1>4. QED
  BY <1>2, <1>3, ByRecord DEF FailAll

LEMMA ByOverBudget ==
    ASSUME Shape, NEW w \in Workers, NEW s \in WorkersOver(todo), OverBudget(w, s)
    PROVE  Recording(w)
<1> DEFINE open == {u \in UnitsOf[s.file] \cap todo : mem.state[u] # "succeeded"}
<1>1. WithFailed(mem, open) \in Outcomes
  BY DEF Outcomes
<1>2. <<>> \in Seq(BatchesOver(todo))
  BY EmptySeq
<1>3. [s EXCEPT !.pc = "next", !.stack = <<>>, !.rest = {}] \in WorkersOver(todo)
  BY <1>2 DEF WorkersOver, WorkerPCs
<1>4. QED
  BY <1>1, <1>3, ByRecord DEF OverBudget

LEMMA BySplitOrFail ==
    ASSUME Shape, NEW w \in Workers, NEW s \in WorkersOver(todo), NEW n \in 0..MaxSplits,
           SplitOrFail(w, s, n)
    PROVE  Recording(w)
<1> DEFINE child(us) == [us |-> us, qa |-> s.batch.qa, splits |-> n]
<1>1. CASE Cardinality(s.batch.us) = 1
  BY <1>1, ByFailAll DEF SplitOrFail
<1>2. CASE Cardinality(s.batch.us) # 1
  <2>1. PICK h \in Halves(s.batch.us) :
            Record(w, mem, TRUE,
                [s EXCEPT !.pc = "next", !.stack = <<child(h[1]), child(h[2])>> \o @])
    BY <1>2 DEF SplitOrFail
  <2>2. h[1] \in SUBSET todo /\ h[2] \in SUBSET todo
    BY <2>1 DEF Halves, WorkersOver, BatchesOver
  <2>3. child(h[1]) \in BatchesOver(todo) /\ child(h[2]) \in BatchesOver(todo)
    BY <2>2 DEF WorkersOver, BatchesOver
  <2>4. s.stack \in Seq(BatchesOver(todo))
    BY DEF WorkersOver
  <2>5. <<child(h[1]), child(h[2])>> \in Seq(BatchesOver(todo))
    BY <2>3
  <2>6. <<child(h[1]), child(h[2])>> \o s.stack \in Seq(BatchesOver(todo))
    BY <2>4, <2>5, ConcatProperties
  <2>7. [s EXCEPT !.pc = "next", !.stack = <<child(h[1]), child(h[2])>> \o @]
            \in WorkersOver(todo)
    BY <2>6 DEF WorkersOver, WorkerPCs
  <2>8. QED
    BY <2>1, <2>7, ByRecord DEF Outcomes
<1>3. QED
  BY <1>1, <1>2

------------------------------------------------------------------------------
(* Every step of a thread records an outcome.                                *)

LEMMA WorkerType ==
    ASSUME Shape, NEW w \in Workers
    PROVE  /\ worker[w] \in WorkersOver(todo)
           /\ Counted(worker[w]) \in WorkersOver(todo)
           /\ Received(worker[w]) \in WorkersOver(todo)
<1>1. worker[w] \in WorkersOver(todo)
  BY DEF Shape
<1>2. Counted(worker[w]) \in WorkersOver(todo)
  BY <1>1 DEF Counted, WorkersOver
<1>3. QED
  BY <1>1, <1>2 DEF Received, WorkersOver

LEMMA TakeFileRecords ==
    ASSUME Shape, NEW w \in Workers, TakeFile(w)
    PROVE  Recording(w) /\ Kept
<1>1. PICK f \in queue :
          /\ queue' = queue \ {f}
          /\ RecordOr(w, mem, TRUE,
                 [worker[w] EXCEPT !.pc = "next", !.file = f,
                     !.rest = {u \in UnitsOf[f] \cap todo : mem.state[u] # "succeeded"}],
                 "dead")
  BY DEF TakeFile
<1>2. f \in Files
  BY <1>1 DEF Shape
<1>3. [worker[w] EXCEPT !.pc = "next", !.file = f,
           !.rest = {u \in UnitsOf[f] \cap todo : mem.state[u] # "succeeded"}]
          \in WorkersOver(todo)
  BY <1>2, WorkerType DEF WorkersOver, WorkerPCs
<1>4. Kept
  BY <1>1 DEF TakeFile, Kept, Shape
<1>5. QED
  BY <1>1, <1>3, <1>4 DEF Recording, Outcomes

LEMMA NextBatchRecords ==
    ASSUME Shape, NEW w \in Workers, NextBatch(w)
    PROVE  Recording(w) /\ Kept
<1> DEFINE s == worker[w]
<1>1. s \in WorkersOver(todo) /\ MaxSplits \in 0..MaxSplits /\ 0 \in 0..MaxRetries
  BY WorkerType, BoundsAreNat DEF BoundsAreNat
<1>2. ASSUME NEW r \in WorkersOver(todo), NEW b \in BatchesOver(todo)
      PROVE  Begun(r, b) \in WorkersOver(todo)
  BY <1>1 DEF Begun, WorkersOver, WorkerPCs
<1>3. mem \in Outcomes
  BY DEF Outcomes
<1>4. ASSUME s.stack # <<>>,
             Record(w, mem, TRUE, Begun([s EXCEPT !.stack = Tail(@)], Head(s.stack)))
      PROVE  Recording(w)
  <2>1. s.stack \in Seq(BatchesOver(todo))
    BY <1>1 DEF WorkersOver
  <2>2. Head(s.stack) \in BatchesOver(todo) /\ Tail(s.stack) \in Seq(BatchesOver(todo))
    BY <1>4, <2>1, HeadTailProperties
  <2>3. [s EXCEPT !.stack = Tail(@)] \in WorkersOver(todo)
    BY <1>1, <2>2 DEF WorkersOver
  <2>4. QED
    BY <1>2, <1>3, <1>4, <2>2, <2>3, ByRecord
<1>5. ASSUME NEW us \in (SUBSET s.rest) \ {{}},
             Record(w, mem, TRUE, Begun([s EXCEPT !.rest = @ \ us],
                                        [us |-> us, qa |-> FALSE, splits |-> MaxSplits]))
      PROVE  Recording(w)
  <2>1. [us |-> us, qa |-> FALSE, splits |-> MaxSplits] \in BatchesOver(todo)
    BY <1>1 DEF WorkersOver, BatchesOver
  <2>2. [s EXCEPT !.rest = @ \ us] \in WorkersOver(todo)
    BY <1>1 DEF WorkersOver
  <2>3. QED
    BY <1>2, <1>3, <1>5, <2>1, <2>2, ByRecord
<1>6. Kept
  BY DEF NextBatch, Kept, Shape
<1>7. QED
  BY <1>4, <1>5, <1>6 DEF NextBatch

LEMMA TooLargeRecords ==
    ASSUME Shape, NEW w \in Workers, TooLarge(w)
    PROVE  Recording(w) /\ Kept
<1> DEFINE s == worker[w]
<1>1. PICK u \in s.rest : Record(w, WithFailed(mem, {u}), TRUE, [s EXCEPT !.rest = @ \ {u}])
  BY DEF TooLarge
<1>2. {u} \in SUBSET todo
  BY <1>1, WorkerType DEF WorkersOver
<1>3. [s EXCEPT !.rest = @ \ {u}] \in WorkersOver(todo)
  BY WorkerType DEF WorkersOver
<1>4. WithFailed(mem, {u}) \in Outcomes
  BY <1>2 DEF Outcomes
<1>5. QED
  BY <1>1, <1>3, <1>4, ByRecord DEF TooLarge, Kept, Shape

LEMMA CompleteFileRecords ==
    ASSUME Shape, NEW w \in Workers, CompleteFile(w)
    PROVE  Recording(w) /\ Kept
<1>1. NoBatch \in BatchesOver(todo)
  BY BoundsAreNat DEF NoBatch, BatchesOver, BoundsAreNat
<1>2. [worker[w] EXCEPT !.pc = "idle", !.file = NoFile, !.batch = NoBatch] \in WorkersOver(todo)
  BY <1>1, WorkerType DEF WorkersOver, WorkerPCs
<1>3. QED
  BY <1>2 DEF CompleteFile, Recording, Outcomes, Kept, Shape

LEMMA SendRecords ==
    ASSUME Shape, NEW w \in Workers, Send(w)
    PROVE  Recording(w) /\ Kept
<1> DEFINE s == worker[w]
<1>1. s \in WorkersOver(todo)
  BY WorkerType
<1>2. ASSUME OverBudget(w, s) PROVE Recording(w)
  BY <1>1, <1>2, ByOverBudget
<1>3. ASSUME Record(w, mem, FALSE, [s EXCEPT !.pc = "wait", !.sent = @ + 1])
      PROVE  Recording(w)
  <2>1. s.sent + 1 \in Nat
    BY <1>1 DEF WorkersOver
  <2>2. [s EXCEPT !.pc = "wait", !.sent = @ + 1] \in WorkersOver(todo)
    BY <1>1, <2>1 DEF WorkersOver, WorkerPCs
  <2>3. QED
    BY <1>3, <2>2, ByRecord DEF Outcomes
<1>4. QED
  BY <1>2, <1>3 DEF Send, Kept, Shape

LEMMA TransientRecords ==
    ASSUME Shape, NEW w \in Workers, Transient(w)
    PROVE  Recording(w) /\ Kept
<1> DEFINE s == Counted(worker[w])
<1>1. s \in WorkersOver(todo)
  BY WorkerType
<1>2. ASSUME s.attempt < MaxRetries,
             Record(w, mem, TRUE, [s EXCEPT !.pc = "send", !.attempt = @ + 1])
      PROVE  Recording(w)
  <2>1. s.attempt + 1 \in 0..MaxRetries
    BY <1>1, <1>2, BoundsAreNat DEF WorkersOver, BoundsAreNat
  <2>2. [s EXCEPT !.pc = "send", !.attempt = @ + 1] \in WorkersOver(todo)
    BY <1>1, <2>1 DEF WorkersOver, WorkerPCs
  <2>3. QED
    BY <1>2, <2>2, ByRecord DEF Outcomes
<1>3. ASSUME FailAll(w, s) PROVE Recording(w)
  BY <1>1, <1>3, ByFailAll
<1>4. ASSUME s.batch.splits > 0, SplitOrFail(w, s, s.batch.splits - 1)
      PROVE  Recording(w)
  <2>1. s.batch.splits - 1 \in 0..MaxSplits
    BY <1>1, <1>4, BoundsAreNat DEF WorkersOver, BatchesOver, BoundsAreNat
  <2>2. QED
    BY <1>1, <1>4, <2>1, BySplitOrFail
<1>5. QED
  BY <1>2, <1>3, <1>4 DEF Transient, Kept, Shape

LEMMA PermanentRecords ==
    ASSUME Shape, NEW w \in Workers, Permanent(w)
    PROVE  Recording(w) /\ Kept
<1> DEFINE s == Counted(worker[w])
<1>1. s \in WorkersOver(todo) /\ MaxSplits \in 0..MaxSplits
  BY WorkerType, BoundsAreNat DEF BoundsAreNat
<1>2. FailAll(w, s) \/ SplitOrFail(w, s, MaxSplits)
  BY DEF Permanent
<1>3. Recording(w)
  BY <1>1, <1>2, ByFailAll, BySplitOrFail
<1>4. QED
  BY <1>3 DEF Permanent, Kept, Shape

LEMMA MalformedRecords ==
    ASSUME Shape, NEW w \in Workers, Malformed(w)
    PROVE  Recording(w) /\ Kept
<1> DEFINE s == Received(worker[w])
<1>1. s \in WorkersOver(todo) /\ MaxSplits \in 0..MaxSplits
  BY WorkerType, BoundsAreNat DEF BoundsAreNat
<1>2. ASSUME OverBudget(w, s) \/ SplitOrFail(w, s, MaxSplits) PROVE Recording(w)
  BY <1>1, <1>2, ByOverBudget, BySplitOrFail
<1>3. ASSUME Record(w, mem, TRUE, [s EXCEPT !.pc = "send", !.repaired = TRUE])
      PROVE  Recording(w)
  <2>1. [s EXCEPT !.pc = "send", !.repaired = TRUE] \in WorkersOver(todo)
    BY <1>1 DEF WorkersOver, WorkerPCs
  <2>2. QED
    BY <1>3, <2>1, ByRecord DEF Outcomes
<1>4. QED
  BY <1>2, <1>3 DEF Malformed, Kept, Shape

LEMMA ParsedRecords ==
    ASSUME Shape, NEW w \in Workers, Parsed(w)
    PROVE  Recording(w) /\ Kept
<1> DEFINE s == Received(worker[w])
<1>1. s \in WorkersOver(todo)
  BY WorkerType
<1>2. PICK bad \in SUBSET s.batch.us :
          Record(w, mem, FALSE, [s EXCEPT !.pc = "record", !.good = s.batch.us \ bad, !.bad = bad])
  BY DEF Parsed
<1>3. s.batch.us \in SUBSET todo
  BY <1>1 DEF WorkersOver, BatchesOver
<1>4. [s EXCEPT !.pc = "record", !.good = s.batch.us \ bad, !.bad = bad] \in WorkersOver(todo)
  BY <1>1, <1>3 DEF WorkersOver, WorkerPCs
<1>5. QED
  BY <1>2, <1>4, ByRecord DEF Outcomes, Parsed, Kept, Shape

LEMMA AcceptRecords ==
    ASSUME Shape, NEW w \in Workers, Accept(w)
    PROVE  Recording(w) /\ Kept
<1> DEFINE s == worker[w]
<1>1. s \in WorkersOver(todo)
  BY WorkerType
<1>2. ASSUME Record(w, mem, FALSE, [s EXCEPT !.pc = "close"]) PROVE Recording(w)
  <2>1. [s EXCEPT !.pc = "close"] \in WorkersOver(todo)
    BY <1>1 DEF WorkersOver, WorkerPCs
  <2>2. QED
    BY <1>2, <2>1, ByRecord DEF Outcomes
<1>3. ASSUME NEW u \in s.good,
             Record(w, WithSucceeded(mem, {u}), FALSE, [s EXCEPT !.good = @ \ {u}])
      PROVE  Recording(w)
  <2>1. [s EXCEPT !.good = @ \ {u}] \in WorkersOver(todo)
    BY <1>1 DEF WorkersOver
  <2>2. {u} \in SUBSET todo
    BY <1>1 DEF WorkersOver
  <2>3. QED
    BY <1>3, <2>1, <2>2, ByRecord DEF Outcomes
<1>4. QED
  BY <1>2, <1>3 DEF Accept, Kept, Shape

LEMMA CloseRecords ==
    ASSUME Shape, NEW w \in Workers, Close(w)
    PROVE  Recording(w) /\ Kept
<1> DEFINE s == worker[w]
           next == [s EXCEPT !.pc = "next", !.bad = {}]
           retry == [us |-> Retried(s), qa |-> TRUE, splits |-> MaxSplits]
<1>1. s \in WorkersOver(todo) /\ s.bad \in SUBSET todo /\ s.stack \in Seq(BatchesOver(todo))
  BY WorkerType DEF WorkersOver
<1>2. next \in WorkersOver(todo)
  BY <1>1 DEF WorkersOver, WorkerPCs
<1>3. mem \in Outcomes /\ WithFailed(mem, s.bad) \in Outcomes
  BY <1>1 DEF Outcomes
<1>4. ASSUME Record(w, mem, TRUE, next) \/ Record(w, WithFailed(mem, s.bad), TRUE, next)
      PROVE  Recording(w)
  BY <1>2, <1>3, <1>4, ByRecord
<1>5. ASSUME Record(w, mem, TRUE, [next EXCEPT !.stack = <<retry>> \o @])
      PROVE  Recording(w)
  <2>1. retry \in BatchesOver(todo)
    BY <1>1, BoundsAreNat DEF Retried, BatchesOver, BoundsAreNat
  <2>2. <<retry>> \in Seq(BatchesOver(todo))
    BY <2>1
  <2>3. <<retry>> \o s.stack \in Seq(BatchesOver(todo))
    BY <1>1, <2>2, ConcatProperties
  <2>4. [next EXCEPT !.stack = <<retry>> \o @] \in WorkersOver(todo)
    BY <1>1, <2>3 DEF WorkersOver, WorkerPCs
  <2>5. QED
    BY <1>3, <1>5, <2>4, ByRecord
<1>6. QED
  BY <1>4, <1>5 DEF Close, Kept, Shape

LEMMA FailResourceRecords ==
    ASSUME Shape, NEW w \in Workers, FailResource(w)
    PROVE  Recording(w) /\ Kept
<1>1. [worker[w] EXCEPT !.pc = "dead"] \in WorkersOver(todo)
  BY WorkerType DEF WorkersOver, WorkerPCs
<1>2. QED
  BY <1>1 DEF FailResource, Recording, Outcomes, Kept, Shape

LEMMA WorkerStepRecords ==
    ASSUME Shape, NEW w \in Workers, WorkerStep(w)
    PROVE  Recording(w) /\ Kept
BY TakeFileRecords, NextBatchRecords, TooLargeRecords, CompleteFileRecords, SendRecords,
   TransientRecords, PermanentRecords, MalformedRecords, ParsedRecords, AcceptRecords,
   CloseRecords, FailResourceRecords DEF WorkerStep, Answer

------------------------------------------------------------------------------
(* Type correctness.                                                         *)

LEMMA RecordedFiles ==
    ASSUME Shape, NEW w \in Workers, NEW m \in Outcomes, NEW forced \in BOOLEAN,
           NEW next \in WorkersOver(todo), NEW raised \in {"broken", "dead"},
           RecordOr(w, m, forced, next, raised)
    PROVE  /\ mem' = m /\ disk' \in {disk, m} /\ (~dirty' => disk' = m)
           /\ dirty' \in BOOLEAN
           /\ faults' \in 0..MaxFaults /\ fails' \in 0..faults'
           /\ worker' \in [Workers -> WorkersOver(todo)]
<1>1. PICK o \in Flushes(m, forced) :
          /\ mem' = m
          /\ disk' = o.disk /\ fails' = o.fails /\ dirty' = o.dirty /\ faults' = o.faults
          /\ worker' = [worker EXCEPT ![w] =
                 IF o.faults > faults /\ o.fails >= Threshold
                 THEN [next EXCEPT !.pc = raised] ELSE next]
  BY DEF RecordOr
<1>2. faults \in 0..MaxFaults /\ fails \in 0..faults /\ dirty \in BOOLEAN /\ MaxFaults \in Nat
  BY BoundsAreNat DEF Shape, BoundsAreNat
<1>3. \/ o = [disk |-> m, fails |-> 0, dirty |-> FALSE, faults |-> faults]
      \/ o = [disk |-> disk, fails |-> fails, dirty |-> TRUE, faults |-> faults]
      \/ /\ faults < MaxFaults
         /\ o = [disk |-> disk, fails |-> fails + 1, dirty |-> TRUE, faults |-> faults + 1]
  BY <1>1 DEF Flushes, FlushFailed
<1>4. o.disk \in {disk, m} /\ o.dirty \in BOOLEAN
  <2>1. o.disk \in {disk, m}
    BY <1>3
  <2>2. o.dirty = FALSE \/ o.dirty = TRUE
    BY <1>3
  <2>3. QED
    BY <2>1, <2>2
<1>0. ~o.dirty => o.disk = m
  BY <1>3
<1>5. o.faults \in 0..MaxFaults /\ o.fails \in 0..o.faults
  BY <1>2, <1>3
<1>6. [next EXCEPT !.pc = raised] \in WorkersOver(todo)
  BY DEF WorkersOver, WorkerPCs
<1>7. worker' \in [Workers -> WorkersOver(todo)]
  BY <1>1, <1>6 DEF Shape
<1>8. QED
  BY <1>1, <1>4, <1>5, <1>7, <1>0

LEMMA RecordingShape ==
    ASSUME Shape, NEW w \in Workers, Recording(w), Kept
    PROVE  Shape'
<1>1. PICK m \in Outcomes, forced \in BOOLEAN, next \in WorkersOver(todo),
           raised \in {"broken", "dead"} : RecordOr(w, m, forced, next, raised)
  BY DEF Recording
<1>2. m \in Checkpoints
  BY OutcomeType
<1>3. mem' \in Checkpoints /\ disk' \in Checkpoints
  BY <1>1, <1>2, RecordedFiles DEF Shape
<1>4. /\ dirty' \in BOOLEAN /\ faults' \in 0..MaxFaults /\ fails' \in 0..faults'
      /\ worker' \in [Workers -> WorkersOver(todo')]
  BY <1>1, RecordedFiles DEF Kept
<1>5. phase' \in Phases /\ source' \in [Units -> 1..MaxVersion]
      /\ todo' \in SUBSET Units /\ queue' \in SUBSET Files
  BY DEF Kept, Shape
<1>6. QED
  BY <1>3, <1>4, <1>5 DEF Shape

LEMMA ConfiguredType ==
    ASSUME NEW c \in Checkpoints, NEW src \in [Units -> 1..MaxVersion], NEW D \in SUBSET Units
    PROVE  Configured(c, src, D) \in Checkpoints
<1> DEFINE stale == {u \in D : c.fp[u] # 0 /\ c.fp[u] # src[u] /\ c.state[u] = "succeeded"}
<1>1. src \in [Units -> Versions] /\ 0 \in Versions
  BY BoundsAreNat DEF Versions, BoundsAreNat
<1>2. [u \in Units |-> IF u \in stale THEN "stale_source" ELSE c.state[u]] \in [Units -> States]
  BY DEF Checkpoints, States
<1>3. [u \in Units |-> IF u \in stale THEN 0 ELSE c.trans[u]] \in [Units -> Versions]
  BY <1>1 DEF Checkpoints
<1>4. [u \in Units |-> IF u \in D THEN src[u] ELSE c.fp[u]] \in [Units -> Versions]
  BY <1>1 DEF Checkpoints
<1>5. QED
  BY <1>2, <1>3, <1>4 DEF Configured, Checkpoints

LEMMA InitShape == Init => Shape
<1> SUFFICES ASSUME Init PROVE Shape
  OBVIOUS
<1>1. 1 \in 1..MaxVersion /\ 0 \in 0..MaxFaults /\ {0, 1} \subseteq Versions
  BY BoundsAreNat DEF BoundsAreNat, Versions
<1>2. Fresh \in Checkpoints
  BY <1>1 DEF Fresh, Checkpoints, States
<1>3. ASSUME NEW c \in Old PROVE c \in Checkpoints
  <2>1. PICK D \in SUBSET Units :
            c = [Fresh EXCEPT !.state = [u \in Units |-> IF u \in D THEN "succeeded" ELSE "pending"],
                              !.trans = [u \in Units |-> IF u \in D THEN 1 ELSE 0]]
    BY DEF Old
  <2>2. [u \in Units |-> IF u \in D THEN "succeeded" ELSE "pending"] \in [Units -> States]
    BY DEF States
  <2>3. [u \in Units |-> IF u \in D THEN 1 ELSE 0] \in [Units -> Versions]
    BY <1>1
  <2>4. QED
    BY <1>2, <2>1, <2>2, <2>3 DEF Checkpoints
<1>4. disk \in Checkpoints /\ mem \in Checkpoints
  BY <1>2, <1>3 DEF Init
<1>5. worker \in [Workers -> WorkersOver(todo)]
  BY NewWorkerType DEF Init
<1>6. source \in [Units -> 1..MaxVersion] /\ dirty \in BOOLEAN /\ phase \in Phases
  BY <1>1 DEF Init, Phases
<1>7. todo \in SUBSET Units /\ queue \in SUBSET Files
  BY DEF Init
<1>8. faults \in 0..MaxFaults /\ fails \in 0..faults
  BY <1>1 DEF Init
<1>9. QED
  BY <1>4, <1>5, <1>6, <1>7, <1>8 DEF Shape

LEMMA ExecuteShape ==
    ASSUME Shape, Execute
    PROVE  Shape'
<1>1. PICK src \in [Units -> 1..MaxVersion], D \in (SUBSET Units) \ {{}}, flushed \in BOOLEAN :
          /\ source' = src /\ todo' = D
          /\ mem' = Configured(disk, src, D)
          /\ disk' = (IF flushed THEN mem' ELSE disk)
          /\ dirty' = ~flushed
          /\ fails' = (IF flushed THEN 0 ELSE 1)
          /\ faults' = faults + (IF phase = "collected" THEN 1 ELSE 0) + fails'
          /\ faults' <= MaxFaults
          /\ queue' = {f \in Files : UnitsOf[f] \cap D # {}}
  BY DEF Execute
<1>2. mem' \in Checkpoints /\ disk' \in Checkpoints
  BY <1>1, ConfiguredType DEF Shape
<1>3. faults' \in 0..MaxFaults /\ fails' \in 0..faults'
  BY <1>1, BoundsAreNat DEF Shape, BoundsAreNat
<1>4. worker' \in [Workers -> WorkersOver(todo')]
  BY NewWorkerType DEF Execute
<1>5. phase' \in Phases /\ dirty' \in BOOLEAN /\ queue' \in SUBSET Files
      /\ source' \in [Units -> 1..MaxVersion] /\ todo' \in SUBSET Units
  BY <1>1 DEF Execute, Phases
<1>6. QED
  BY <1>2, <1>3, <1>4, <1>5 DEF Shape

LEMMA BreakShape ==
    ASSUME Shape, NEW w \in Workers, Break(w)
    PROVE  Shape'
<1>1. worker' \in [Workers -> WorkersOver(todo')]
  <2>1. [worker[w] EXCEPT !.pc = "broken"] \in WorkersOver(todo)
    BY WorkerType DEF WorkersOver, WorkerPCs
  <2>2. worker' = [worker EXCEPT ![w] = [worker[w] EXCEPT !.pc = "broken"]] /\ todo' = todo
    BY DEF Break
  <2>3. QED
    BY <2>1, <2>2 DEF Shape
<1>2. faults' \in 0..MaxFaults /\ fails' \in 0..faults'
  BY BoundsAreNat DEF Break, Shape, BoundsAreNat
<1>3. QED
  BY <1>1, <1>2 DEF Break, Shape

LEMMA CollectFiles ==
    ASSUME Shape, Collect
    PROVE  /\ disk' \in {disk, mem} /\ dirty' \in BOOLEAN
           /\ faults' \in 0..MaxFaults /\ fails' \in 0..faults'
<1>1. CASE UNCHANGED <<disk, dirty, fails, faults>>
  BY <1>1 DEF Shape
<1>2. ASSUME NEW o \in Flushes(mem, TRUE),
             disk' = o.disk /\ fails' = o.fails /\ dirty' = o.dirty /\ faults' = o.faults
      PROVE  /\ disk' \in {disk, mem} /\ dirty' \in BOOLEAN
             /\ faults' \in 0..MaxFaults /\ fails' \in 0..faults'
  <2>1. \/ o = [disk |-> mem, fails |-> 0, dirty |-> FALSE, faults |-> faults]
        \/ /\ faults < MaxFaults
           /\ o = [disk |-> disk, fails |-> fails + 1, dirty |-> TRUE, faults |-> faults + 1]
    BY DEF Flushes, FlushFailed
  <2>2. o.disk \in {disk, mem} /\ o.dirty \in BOOLEAN
    <3>1. o.disk \in {disk, mem}
      BY <2>1
    <3>2. o.dirty = FALSE \/ o.dirty = TRUE
      BY <2>1
    <3>3. QED
      BY <3>1, <3>2
  <2>3. o.faults \in 0..MaxFaults /\ o.fails \in 0..o.faults
    BY <2>1, BoundsAreNat DEF Shape, BoundsAreNat
  <2>4. QED
    BY <1>2, <2>2, <2>3
<1>3. QED
  BY <1>1, <1>2 DEF Collect

LEMMA CollectShape ==
    ASSUME Shape, Collect
    PROVE  Shape'
<1>1. disk' \in Checkpoints /\ dirty' \in BOOLEAN
      /\ faults' \in 0..MaxFaults /\ fails' \in 0..faults'
  BY CollectFiles DEF Shape
<1>2. phase' \in Phases
  BY DEF Collect, Phases
<1>3. QED
  BY <1>1, <1>2 DEF Collect, Shape

LEMMA KillShape ==
    ASSUME Shape, Kill
    PROVE  Shape'
<1>1. faults' \in 0..MaxFaults /\ fails' \in 0..faults' /\ phase' \in Phases
  BY BoundsAreNat DEF Kill, Shape, Phases, BoundsAreNat
<1>2. QED
  BY <1>1 DEF Kill, Shape

LEMMA ShapeInductive == Shape /\ [Next]_vars => Shape'
<1> SUFFICES ASSUME Shape, [Next]_vars PROVE Shape'
  OBVIOUS
<1>1. CASE Execute
  BY <1>1, ExecuteShape
<1>2. ASSUME NEW w \in Workers, WorkerStep(w) PROVE Shape'
  BY <1>2, WorkerStepRecords, RecordingShape
<1>3. ASSUME NEW w \in Workers, Break(w) PROVE Shape'
  BY <1>3, BreakShape
<1>4. CASE Collect
  BY <1>4, CollectShape
<1>5. CASE Kill
  BY <1>5, KillShape
<1>6. CASE UNCHANGED vars
  BY <1>6 DEF vars, Shape
<1>7. QED
  BY <1>1, <1>2, <1>3, <1>4, <1>5, <1>6 DEF Next

LEMMA ShapeIsTypeOK == Shape => TypeOK
<1> SUFFICES ASSUME Shape PROVE TypeOK
  OBVIOUS
<1>1. \A b : b \in BatchesOver(todo) => b \in Batches
  BY DEF Shape, BatchesOver, Batches
<1>2. \A q : q \in Seq(BatchesOver(todo)) => q \in Seq(Batches)
  BY <1>1
<1>3. ASSUME NEW s \in WorkersOver(todo) PROVE s \in WorkerStates
  BY <1>1, <1>2 DEF Shape, WorkersOver, WorkerStates
<1>4. worker \in [Workers -> WorkerStates]
  BY <1>3 DEF Shape
<1>5. fails \in 0..MaxFaults
  BY BoundsAreNat DEF Shape, BoundsAreNat
<1>6. QED
  BY <1>4, <1>5 DEF Shape, TypeOK

\* Every reachable state of the phase is well typed, whatever the provider
\* answers and wherever the execution is killed.
THEOREM TypeCorrect == Spec => []TypeOK
BY InitShape, ShapeInductive, ShapeIsTypeOK, PTL DEF Spec

------------------------------------------------------------------------------
(* What is recorded is a translation of the recorded source.                 *)

Exact(c) == \A u \in Units : c.state[u] = "succeeded" => c.trans[u] = c.fp[u] /\ c.fp[u] # 0

\* What holds when no execution begins with a checkpoint from before the fingerprints
\* were recorded: both images are exact, and the fingerprints in memory are those of
\* the sources of this execution. The last part is what makes the first inductive.
Faithful ==
    /\ Exact(mem) /\ Exact(disk)
    /\ phase # "killed" => \A u \in todo : mem.fp[u] = source[u]

LEMMA OutcomeExact ==
    ASSUME Shape, Faithful, phase # "killed", NEW m \in Outcomes
    PROVE  Exact(m)
<1>1. /\ mem \in Checkpoints /\ source \in [Units -> 1..MaxVersion] /\ todo \subseteq Units
      /\ MaxVersion \in Nat
  BY BoundsAreNat DEF Shape, BoundsAreNat
<1>2. ASSUME NEW U \in SUBSET todo PROVE Exact(WithFailed(mem, U))
  BY <1>1 DEF Faithful, Exact, WithFailed, Checkpoints
<1>3. ASSUME NEW U \in SUBSET todo PROVE Exact(WithSucceeded(mem, U))
  <2>1. \A u \in U : mem.fp[u] = source[u] /\ source[u] # 0
    BY <1>1 DEF Faithful
  <2>2. QED
    BY <1>1, <2>1 DEF Faithful, Exact, WithSucceeded, Checkpoints
<1>4. QED
  BY <1>2, <1>3 DEF Outcomes, Faithful

LEMMA ConfiguredExact ==
    ASSUME NEW c \in Checkpoints, Exact(c), NEW src \in [Units -> 1..MaxVersion],
           NEW D \in SUBSET Units
    PROVE  /\ Exact(Configured(c, src, D))
           /\ \A u \in D : Configured(c, src, D).fp[u] = src[u]
<1>1. MaxVersion \in Nat
  BY BoundsAreNat DEF BoundsAreNat
<1>2. QED
  BY <1>1 DEF Configured, Exact, Checkpoints

LEMMA RecordingFaithful ==
    ASSUME Shape, Faithful, phase # "killed", NEW w \in Workers, Recording(w), Kept
    PROVE  Faithful'
<1>1. PICK m \in Outcomes, forced \in BOOLEAN, next \in WorkersOver(todo),
           raised \in {"broken", "dead"} : RecordOr(w, m, forced, next, raised)
  BY DEF Recording
<1>2. mem' = m /\ disk' \in {disk, m}
  BY <1>1, RecordedFiles
<1>3. Exact(m) /\ m.fp = mem.fp
  BY OutcomeExact, OutcomeType
<1>4. Exact(mem') /\ Exact(disk')
  BY <1>2, <1>3 DEF Faithful
<1>5. \A u \in todo' : mem'.fp[u] = source'[u]
  BY <1>2, <1>3 DEF Faithful, Kept
<1>6. QED
  BY <1>4, <1>5 DEF Faithful, Exact

LEMMA ExecuteFaithful ==
    ASSUME Shape, Faithful, Execute
    PROVE  Faithful'
<1>1. PICK src \in [Units -> 1..MaxVersion], D \in SUBSET Units, flushed \in BOOLEAN :
          /\ source' = src /\ todo' = D
          /\ mem' = Configured(disk, src, D)
          /\ disk' = (IF flushed THEN mem' ELSE disk)
  BY DEF Execute
<1>2. disk \in Checkpoints
  BY DEF Shape
<1>3. Exact(mem') /\ \A u \in todo' : mem'.fp[u] = source'[u]
  BY <1>1, <1>2, ConfiguredExact DEF Faithful
<1>4. Exact(disk')
  BY <1>1, <1>3 DEF Faithful
<1>5. QED
  BY <1>3, <1>4 DEF Faithful, Exact

LEMMA FaithfulInductive == Shape /\ Faithful /\ [Next]_vars => Faithful'
<1> SUFFICES ASSUME Shape, Faithful, [Next]_vars PROVE Faithful'
  OBVIOUS
<1>1. CASE Execute
  BY <1>1, ExecuteFaithful
<1>2. ASSUME NEW w \in Workers, WorkerStep(w) PROVE Faithful'
  <2>1. phase # "killed"
    BY <1>2 DEF WorkerStep, TakeFile, NextBatch, TooLarge, CompleteFile, Send, Answer, Transient,
                Permanent, Malformed, Parsed, Accept, Close, FailResource
  <2>2. QED
    BY <1>2, <2>1, WorkerStepRecords, RecordingFaithful
<1>3. ASSUME NEW w \in Workers, Break(w) PROVE Faithful'
  BY <1>3 DEF Break, Faithful, Exact
<1>4. CASE Collect
  <2>1. disk' \in {disk, mem} /\ UNCHANGED <<mem, source, todo>> /\ phase # "killed"
    BY <1>4, CollectFiles DEF Collect
  <2>2. QED
    BY <2>1 DEF Faithful, Exact
<1>5. CASE Kill
  BY <1>5 DEF Kill, Faithful, Exact
<1>6. CASE UNCHANGED vars
  BY <1>6 DEF vars, Faithful, Exact
<1>7. QED
  BY <1>1, <1>2, <1>3, <1>4, <1>5, <1>6 DEF Next

LEMMA InitFaithful == Init /\ ~Legacy => Faithful
BY DEF Init, Faithful, Exact, Fresh

LEMMA FaithfulIsCurrent == Shape /\ Faithful => TranslatesCurrent /\ RebuildIsExact
BY DEF Shape, Faithful, Exact, TranslatesCurrent, RebuildIsExact

\* As long as no execution begins with a checkpoint that recorded no fingerprints, what
\* an execution uses translates the current source, and what a rebuild takes over
\* is what its fingerprint says, through any kills, resumes and source changes.
THEOREM Currency ==
    ASSUME ~Legacy
    PROVE  Spec => [](TranslatesCurrent /\ RebuildIsExact)
<1>1. Init => Shape /\ Faithful
  BY InitShape, InitFaithful
<1>2. Shape /\ Faithful /\ [Next]_vars => (Shape /\ Faithful)'
  BY ShapeInductive, FaithfulInductive
<1>3. QED
  BY <1>1, <1>2, FaithfulIsCurrent, PTL DEF Spec

------------------------------------------------------------------------------
LEMMA CleanInductive == Shape /\ CleanIsWritten /\ [Next]_vars => CleanIsWritten'
<1> SUFFICES ASSUME Shape, CleanIsWritten, [Next]_vars PROVE CleanIsWritten'
  OBVIOUS
<1>1. CASE Execute
  <2>1. PICK flushed \in BOOLEAN : /\ disk' = (IF flushed THEN mem' ELSE disk)
                                   /\ dirty' = ~flushed
    BY <1>1 DEF Execute
  <2>2. QED
    BY <2>1 DEF CleanIsWritten
<1>2. ASSUME NEW w \in Workers, WorkerStep(w) PROVE CleanIsWritten'
  <2>1. PICK m \in Outcomes, forced \in BOOLEAN, next \in WorkersOver(todo),
             raised \in {"broken", "dead"} : RecordOr(w, m, forced, next, raised)
    BY <1>2, WorkerStepRecords DEF Recording
  <2>2. QED
    BY <2>1, RecordedFiles DEF CleanIsWritten
<1>3. ASSUME NEW w \in Workers, Break(w) PROVE CleanIsWritten'
  BY <1>3 DEF Break, CleanIsWritten
<1>4. CASE Collect
  <2>1. phase # "killed" /\ mem' = mem
    BY <1>4 DEF Collect
  <2>2. CASE UNCHANGED <<disk, dirty, fails, faults>>
    BY <2>1, <2>2 DEF CleanIsWritten
  <2>3. ASSUME NEW o \in Flushes(mem, TRUE), disk' = o.disk /\ dirty' = o.dirty
        PROVE  CleanIsWritten'
    <3>1. ~o.dirty => o.disk = mem
      BY DEF Flushes, FlushFailed
    <3>2. QED
      BY <2>1, <2>3, <3>1 DEF CleanIsWritten
  <2>4. QED
    BY <1>4, <2>2, <2>3 DEF Collect
<1>5. CASE Kill
  BY <1>5 DEF Kill, CleanIsWritten
<1>6. CASE UNCHANGED vars
  BY <1>6 DEF vars, CleanIsWritten
<1>7. QED
  BY <1>1, <1>2, <1>3, <1>4, <1>5, <1>6 DEF Next

\* Whatever flush fails or is merged, what is not marked as pending is on disk.
THEOREM Written == Spec => []CleanIsWritten
<1>1. Init => CleanIsWritten
  BY DEF Init, CleanIsWritten
<1>2. Shape /\ CleanIsWritten /\ [Next]_vars => (Shape /\ CleanIsWritten)'
  BY ShapeInductive, CleanInductive
<1>3. QED
  BY <1>1, <1>2, InitShape, PTL DEF Spec

------------------------------------------------------------------------------
(* Units in the hands of the threads. A unit without a result lies in a file  *)
(* of the queue or in one place of one thread: the rest of its file, a batch  *)
(* left by a split, or the batch it is working on.                            *)

Live(s) == s.pc \notin {"broken", "dead"}

Done == {"succeeded", "failed"}

\* What is left to decide of the batch a thread works on.
InHand(s) ==
    IF s.pc \in {"send", "wait"} THEN s.batch.us
    ELSE IF s.pc = "record" THEN s.good \cup s.bad
    ELSE IF s.pc = "close" THEN s.bad ELSE {}

Loaded(q) == {u \in Units : \E i \in 1..Len(q) : u \in q[i].us}

Separate(q) == \A i, j \in 1..Len(q) : i # j => q[i].us \cap q[j].us = {}

Pile(s) == s.rest \cup InHand(s) \cup Loaded(s.stack)

FileUnits(s) == IF s.file = NoFile THEN {} ELSE UnitsOf[s.file]

\* No unit is in two places of a thread, and all of them are of its file.
Dealt(s) ==
    /\ Separate(s.stack)
    /\ s.rest \cap Loaded(s.stack) = {}
    /\ InHand(s) \cap (s.rest \cup Loaded(s.stack)) = {}
    /\ s.pc = "record" => s.good \cap s.bad = {} /\ s.good \subseteq s.batch.us
    /\ Pile(s) \subseteq FileUnits(s)
    /\ s.pc = "idle" => s.file = NoFile

\* A thread that goes on has only units to do that have no translation.
Ready(s) == Live(s) => Dealt(s) /\ \A u \in Pile(s) : mem.state[u] # "succeeded"

FilesApart ==
    /\ \A w, v \in Workers : w # v /\ worker[w].file = worker[v].file => worker[w].file = NoFile
    /\ \A w \in Workers : worker[w].file \notin queue

Placed(u) ==
    \/ mem.state[u] \in Done
    \/ \E f \in queue : u \in UnitsOf[f]
    \/ \E w \in Workers : ~Live(worker[w]) \/ u \in Pile(worker[w])

Dealing ==
    phase = "translating" =>
        /\ \A w \in Workers : Ready(worker[w])
        /\ FilesApart
        /\ \A u \in todo : Placed(u)

\* What a step of a thread makes of its units: it records m and goes on as next. What
\* it puts away has a result, what it keeps has no translation, and only what it
\* held is translated; a write that may be merged leaves a batch open.
DealsOut(s, m, forced, next) ==
    /\ Live(next) /\ Dealt(next)
    /\ next.file \in {s.file, NoFile} /\ Pile(next) \subseteq Pile(s)
    /\ \A u \in Pile(s) : u \notin Pile(next) => m.state[u] \in Done
    /\ \A u \in Pile(next) : m.state[u] # "succeeded"
    /\ \A u \in Units : mem.state[u] \in Done => m.state[u] \in Done
    /\ \A u \in Units : mem.state[u] = "succeeded" => m.state[u] = "succeeded"
    /\ \A u \in Units : m.state[u] = "succeeded" /\ mem.state[u] # "succeeded" =>
           s.pc = "record" /\ u \in Pile(s) /\ u \in s.batch.us
    /\ ~forced /\ s.pc \in {"record", "close"} =>
           next.pc \in {"record", "close"} /\ next.batch = s.batch

Deals(w, s) ==
    \E m \in Outcomes, forced \in BOOLEAN, next \in WorkersOver(todo),
       raised \in {"broken", "dead"} :
        RecordOr(w, m, forced, next, raised) /\ DealsOut(s, m, forced, next)

------------------------------------------------------------------------------
LEMMA FilesOfUnits ==
    /\ NoFile \notin Files
    /\ UnitsOf \in [Files -> SUBSET Units]
    /\ \A f, g \in Files : f # g => UnitsOf[f] \cap UnitsOf[g] = {}
    /\ \A u \in Units : \E f \in Files : u \in UnitsOf[f]
BY FilesHaveUnits DEF FilesHaveUnits

LEMMA LoadedNone == Loaded(<<>>) = {} /\ Separate(<<>>)
<1>1. 1..Len(<<>>) = {}
  BY DEF Loaded
<1>2. QED
  BY <1>1 DEF Loaded, Separate

LEMMA Pushed ==
    ASSUME Shape, NEW q \in Seq(BatchesOver(todo)), NEW b \in BatchesOver(todo)
    PROVE  /\ Loaded(<<b>> \o q) = b.us \cup Loaded(q)
           /\ Separate(q) /\ b.us \cap Loaded(q) = {} => Separate(<<b>> \o q)
<1> DEFINE p == <<b>> \o q
<1>1. <<b>> \in Seq(BatchesOver(todo)) /\ Len(<<b>>) = 1 /\ <<b>>[1] = b
  OBVIOUS
<1>2. /\ Len(q) \in Nat /\ Len(p) = Len(q) + 1 /\ p[1] = b
      /\ \A i \in 2..Len(p) : p[i] = q[i - 1]
  BY <1>1, ConcatProperties, LenProperties
<1>3. b.us \in SUBSET Units /\ \A i \in 1..Len(q) : q[i].us \in SUBSET Units
  <2>1. \A i \in 1..Len(q) : q[i] \in BatchesOver(todo)
    BY ElementOfSeq
  <2>2. QED
    BY <2>1 DEF BatchesOver, Shape
<1> HIDE DEF p
<1>4. \A i \in 1..Len(q) : i + 1 \in 2..Len(p) /\ i + 1 \in 1..Len(p) /\ p[i + 1] = q[i]
  BY <1>2
<1>5. \A i \in 1..Len(p) : i = 1 \/ (i - 1 \in 1..Len(q) /\ p[i] = q[i - 1])
  BY <1>2
<1>6. 1 \in 1..Len(p)
  BY <1>2
<1>7. \A u : u \in Loaded(p) <=> u \in b.us \cup Loaded(q)
  <2>1. ASSUME NEW u \in Loaded(p) PROVE u \in b.us \cup Loaded(q)
    BY <1>2, <1>5 DEF Loaded
  <2>2. ASSUME NEW u \in b.us PROVE u \in Loaded(p)
    BY <1>2, <1>3, <1>6 DEF Loaded
  <2>3. ASSUME NEW u \in Loaded(q) PROVE u \in Loaded(p)
    <3>1. PICK i \in 1..Len(q) : u \in q[i].us
      BY DEF Loaded
    <3>2. u \in p[i + 1].us /\ i + 1 \in 1..Len(p)
      BY <1>4, <3>1
    <3>3. QED
      BY <3>2, <2>3 DEF Loaded
  <2>4. QED
    BY <2>1, <2>2, <2>3
<1>8. ASSUME Separate(q), b.us \cap Loaded(q) = {} PROVE Separate(p)
  <2>1. \A i \in 1..Len(q) : b.us \cap q[i].us = {}
    BY <1>3, <1>8 DEF Loaded
  <2>2. SUFFICES ASSUME NEW i \in 1..Len(p), NEW j \in 1..Len(p), i # j
                 PROVE  p[i].us \cap p[j].us = {}
    BY DEF Separate
  <2>3. CASE i = 1
    BY <1>2, <1>5, <2>1, <2>2, <2>3
  <2>4. CASE j = 1
    BY <1>2, <1>5, <2>1, <2>2, <2>4
  <2>5. CASE i # 1 /\ j # 1
    <3>1. i - 1 \in 1..Len(q) /\ j - 1 \in 1..Len(q) /\ i - 1 # j - 1
          /\ p[i] = q[i - 1] /\ p[j] = q[j - 1]
      BY <1>2, <1>5, <2>2, <2>5
    <3>2. q[i - 1].us \cap q[j - 1].us = {}
      BY <1>8, <3>1 DEF Separate
    <3>3. QED
      BY <3>1, <3>2
  <2>6. QED
    BY <2>3, <2>4, <2>5
<1>9. QED
  BY <1>7, <1>8 DEF p

LEMMA Popped ==
    ASSUME Shape, NEW q \in Seq(BatchesOver(todo)), q # <<>>, Separate(q)
    PROVE  /\ Loaded(q) = Head(q).us \cup Loaded(Tail(q))
           /\ Head(q).us \cap Loaded(Tail(q)) = {}
           /\ Separate(Tail(q))
<1> DEFINE t == Tail(q)
<1>1. /\ Len(q) \in Nat /\ Len(q) >= 1 /\ Head(q) = q[1] /\ Len(t) = Len(q) - 1
      /\ \A i \in 1..Len(t) : t[i] = q[i + 1]
  BY HeadTailProperties, LenProperties, EmptySeq
<1>2. \A i \in 1..Len(q) : q[i].us \in SUBSET Units
  <2>1. \A i \in 1..Len(q) : q[i] \in BatchesOver(todo)
    BY ElementOfSeq
  <2>2. QED
    BY <2>1 DEF BatchesOver, Shape
<1> HIDE DEF t
<1>3. \A i \in 1..Len(t) : i + 1 \in 1..Len(q) /\ i + 1 # 1
  BY <1>1
<1>4. \A i \in 1..Len(q) : i = 1 \/ (i - 1 \in 1..Len(t) /\ t[i - 1] = q[i])
  BY <1>1
<1>5. 1 \in 1..Len(q)
  BY <1>1
<1>6. \A u : u \in Loaded(q) <=> u \in q[1].us \cup Loaded(t)
  <2>1. ASSUME NEW u \in Loaded(q) PROVE u \in q[1].us \cup Loaded(t)
    BY <1>4 DEF Loaded
  <2>2. ASSUME NEW u \in q[1].us PROVE u \in Loaded(q)
    BY <1>2, <1>5 DEF Loaded
  <2>3. ASSUME NEW u \in Loaded(t) PROVE u \in Loaded(q)
    BY <1>1, <1>3 DEF Loaded
  <2>4. QED
    BY <2>1, <2>2, <2>3
<1>7. q[1].us \cap Loaded(t) = {}
  <2>1. \A i \in 1..Len(t) : q[1].us \cap q[i + 1].us = {}
    BY <1>3, <1>5 DEF Separate
  <2>2. QED
    BY <1>1, <2>1 DEF Loaded
<1>8. Separate(t)
  <2>1. SUFFICES ASSUME NEW i \in 1..Len(t), NEW j \in 1..Len(t), i # j
                 PROVE  t[i].us \cap t[j].us = {}
    BY DEF Separate
  <2>2. i + 1 # j + 1 /\ i + 1 \in 1..Len(q) /\ j + 1 \in 1..Len(q)
    BY <1>1, <1>3, <2>1
  <2>3. q[i + 1].us \cap q[j + 1].us = {}
    BY <2>2 DEF Separate
  <2>4. QED
    BY <1>1, <2>3
<1>9. QED
  BY <1>1, <1>6, <1>7, <1>8 DEF t

------------------------------------------------------------------------------
(* Every step of a thread deals out its units.                               *)

LEMMA ByDeal ==
    ASSUME NEW w \in Workers, NEW s, NEW m \in Outcomes, NEW forced \in BOOLEAN,
           NEW next \in WorkersOver(todo), Record(w, m, forced, next),
           DealsOut(s, m, forced, next)
    PROVE  Deals(w, s)
BY DEF Deals, Record

\* What a failed unit leaves of the successes.
LEMMA Failing ==
    ASSUME Shape, NEW U \in SUBSET todo, \A u \in U : mem.state[u] # "succeeded"
    PROVE  /\ WithFailed(mem, U) \in Outcomes
           /\ \A u \in U : WithFailed(mem, U).state[u] = "failed"
           /\ \A u \in Units \ U : WithFailed(mem, U).state[u] = mem.state[u]
           /\ \A u \in Units : WithFailed(mem, U).state[u] = "succeeded" <=> mem.state[u] = "succeeded"
           /\ \A u \in Units : mem.state[u] \in Done => WithFailed(mem, U).state[u] \in Done
<1>1. U \in SUBSET Units
  BY DEF Shape
<1>2. WithFailed(mem, U).state = [u \in Units |-> IF u \in U THEN "failed" ELSE mem.state[u]]
  BY DEF WithFailed, Shape, Checkpoints
<1>3. WithFailed(mem, U) \in Outcomes
  BY DEF Outcomes
<1>4. QED
  BY <1>1, <1>2, <1>3 DEF Done

\* A step that records nothing new.
LEMMA DealsTheSame ==
    ASSUME NEW s, NEW next, NEW forced \in BOOLEAN,
           Live(next), Dealt(next), next.file \in {s.file, NoFile}, Pile(next) = Pile(s),
           \A u \in Pile(s) : mem.state[u] # "succeeded",
           ~forced /\ s.pc \in {"record", "close"} =>
               next.pc \in {"record", "close"} /\ next.batch = s.batch
    PROVE  DealsOut(s, mem, forced, next)
BY DEF DealsOut

LEMMA FailAllDeals ==
    ASSUME Shape, NEW w \in Workers, NEW s \in WorkersOver(todo), Ready(s), s.pc = "wait",
           FailAll(w, s)
    PROVE  Deals(w, s)
<1> DEFINE m == WithFailed(mem, s.batch.us)
           next == [s EXCEPT !.pc = "next", !.bad = {}]
<1>1. Dealt(s) /\ (\A u \in Pile(s) : mem.state[u] # "succeeded") /\ InHand(s) = s.batch.us
  BY DEF Ready, Live, InHand
<1>2. s.batch.us \in SUBSET todo /\ s.rest \in SUBSET todo /\ todo \in SUBSET Units
      /\ s.batch.us \subseteq Pile(s)
  BY <1>1 DEF WorkersOver, BatchesOver, Shape, Pile
<1>3. /\ m \in Outcomes
      /\ \A u \in s.batch.us : m.state[u] = "failed"
      /\ \A u \in Units \ s.batch.us : m.state[u] = mem.state[u]
      /\ \A u \in Units : m.state[u] = "succeeded" <=> mem.state[u] = "succeeded"
      /\ \A u \in Units : mem.state[u] \in Done => m.state[u] \in Done
  BY <1>1, <1>2, Failing
<1>4. /\ next \in WorkersOver(todo) /\ next.pc = "next" /\ next.file = s.file
      /\ next.rest = s.rest /\ next.stack = s.stack
  BY DEF WorkersOver, WorkerPCs
<1>5. InHand(next) = {} /\ Live(next)
  BY <1>4 DEF InHand, Live
<1> HIDE DEF next, m
<1>6. Pile(next) = s.rest \cup Loaded(s.stack) /\ Pile(s) = Pile(next) \cup s.batch.us
      /\ Pile(next) \cap s.batch.us = {} /\ Pile(next) \subseteq Units
  BY <1>1, <1>2, <1>4, <1>5 DEF Pile, Dealt, Loaded
<1>7. Dealt(next)
  BY <1>1, <1>4, <1>5, <1>6 DEF Dealt, FileUnits
<1>8. DealsOut(s, m, TRUE, next)
  BY <1>1, <1>3, <1>4, <1>5, <1>6, <1>7 DEF DealsOut, Done
<1>9. Record(w, m, TRUE, next)
  BY DEF FailAll, m, next
<1>10. QED
  BY <1>3, <1>4, <1>8, <1>9, ByDeal

LEMMA OverBudgetDeals ==
    ASSUME Shape, NEW w \in Workers, NEW s \in WorkersOver(todo), Ready(s), s.pc \in {"send", "wait"},
           OverBudget(w, s)
    PROVE  Deals(w, s)
<1> DEFINE open == {u \in UnitsOf[s.file] \cap todo : mem.state[u] # "succeeded"}
           m == WithFailed(mem, open)
           next == [s EXCEPT !.pc = "next", !.stack = <<>>, !.rest = {}]
<1>1. Dealt(s) /\ (\A u \in Pile(s) : mem.state[u] # "succeeded") /\ InHand(s) = s.batch.us
  BY DEF Ready, Live, InHand
<1>2. open \in SUBSET todo /\ \A u \in open : mem.state[u] # "succeeded"
  OBVIOUS
<1>3. Pile(s) \subseteq todo
  <2>1. \A i \in 1..Len(s.stack) : s.stack[i] \in BatchesOver(todo)
    BY ElementOfSeq DEF WorkersOver
  <2>2. Loaded(s.stack) \subseteq todo
    BY <2>1 DEF Loaded, BatchesOver
  <2>3. QED
    BY <1>1, <2>2 DEF Pile, WorkersOver, BatchesOver
<1>4. Pile(s) \subseteq open
  BY <1>1, <1>3 DEF Dealt, FileUnits
<1> HIDE DEF open
<1>5. /\ m \in Outcomes
      /\ \A u \in open : m.state[u] = "failed"
      /\ \A u \in Units : m.state[u] = "succeeded" <=> mem.state[u] = "succeeded"
      /\ \A u \in Units : mem.state[u] \in Done => m.state[u] \in Done
  BY <1>2, Failing
<1>6. <<>> \in Seq(BatchesOver(todo))
  BY EmptySeq
<1>7. /\ next \in WorkersOver(todo) /\ next.pc = "next" /\ next.file = s.file
      /\ next.rest = {} /\ next.stack = <<>>
  BY <1>6 DEF WorkersOver, WorkerPCs
<1>8. Record(w, m, FALSE, next)
  BY DEF OverBudget, open
<1> HIDE DEF next, m
<1>9. InHand(next) = {} /\ Live(next) /\ Pile(next) = {} /\ Dealt(next)
  BY <1>7, LoadedNone DEF InHand, Live, Pile, Dealt
<1>10. DealsOut(s, m, FALSE, next)
  BY <1>1, <1>4, <1>5, <1>7, <1>9 DEF DealsOut, Done
<1>11. QED
  BY <1>5, <1>7, <1>8, <1>10, ByDeal

LEMMA SplitOrFailDeals ==
    ASSUME Shape, NEW w \in Workers, NEW s \in WorkersOver(todo), NEW n \in 0..MaxSplits,
           Ready(s), s.pc = "wait", SplitOrFail(w, s, n)
    PROVE  Deals(w, s)
<1> DEFINE child(us) == [us |-> us, qa |-> s.batch.qa, splits |-> n]
<1>1. CASE Cardinality(s.batch.us) = 1
  BY <1>1, FailAllDeals DEF SplitOrFail
<1>2. CASE Cardinality(s.batch.us) # 1
  <2>1. PICK h \in Halves(s.batch.us) :
            Record(w, mem, TRUE,
                [s EXCEPT !.pc = "next", !.stack = <<child(h[1]), child(h[2])>> \o @])
    BY <1>2 DEF SplitOrFail
  <2>2. s.stack \in Seq(BatchesOver(todo)) /\ s.batch.us \in SUBSET todo
    BY DEF WorkersOver, BatchesOver
  <2>3. h[1] \in SUBSET s.batch.us /\ h[2] = s.batch.us \ h[1]
    BY <2>1 DEF Halves
  <2> DEFINE a == child(h[1])
             b == child(h[2])
             q == <<b>> \o s.stack
             p == <<a>> \o q
             next == [s EXCEPT !.pc = "next", !.stack = p]
  <2>4. a \in BatchesOver(todo) /\ b \in BatchesOver(todo) /\ a.us = h[1] /\ b.us = h[2]
    BY <2>2, <2>3 DEF WorkersOver, BatchesOver
  <2>5. <<a, b>> \o s.stack = p
    <3>1. <<a>> \in Seq(BatchesOver(todo)) /\ <<b>> \in Seq(BatchesOver(todo))
      BY <2>4
    <3>2. <<a, b>> = <<a>> \o <<b>>
      BY <2>4
    <3>3. QED
      BY <2>2, <3>1, <3>2, ConcatAssociative
  <2>6. Record(w, mem, TRUE, next)
    BY <2>1, <2>5
  <2> HIDE DEF a, b
  <2>7. q \in Seq(BatchesOver(todo)) /\ p \in Seq(BatchesOver(todo))
    <3>1. <<a>> \in Seq(BatchesOver(todo)) /\ <<b>> \in Seq(BatchesOver(todo))
      BY <2>4
    <3>2. QED
      BY <2>2, <3>1, ConcatProperties
  <2>8. /\ Loaded(q) = b.us \cup Loaded(s.stack)
        /\ Separate(s.stack) /\ b.us \cap Loaded(s.stack) = {} => Separate(q)
    BY <2>2, <2>4, Pushed
  <2> HIDE DEF q
  <2>9. /\ Loaded(p) = a.us \cup Loaded(q)
        /\ Separate(q) /\ a.us \cap Loaded(q) = {} => Separate(p)
    BY <2>4, <2>7, Pushed
  <2> HIDE DEF p
  <2>10. /\ next \in WorkersOver(todo) /\ next.pc = "next" /\ next.file = s.file
         /\ next.rest = s.rest /\ next.stack = p
    BY <2>7 DEF WorkersOver, WorkerPCs
  <2> HIDE DEF next
  <2>11. Dealt(s) /\ (\A u \in Pile(s) : mem.state[u] # "succeeded") /\ InHand(s) = s.batch.us
    BY DEF Ready, Live, InHand
  <2>12. InHand(next) = {} /\ Live(next)
    BY <2>10 DEF InHand, Live
  <2>13. a.us \cup b.us = s.batch.us /\ a.us \cap b.us = {}
    BY <2>3, <2>4
  <2>14. Separate(p) /\ Loaded(p) = s.batch.us \cup Loaded(s.stack)
    BY <2>8, <2>9, <2>11, <2>13 DEF Dealt
  <2>15. Pile(next) = Pile(s)
    BY <2>10, <2>11, <2>12, <2>14 DEF Pile
  <2>16. Dealt(next)
    BY <2>10, <2>11, <2>12, <2>14, <2>15 DEF Dealt, FileUnits
  <2>17. DealsOut(s, mem, TRUE, next)
    BY <2>10, <2>11, <2>12, <2>15, <2>16, DealsTheSame
  <2>18. QED
    BY <2>6, <2>10, <2>17, ByDeal DEF Outcomes
<1>3. QED
  BY <1>1, <1>2

LEMMA NextBatchDeals ==
    ASSUME Shape, NEW w \in Workers, Ready(worker[w]), NextBatch(w)
    PROVE  Deals(w, worker[w])
<1> DEFINE s == worker[w]
<1>1. s \in WorkersOver(todo) /\ s.pc = "next" /\ s.stack \in Seq(BatchesOver(todo))
      /\ s.rest \in SUBSET todo
  BY WorkerType DEF NextBatch, WorkersOver
<1>2. Dealt(s) /\ (\A u \in Pile(s) : mem.state[u] # "succeeded") /\ InHand(s) = {}
  BY <1>1 DEF Ready, Live, InHand
<1>3. MaxSplits \in 0..MaxSplits /\ 0 \in 0..MaxRetries
  BY BoundsAreNat DEF BoundsAreNat
<1>4. ASSUME s.stack # <<>>,
             Record(w, mem, TRUE, Begun([s EXCEPT !.stack = Tail(@)], Head(s.stack)))
      PROVE  Deals(w, s)
  <2> DEFINE next == Begun([s EXCEPT !.stack = Tail(@)], Head(s.stack))
  <2>1. Head(s.stack) \in BatchesOver(todo) /\ Tail(s.stack) \in Seq(BatchesOver(todo))
    BY <1>1, <1>4, HeadTailProperties
  <2>2. /\ next \in WorkersOver(todo) /\ next.pc = "send" /\ next.file = s.file
        /\ next.rest = s.rest /\ next.stack = Tail(s.stack) /\ next.batch = Head(s.stack)
    BY <1>1, <1>3, <2>1 DEF WorkersOver, WorkerPCs, Begun
  <2> HIDE DEF next
  <2>3. /\ Loaded(s.stack) = Head(s.stack).us \cup Loaded(Tail(s.stack))
        /\ Head(s.stack).us \cap Loaded(Tail(s.stack)) = {}
        /\ Separate(Tail(s.stack))
    BY <1>1, <1>2, <1>4, Popped DEF Dealt
  <2>4. InHand(next) = Head(s.stack).us /\ Live(next)
    BY <2>2 DEF InHand, Live
  <2>5. Pile(next) = Pile(s)
    BY <1>2, <2>2, <2>3, <2>4 DEF Pile
  <2>6. Dealt(next)
    BY <1>2, <2>2, <2>3, <2>4, <2>5 DEF Dealt, FileUnits
  <2>7. DealsOut(s, mem, TRUE, next)
    BY <1>2, <2>2, <2>4, <2>5, <2>6, DealsTheSame
  <2>8. QED
    BY <1>4, <2>2, <2>7, ByDeal DEF Outcomes, next
<1>5. ASSUME s.stack = <<>>, NEW us \in (SUBSET s.rest) \ {{}},
             Record(w, mem, TRUE, Begun([s EXCEPT !.rest = @ \ us],
                                        [us |-> us, qa |-> FALSE, splits |-> MaxSplits]))
      PROVE  Deals(w, s)
  <2> DEFINE b == [us |-> us, qa |-> FALSE, splits |-> MaxSplits]
             next == Begun([s EXCEPT !.rest = @ \ us], b)
  <2>1. b \in BatchesOver(todo) /\ b.us = us
    BY <1>1, <1>3 DEF BatchesOver
  <2>2. /\ next \in WorkersOver(todo) /\ next.pc = "send" /\ next.file = s.file
        /\ next.rest = s.rest \ us /\ next.stack = <<>> /\ next.batch = b
    BY <1>1, <1>3, <1>5, <2>1 DEF WorkersOver, WorkerPCs, Begun
  <2> HIDE DEF next, b
  <2>3. InHand(next) = us /\ Live(next)
    BY <2>1, <2>2 DEF InHand, Live
  <2>4. Pile(next) = Pile(s)
    BY <1>2, <1>5, <2>2, <2>3 DEF Pile
  <2>5. Dealt(next)
    BY <1>2, <2>2, <2>3, <2>4, LoadedNone DEF Dealt, FileUnits
  <2>6. DealsOut(s, mem, TRUE, next)
    BY <1>2, <2>2, <2>3, <2>4, <2>5, DealsTheSame
  <2>7. QED
    BY <1>5, <2>2, <2>6, ByDeal DEF Outcomes, next, b
<1>6. QED
  BY <1>4, <1>5 DEF NextBatch

LEMMA TooLargeDeals ==
    ASSUME Shape, NEW w \in Workers, Ready(worker[w]), TooLarge(w)
    PROVE  Deals(w, worker[w])
<1> DEFINE s == worker[w]
<1>1. s \in WorkersOver(todo) /\ s.pc = "next" /\ s.stack = <<>> /\ s.rest \in SUBSET todo
  BY WorkerType DEF TooLarge, WorkersOver
<1>2. Dealt(s) /\ (\A u \in Pile(s) : mem.state[u] # "succeeded") /\ InHand(s) = {}
  BY <1>1 DEF Ready, Live, InHand
<1>3. PICK x \in s.rest : Record(w, WithFailed(mem, {x}), TRUE, [s EXCEPT !.rest = @ \ {x}])
  BY DEF TooLarge
<1> DEFINE m == WithFailed(mem, {x})
           next == [s EXCEPT !.rest = @ \ {x}]
<1>4. {x} \in SUBSET todo /\ todo \in SUBSET Units /\ mem.state[x] # "succeeded"
  BY <1>1, <1>2, <1>3 DEF Shape, Pile
<1>5. /\ m \in Outcomes
      /\ m.state[x] = "failed"
      /\ \A u \in Units : m.state[u] = "succeeded" <=> mem.state[u] = "succeeded"
      /\ \A u \in Units : mem.state[u] \in Done => m.state[u] \in Done
  BY <1>4, Failing
<1>6. /\ next \in WorkersOver(todo) /\ next.pc = "next" /\ next.file = s.file
      /\ next.rest = s.rest \ {x} /\ next.stack = <<>>
  BY <1>1 DEF WorkersOver, WorkerPCs
<1> HIDE DEF next, m
<1>7. InHand(next) = {} /\ Live(next)
  BY <1>6 DEF InHand, Live
<1>8. Pile(next) = s.rest \ {x} /\ Pile(s) = s.rest /\ Pile(s) \subseteq Units
  BY <1>1, <1>2, <1>4, <1>6, <1>7, LoadedNone DEF Pile
<1>9. Dealt(next)
  BY <1>1, <1>2, <1>6, <1>7, <1>8, LoadedNone DEF Dealt, FileUnits
<1>10. DealsOut(s, m, TRUE, next)
  BY <1>1, <1>2, <1>5, <1>6, <1>7, <1>8, <1>9 DEF DealsOut, Done
<1>11. QED
  BY <1>3, <1>5, <1>6, <1>10, ByDeal DEF m, next

LEMMA CompleteFileDeals ==
    ASSUME Shape, NEW w \in Workers, Ready(worker[w]), CompleteFile(w)
    PROVE  Deals(w, worker[w])
<1> DEFINE s == worker[w]
           next == [s EXCEPT !.pc = "idle", !.file = NoFile, !.batch = NoBatch]
<1>1. s \in WorkersOver(todo) /\ s.pc = "next" /\ s.stack = <<>> /\ s.rest = {}
  BY WorkerType DEF CompleteFile, WorkersOver
<1>2. Pile(s) = {} /\ InHand(s) = {}
  BY <1>1, LoadedNone DEF Pile, InHand
<1>3. NoBatch \in BatchesOver(todo)
  BY BoundsAreNat DEF NoBatch, BatchesOver, BoundsAreNat
<1>4. /\ next \in WorkersOver(todo) /\ next.pc = "idle" /\ next.file = NoFile
      /\ next.rest = {} /\ next.stack = <<>>
  BY <1>1, <1>3 DEF WorkersOver, WorkerPCs
<1>5. RecordOr(w, mem, TRUE, next, "dead")
  BY DEF CompleteFile
<1> HIDE DEF next
<1>6. InHand(next) = {} /\ Live(next) /\ Pile(next) = {} /\ Dealt(next)
  BY <1>4, LoadedNone DEF InHand, Live, Pile, Dealt
<1>7. DealsOut(s, mem, TRUE, next)
  BY <1>2, <1>4, <1>6, DealsTheSame
<1>8. QED
  BY <1>4, <1>5, <1>7 DEF Deals, Outcomes

LEMMA SendDeals ==
    ASSUME Shape, NEW w \in Workers, Ready(worker[w]), Send(w)
    PROVE  Deals(w, worker[w])
<1> DEFINE s == worker[w]
           next == [s EXCEPT !.pc = "wait", !.sent = @ + 1]
<1>1. s \in WorkersOver(todo) /\ s.pc = "send"
  BY WorkerType DEF Send
<1>2. Dealt(s) /\ (\A u \in Pile(s) : mem.state[u] # "succeeded")
  BY <1>1 DEF Ready, Live
<1>3. ASSUME OverBudget(w, s) PROVE Deals(w, s)
  BY <1>1, <1>3, OverBudgetDeals
<1>4. ASSUME Record(w, mem, FALSE, next) PROVE Deals(w, s)
  <2>1. s.sent + 1 \in Nat
    BY <1>1 DEF WorkersOver
  <2>2. /\ next \in WorkersOver(todo) /\ next.pc = "wait" /\ next.file = s.file
        /\ next.rest = s.rest /\ next.stack = s.stack /\ next.batch = s.batch
    BY <1>1, <2>1 DEF WorkersOver, WorkerPCs
  <2> HIDE DEF next
  <2>3. InHand(next) = InHand(s) /\ Live(next) /\ Pile(next) = Pile(s)
    BY <1>1, <2>2 DEF InHand, Live, Pile
  <2>4. Dealt(next)
    BY <1>2, <2>2, <2>3 DEF Dealt, FileUnits
  <2>5. DealsOut(s, mem, FALSE, next)
    BY <1>1, <1>2, <2>2, <2>3, <2>4, DealsTheSame
  <2>6. QED
    BY <1>4, <2>2, <2>5, ByDeal DEF Outcomes
<1>5. QED
  BY <1>3, <1>4 DEF Send

\* Counting an answer changes nothing that matters here.
LEMMA CountedDeals ==
    ASSUME Shape, NEW w \in Workers, Ready(worker[w]), worker[w].pc = "wait"
    PROVE  \A s \in {Counted(worker[w]), Received(worker[w])} :
               /\ s \in WorkersOver(todo) /\ s.pc = "wait" /\ Ready(s)
               /\ Deals(w, s) => Deals(w, worker[w])
<1> DEFINE t == worker[w]
<1>1. t \in WorkersOver(todo)
  BY WorkerType
<1>2. SUFFICES ASSUME NEW s \in {Counted(t), Received(t)}
               PROVE  /\ s \in WorkersOver(todo) /\ s.pc = "wait" /\ Ready(s)
                      /\ Deals(w, s) => Deals(w, t)
  OBVIOUS
<1>3. s \in WorkersOver(todo)
  BY WorkerType
<1>4. /\ s.pc = t.pc /\ s.file = t.file /\ s.rest = t.rest /\ s.stack = t.stack
      /\ s.batch = t.batch /\ s.good = t.good /\ s.bad = t.bad
  BY <1>1 DEF Counted, Received, WorkersOver
<1> HIDE DEF t
<1>5. InHand(s) = InHand(t) /\ Pile(s) = Pile(t) /\ (Live(s) <=> Live(t))
  BY <1>4 DEF InHand, Pile, Live
<1>6. Dealt(t) => Dealt(s)
  BY <1>4, <1>5 DEF Dealt, FileUnits
<1>7. Ready(s)
  BY <1>5, <1>6 DEF Ready, t
<1>8. \A m, forced, next : DealsOut(s, m, forced, next) => DealsOut(t, m, forced, next)
  BY <1>4, <1>5 DEF DealsOut
<1>9. Deals(w, s) => Deals(w, t)
  BY <1>8 DEF Deals
<1>10. QED
  BY <1>3, <1>4, <1>7, <1>9 DEF t

\* The batch is sent again.
LEMMA AgainDeals ==
    ASSUME Shape, NEW w \in Workers, NEW s \in WorkersOver(todo), Ready(s), s.pc = "wait",
           NEW next \in WorkersOver(todo), next.pc = "send", next.file = s.file,
           next.rest = s.rest, next.stack = s.stack, next.batch = s.batch,
           Record(w, mem, TRUE, next)
    PROVE  Deals(w, s)
<1>1. Dealt(s) /\ (\A u \in Pile(s) : mem.state[u] # "succeeded")
  BY DEF Ready, Live
<1>2. InHand(next) = InHand(s) /\ Live(next) /\ Pile(next) = Pile(s)
  BY DEF InHand, Live, Pile
<1>3. Dealt(next)
  BY <1>1, <1>2 DEF Dealt, FileUnits
<1>4. DealsOut(s, mem, TRUE, next)
  BY <1>1, <1>2, <1>3, DealsTheSame
<1>5. QED
  BY <1>4, ByDeal DEF Outcomes

LEMMA CountedPC ==
    ASSUME Shape, NEW w \in Workers
    PROVE  Counted(worker[w]).pc = worker[w].pc /\ Received(worker[w]).pc = worker[w].pc
<1>1. worker[w] \in WorkersOver(todo)
  BY WorkerType
<1>2. QED
  BY <1>1 DEF Counted, Received, WorkersOver

LEMMA TransientDeals ==
    ASSUME Shape, NEW w \in Workers, Ready(worker[w]), Transient(w)
    PROVE  Deals(w, worker[w])
<1> DEFINE s == Counted(worker[w])
<1>1. worker[w].pc = "wait"
  BY CountedPC DEF Transient
<1>2. s \in WorkersOver(todo) /\ s.pc = "wait" /\ Ready(s) /\ (Deals(w, s) => Deals(w, worker[w]))
  BY <1>1, CountedDeals
<1>3. ASSUME s.attempt < MaxRetries,
             Record(w, mem, TRUE, [s EXCEPT !.pc = "send", !.attempt = @ + 1])
      PROVE  Deals(w, s)
  <2>1. s.attempt + 1 \in 0..MaxRetries
    BY <1>2, <1>3, BoundsAreNat DEF WorkersOver, BoundsAreNat
  <2> DEFINE next == [s EXCEPT !.pc = "send", !.attempt = @ + 1]
  <2>2. /\ next \in WorkersOver(todo) /\ next.pc = "send" /\ next.file = s.file
        /\ next.rest = s.rest /\ next.stack = s.stack /\ next.batch = s.batch
    BY <1>2, <2>1 DEF WorkersOver, WorkerPCs
  <2>3. QED
    BY <1>2, <1>3, <2>2, AgainDeals
<1>4. ASSUME FailAll(w, s) PROVE Deals(w, s)
  BY <1>2, <1>4, FailAllDeals
<1>5. ASSUME s.batch.splits > 0, SplitOrFail(w, s, s.batch.splits - 1)
      PROVE  Deals(w, s)
  <2>1. s.batch.splits - 1 \in 0..MaxSplits
    BY <1>2, <1>5, BoundsAreNat DEF WorkersOver, BatchesOver, BoundsAreNat
  <2>2. QED
    BY <1>2, <1>5, <2>1, SplitOrFailDeals
<1>6. QED
  BY <1>2, <1>3, <1>4, <1>5 DEF Transient

LEMMA PermanentDeals ==
    ASSUME Shape, NEW w \in Workers, Ready(worker[w]), Permanent(w)
    PROVE  Deals(w, worker[w])
<1> DEFINE s == Counted(worker[w])
<1>1. worker[w].pc = "wait" /\ MaxSplits \in 0..MaxSplits
  BY BoundsAreNat, CountedPC DEF Permanent, BoundsAreNat
<1>2. s \in WorkersOver(todo) /\ s.pc = "wait" /\ Ready(s) /\ (Deals(w, s) => Deals(w, worker[w]))
  BY <1>1, CountedDeals
<1>3. FailAll(w, s) \/ SplitOrFail(w, s, MaxSplits)
  BY DEF Permanent
<1>4. QED
  BY <1>1, <1>2, <1>3, FailAllDeals, SplitOrFailDeals

LEMMA MalformedDeals ==
    ASSUME Shape, NEW w \in Workers, Ready(worker[w]), Malformed(w)
    PROVE  Deals(w, worker[w])
<1> DEFINE s == Received(worker[w])
           next == [s EXCEPT !.pc = "send", !.repaired = TRUE]
<1>1. worker[w].pc = "wait" /\ MaxSplits \in 0..MaxSplits
  BY BoundsAreNat, CountedPC DEF Malformed, BoundsAreNat
<1>2. s \in WorkersOver(todo) /\ s.pc = "wait" /\ Ready(s) /\ (Deals(w, s) => Deals(w, worker[w]))
  BY <1>1, CountedDeals
<1>3. ASSUME OverBudget(w, s) PROVE Deals(w, s)
  BY <1>2, <1>3, OverBudgetDeals
<1>4. ASSUME SplitOrFail(w, s, MaxSplits) PROVE Deals(w, s)
  BY <1>1, <1>2, <1>4, SplitOrFailDeals
<1>5. ASSUME Record(w, mem, TRUE, next) PROVE Deals(w, s)
  <2>1. /\ next \in WorkersOver(todo) /\ next.pc = "send" /\ next.file = s.file
        /\ next.rest = s.rest /\ next.stack = s.stack /\ next.batch = s.batch
    BY <1>2 DEF WorkersOver, WorkerPCs
  <2>2. QED
    BY <1>2, <1>5, <2>1, AgainDeals
<1>6. QED
  BY <1>2, <1>3, <1>4, <1>5 DEF Malformed

LEMMA ParsedDeals ==
    ASSUME Shape, NEW w \in Workers, Ready(worker[w]), Parsed(w)
    PROVE  Deals(w, worker[w])
<1> DEFINE s == Received(worker[w])
<1>1. worker[w].pc = "wait"
  BY CountedPC DEF Parsed
<1>2. s \in WorkersOver(todo) /\ s.pc = "wait" /\ Ready(s) /\ (Deals(w, s) => Deals(w, worker[w]))
  BY <1>1, CountedDeals
<1>3. PICK bad \in SUBSET s.batch.us :
          Record(w, mem, FALSE, [s EXCEPT !.pc = "record", !.good = s.batch.us \ bad, !.bad = bad])
  BY DEF Parsed
<1> DEFINE next == [s EXCEPT !.pc = "record", !.good = s.batch.us \ bad, !.bad = bad]
<1>4. s.batch.us \in SUBSET todo
  BY <1>2 DEF WorkersOver, BatchesOver
<1>5. /\ next \in WorkersOver(todo) /\ next.pc = "record" /\ next.file = s.file
      /\ next.rest = s.rest /\ next.stack = s.stack /\ next.batch = s.batch
      /\ next.good = s.batch.us \ bad /\ next.bad = bad
  BY <1>2, <1>4 DEF WorkersOver, WorkerPCs
<1> HIDE DEF s, next
<1>6. Dealt(s) /\ (\A u \in Pile(s) : mem.state[u] # "succeeded")
  BY <1>2 DEF Ready, Live
<1>7. InHand(next) = InHand(s) /\ Live(next)
  BY <1>2, <1>3, <1>5 DEF InHand, Live
<1>8. Pile(next) = Pile(s)
  BY <1>5, <1>7 DEF Pile
<1>9. Dealt(next)
  BY <1>5, <1>6, <1>7, <1>8 DEF Dealt, FileUnits
<1>10. DealsOut(s, mem, FALSE, next)
  BY <1>2, <1>5, <1>6, <1>7, <1>8, <1>9, DealsTheSame
<1>11. Record(w, mem, FALSE, next)
  BY <1>3 DEF next
<1>12. QED
  BY <1>2, <1>5, <1>10, <1>11, ByDeal DEF Outcomes

LEMMA AcceptDeals ==
    ASSUME Shape, NEW w \in Workers, Ready(worker[w]), Accept(w)
    PROVE  Deals(w, worker[w])
<1> DEFINE s == worker[w]
<1>1. s \in WorkersOver(todo) /\ s.pc = "record" /\ s.good \in SUBSET todo /\ todo \in SUBSET Units
  BY WorkerType DEF Accept, WorkersOver, Shape
<1>2. /\ Dealt(s) /\ (\A u \in Pile(s) : mem.state[u] # "succeeded")
      /\ InHand(s) = s.good \cup s.bad
  BY <1>1 DEF Ready, Live, InHand
<1>3. ASSUME s.good = {}, Record(w, mem, FALSE, [s EXCEPT !.pc = "close"])
      PROVE  Deals(w, s)
  <2> DEFINE next == [s EXCEPT !.pc = "close"]
  <2>1. /\ next \in WorkersOver(todo) /\ next.pc = "close" /\ next.file = s.file
        /\ next.rest = s.rest /\ next.stack = s.stack /\ next.batch = s.batch
        /\ next.bad = s.bad
    BY <1>1 DEF WorkersOver, WorkerPCs
  <2> HIDE DEF next
  <2>2. InHand(next) = InHand(s) /\ Live(next)
    BY <1>2, <1>3, <2>1 DEF InHand, Live
  <2>3. Pile(next) = Pile(s)
    BY <2>1, <2>2 DEF Pile
  <2>4. Dealt(next)
    BY <1>2, <2>1, <2>2, <2>3 DEF Dealt, FileUnits
  <2>5. DealsOut(s, mem, FALSE, next)
    BY <1>2, <2>1, <2>2, <2>3, <2>4, DealsTheSame
  <2>6. QED
    BY <1>3, <2>1, <2>5, ByDeal DEF Outcomes, next
<1>4. ASSUME NEW x \in s.good,
             Record(w, WithSucceeded(mem, {x}), FALSE, [s EXCEPT !.good = @ \ {x}])
      PROVE  Deals(w, s)
  <2> DEFINE m == WithSucceeded(mem, {x})
             next == [s EXCEPT !.good = @ \ {x}]
  <2>1. /\ m.state = [u \in Units |-> IF u \in {x} THEN "succeeded" ELSE mem.state[u]]
        /\ m \in Outcomes
    <3>1. {x} \in SUBSET todo
      BY <1>1
    <3>2. m \in Outcomes
      BY <3>1 DEF Outcomes
    <3>3. QED
      BY <3>2 DEF WithSucceeded, Shape, Checkpoints
  <2>2. /\ next \in WorkersOver(todo) /\ next.pc = "record" /\ next.file = s.file
        /\ next.rest = s.rest /\ next.stack = s.stack /\ next.batch = s.batch
        /\ next.good = s.good \ {x} /\ next.bad = s.bad
    BY <1>1 DEF WorkersOver, WorkerPCs
  <2> HIDE DEF next, m
  <2>3. x \in Units /\ x \in Pile(s) /\ x \in InHand(s) /\ x \in s.batch.us /\ x \notin s.bad
    BY <1>1, <1>2 DEF Pile, Dealt
  <2>4. InHand(next) = InHand(s) \ {x} /\ Live(next)
    BY <1>2, <2>2, <2>3 DEF InHand, Live
  <2>5. Pile(next) = Pile(s) \ {x}
    BY <1>2, <2>2, <2>3, <2>4 DEF Pile, Dealt
  <2>6. Dealt(next)
    BY <1>1, <1>2, <2>2, <2>4, <2>5 DEF Dealt, FileUnits
  <2>7. Pile(s) \subseteq Units
    BY <1>1, <1>2 DEF Pile, Loaded, WorkersOver
  <2>8. /\ m.state[x] = "succeeded"
        /\ \A u \in Units : u # x => m.state[u] = mem.state[u]
    BY <2>1, <2>3
  <2>9. DealsOut(s, m, FALSE, next)
    BY <1>1, <1>2, <2>2, <2>3, <2>4, <2>5, <2>6, <2>7, <2>8 DEF DealsOut, Done
  <2>10. QED
    BY <1>4, <2>1, <2>2, <2>9, ByDeal DEF m, next
<1>5. QED
  BY <1>3, <1>4 DEF Accept

LEMMA CloseDeals ==
    ASSUME Shape, NEW w \in Workers, Ready(worker[w]), Close(w)
    PROVE  Deals(w, worker[w])
<1> DEFINE s == worker[w]
           next == [s EXCEPT !.pc = "next", !.bad = {}]
           retry == [us |-> Retried(s), qa |-> TRUE, splits |-> MaxSplits]
           more == [next EXCEPT !.stack = <<retry>> \o @]
           m == WithFailed(mem, s.bad)
<1>1. /\ s \in WorkersOver(todo) /\ s.pc = "close" /\ s.bad \in SUBSET todo
      /\ s.stack \in Seq(BatchesOver(todo)) /\ todo \in SUBSET Units
  BY WorkerType DEF Close, WorkersOver, Shape
<1>2. /\ Dealt(s) /\ (\A u \in Pile(s) : mem.state[u] # "succeeded")
      /\ InHand(s) = s.bad /\ s.bad \subseteq Pile(s)
  BY <1>1 DEF Ready, Live, InHand, Pile
<1>3. /\ next \in WorkersOver(todo) /\ next.pc = "next" /\ next.file = s.file
      /\ next.rest = s.rest /\ next.stack = s.stack
  BY <1>1 DEF WorkersOver, WorkerPCs
<1>4. /\ m \in Outcomes
      /\ \A u \in s.bad : m.state[u] = "failed"
      /\ \A u \in Units : m.state[u] = "succeeded" <=> mem.state[u] = "succeeded"
      /\ \A u \in Units : mem.state[u] \in Done => m.state[u] \in Done
  BY <1>1, <1>2, Failing
<1>5. retry \in BatchesOver(todo) /\ retry.us = s.bad
  BY <1>1, BoundsAreNat DEF Retried, BatchesOver, BoundsAreNat
<1>6. /\ more \in WorkersOver(todo) /\ more.pc = "next" /\ more.file = s.file
      /\ more.rest = s.rest /\ more.stack = <<retry>> \o s.stack
  <2>1. <<retry>> \in Seq(BatchesOver(todo))
    BY <1>5
  <2>2. <<retry>> \o s.stack \in Seq(BatchesOver(todo))
    BY <1>1, <2>1, ConcatProperties
  <2> HIDE DEF retry
  <2>3. QED
    BY <1>1, <2>2 DEF WorkersOver, WorkerPCs
<1>7. \/ s.bad = {} /\ Record(w, mem, TRUE, next)
      \/ Record(w, m, TRUE, next)
      \/ Record(w, mem, TRUE, more)
  BY DEF Close
<1> HIDE DEF next, retry, more, m
<1>8. InHand(next) = {} /\ Live(next) /\ InHand(more) = {} /\ Live(more)
  BY <1>3, <1>6 DEF InHand, Live
<1>9. /\ Pile(next) = Pile(s) \ s.bad
      /\ Pile(s) \subseteq Units
  BY <1>1, <1>2, <1>3, <1>8 DEF Pile, Dealt, Loaded, WorkersOver
<1>10. Dealt(next)
  BY <1>2, <1>3, <1>8, <1>9 DEF Dealt, FileUnits
<1>11. CASE s.bad = {} /\ Record(w, mem, TRUE, next)
  <2>1. DealsOut(s, mem, TRUE, next)
    BY <1>2, <1>3, <1>8, <1>9, <1>10, <1>11, DealsTheSame
  <2>2. QED
    BY <1>3, <1>11, <2>1, ByDeal DEF Outcomes
<1>12. CASE Record(w, m, TRUE, next)
  <2>1. DealsOut(s, m, TRUE, next)
    BY <1>1, <1>2, <1>3, <1>4, <1>8, <1>9, <1>10 DEF DealsOut, Done
  <2>2. QED
    BY <1>3, <1>4, <1>12, <2>1, ByDeal
<1>13. CASE Record(w, mem, TRUE, more)
  <2>1. /\ Loaded(more.stack) = s.bad \cup Loaded(s.stack)
        /\ Separate(more.stack)
    BY <1>1, <1>2, <1>5, <1>6, Pushed DEF Dealt
  <2>2. Pile(more) = Pile(s)
    BY <1>2, <1>6, <1>8, <2>1 DEF Pile
  <2>3. Dealt(more)
    BY <1>2, <1>6, <1>8, <2>1, <2>2 DEF Dealt, FileUnits
  <2>4. DealsOut(s, mem, TRUE, more)
    BY <1>2, <1>6, <1>8, <2>2, <2>3, DealsTheSame
  <2>5. QED
    BY <1>6, <1>13, <2>4, ByDeal DEF Outcomes
<1>14. QED
  BY <1>7, <1>11, <1>12, <1>13

------------------------------------------------------------------------------
(* What a step leaves.                                                        *)

LEMMA Recorded ==
    ASSUME Shape, NEW w \in Workers, NEW m, NEW forced \in BOOLEAN,
           NEW next \in WorkersOver(todo), NEW raised \in {"broken", "dead"},
           RecordOr(w, m, forced, next, raised)
    PROVE  /\ mem' = m
           /\ \A v \in Workers : v # w => worker'[v] = worker[v]
           /\ \/ worker'[w] = next
              \/ ~Live(worker'[w]) /\ worker'[w].file = next.file /\ fails' # 0
           /\ \/ disk' = m
              \/ disk' = disk /\ fails' # 0
              \/ disk' = disk /\ fails' = fails /\ worker'[w] = next
<1>1. PICK o \in Flushes(m, forced) :
          /\ mem' = m
          /\ disk' = o.disk /\ fails' = o.fails /\ dirty' = o.dirty /\ faults' = o.faults
          /\ worker' = [worker EXCEPT ![w] =
                 IF o.faults > faults /\ o.fails >= Threshold
                 THEN [next EXCEPT !.pc = raised] ELSE next]
  BY DEF RecordOr
<1>2. faults \in Nat /\ fails \in Nat /\ Threshold \in Nat /\ Threshold > 0
  BY BoundsAreNat DEF Shape, BoundsAreNat
<1>3. \/ o.disk = m /\ o.fails = 0 /\ o.faults = faults
      \/ o.disk = disk /\ o.fails = fails /\ o.faults = faults /\ ~forced
      \/ o.disk = disk /\ o.fails = fails + 1 /\ o.faults = faults + 1
  BY <1>1 DEF Flushes, FlushFailed
<1>4. ~(faults > faults)
  BY <1>2
<1>5. worker'[w] = (IF o.faults > faults /\ o.fails >= Threshold
                    THEN [next EXCEPT !.pc = raised] ELSE next)
      /\ \A v \in Workers : v # w => worker'[v] = worker[v]
  BY <1>1 DEF Shape
<1>6. [next EXCEPT !.pc = raised].pc = raised /\ [next EXCEPT !.pc = raised].file = next.file
  BY DEF WorkersOver
<1>7. ~Live([next EXCEPT !.pc = raised])
  BY <1>6 DEF Live
<1>8. CASE o.faults = faults
  BY <1>1, <1>2, <1>3, <1>4, <1>5, <1>8
<1>9. CASE o.disk = disk /\ o.fails = fails + 1 /\ o.faults = faults + 1
  <2>1. o.fails # 0
    BY <1>2, <1>9
  <2>2. QED
    BY <1>1, <1>5, <1>6, <1>7, <1>9, <2>1
<1>10. QED
  BY <1>3, <1>8, <1>9

\* A forced flush writes or fails.
LEMMA RecordedForced ==
    ASSUME Shape, NEW w \in Workers, NEW m, NEW next, NEW raised,
           RecordOr(w, m, TRUE, next, raised)
    PROVE  mem' = m /\ (disk' = m \/ (disk' = disk /\ fails' # 0))
<1>1. PICK o \in Flushes(m, TRUE) : mem' = m /\ disk' = o.disk /\ fails' = o.fails
  BY DEF RecordOr
<1>2. fails \in Nat
  BY BoundsAreNat DEF Shape, BoundsAreNat
<1>3. \/ o = [disk |-> m, fails |-> 0, dirty |-> FALSE, faults |-> faults]
      \/ o = [disk |-> disk, fails |-> fails + 1, dirty |-> TRUE, faults |-> faults + 1]
  BY <1>1 DEF Flushes, FlushFailed
<1>4. fails + 1 # 0
  BY <1>2
<1>5. QED
  BY <1>1, <1>3, <1>4

LEMMA PileOfUnits ==
    ASSUME Shape, NEW w \in Workers
    PROVE  Pile(worker[w]) \subseteq Units
<1>1. worker[w] \in WorkersOver(todo) /\ todo \subseteq Units
  BY WorkerType DEF Shape
<1>2. QED
  BY <1>1 DEF WorkersOver, BatchesOver, Pile, InHand, Loaded

LEMMA DealingKept ==
    ASSUME Shape, Dealing, phase = "translating", NEW w \in Workers, Live(worker[w]),
           Deals(w, worker[w]), UNCHANGED <<phase, source, todo, queue>>
    PROVE  Dealing'
<1> DEFINE s == worker[w]
<1>1. PICK m \in Outcomes, forced \in BOOLEAN, next \in WorkersOver(todo),
           raised \in {"broken", "dead"} :
          RecordOr(w, m, forced, next, raised) /\ DealsOut(s, m, forced, next)
  BY DEF Deals
<1>2. /\ mem' = m
      /\ \A v \in Workers : v # w => worker'[v] = worker[v]
      /\ \/ worker'[w] = next
         \/ ~Live(worker'[w]) /\ worker'[w].file = next.file
  BY <1>1, Recorded
<1>3. /\ Ready(s) /\ FilesApart /\ \A u \in todo : Placed(u)
      /\ \A v \in Workers : Ready(worker[v])
  BY DEF Dealing
<1>4. Ready(worker[w])'
  <2>1. CASE worker'[w] = next
    BY <1>1, <1>2, <2>1 DEF Ready, DealsOut
  <2>2. CASE ~Live(worker'[w])
    BY <2>2 DEF Ready
  <2>3. QED
    BY <1>2, <2>1, <2>2
<1>5. ASSUME NEW v \in Workers, v # w PROVE Ready(worker[v])'
  <2>1. worker'[v] = worker[v]
    BY <1>2, <1>5
  <2>2. SUFFICES ASSUME Live(worker[v]), NEW u \in Pile(worker[v])
                 PROVE  Dealt(worker[v]) /\ m.state[u] # "succeeded"
    <3>1. Live(worker[v]) => Dealt(worker[v])
      BY <1>3 DEF Ready
    <3>2. QED
      BY <1>2, <2>1, <2>2, <3>1 DEF Ready
  <2>3. Dealt(worker[v]) /\ mem.state[u] # "succeeded" /\ u \in Units
    BY <1>3, <2>2, PileOfUnits DEF Ready
  <2>4. u \notin Pile(s)
    <3>1. SUFFICES ASSUME u \in Pile(s) PROVE FALSE
      OBVIOUS
    <3>2. u \in FileUnits(s) /\ u \in FileUnits(worker[v])
      BY <1>3, <2>2, <2>3, <3>1 DEF Ready, Dealt
    <3>3. /\ s.file # NoFile /\ worker[v].file # NoFile
          /\ u \in UnitsOf[s.file] /\ u \in UnitsOf[worker[v].file]
      BY <3>2 DEF FileUnits
    <3>4. s.file \in Files /\ worker[v].file \in Files
      BY <3>3, WorkerType DEF WorkersOver
    <3>5. s.file # worker[v].file
      BY <1>3, <1>5, <3>3 DEF FilesApart
    <3>6. QED
      BY <3>3, <3>4, <3>5, FilesOfUnits
  <2>5. QED
    BY <1>1, <2>3, <2>4 DEF DealsOut
<1>6. worker'[w].file \in {s.file, NoFile}
  BY <1>1, <1>2 DEF DealsOut
<1>7. FilesApart'
  <2>1. NoFile \notin queue
    BY FilesOfUnits DEF Shape
  <2>2. \A v \in Workers : worker'[v].file \in {worker[v].file, NoFile}
    BY <1>2, <1>6
  <2>3. \A v \in Workers : worker'[v].file \notin queue'
    BY <1>3, <2>1, <2>2 DEF FilesApart
  <2>4. \A x, v \in Workers : x # v /\ worker'[x].file = worker'[v].file => worker'[x].file = NoFile
    BY <1>3, <2>2 DEF FilesApart
  <2>5. QED
    BY <2>3, <2>4 DEF FilesApart
<1>8. ASSUME NEW u \in todo PROVE Placed(u)'
  <2>1. Placed(u) /\ u \in Units
    BY <1>3 DEF Shape
  <2>2. CASE mem.state[u] \in Done
    BY <1>1, <1>2, <2>1, <2>2 DEF DealsOut, Placed
  <2>3. CASE \E f \in queue : u \in UnitsOf[f]
    BY <2>3 DEF Placed
  <2>4. ASSUME NEW v \in Workers, ~Live(worker[v]) \/ u \in Pile(worker[v]) PROVE Placed(u)'
    <3>1. CASE v # w
      <4>1. worker'[v] = worker[v]
        BY <1>2, <3>1
      <4>2. QED
        BY <2>4, <4>1 DEF Placed
    <3>2. CASE v = w /\ ~Live(worker'[w])
      BY <3>2 DEF Placed
    <3>3. CASE v = w /\ worker'[w] = next
      <4>1. u \in Pile(s)
        BY <2>4, <3>3
      <4>2. CASE u \in Pile(next)
        BY <3>3, <4>2 DEF Placed
      <4>3. CASE u \notin Pile(next)
        BY <1>1, <1>2, <4>1, <4>3 DEF DealsOut, Placed
      <4>4. QED
        BY <4>2, <4>3
    <3>4. QED
      BY <1>2, <3>1, <3>2, <3>3
  <2>5. QED
    BY <2>1, <2>2, <2>3, <2>4 DEF Placed
<1>9. QED
  BY <1>4, <1>5, <1>7, <1>8 DEF Dealing

LEMMA TakeFileKeeps ==
    ASSUME Shape, Dealing, NEW w \in Workers, TakeFile(w)
    PROVE  Dealing'
<1> DEFINE s == worker[w]
<1>1. PICK f \in queue :
          /\ queue' = queue \ {f}
          /\ RecordOr(w, mem, TRUE,
                 [s EXCEPT !.pc = "next", !.file = f,
                     !.rest = {u \in UnitsOf[f] \cap todo : mem.state[u] # "succeeded"}],
                 "dead")
  BY DEF TakeFile
<1> DEFINE rest == {u \in UnitsOf[f] \cap todo : mem.state[u] # "succeeded"}
           next == [s EXCEPT !.pc = "next", !.file = f, !.rest = rest]
<1>2. f \in Files /\ f # NoFile
  BY <1>1, FilesOfUnits DEF Shape
<1>3. s \in WorkersOver(todo) /\ s.pc = "idle" /\ phase = "translating"
  BY WorkerType DEF TakeFile
<1>4. /\ Dealt(s) /\ FilesApart /\ (\A u \in todo : Placed(u)) /\ \A v \in Workers : Ready(worker[v])
  BY <1>3 DEF Dealing, Ready, Live
<1>5. /\ next \in WorkersOver(todo) /\ next.pc = "next" /\ next.file = f
      /\ next.rest = rest /\ next.stack = s.stack
  BY <1>2, <1>3 DEF WorkersOver, WorkerPCs
<1>6. RecordOr(w, mem, TRUE, next, "dead")
  BY <1>1
<1> HIDE DEF next
<1>7. /\ mem' = mem
      /\ \A v \in Workers : v # w => worker'[v] = worker[v]
      /\ \/ worker'[w] = next
         \/ ~Live(worker'[w]) /\ worker'[w].file = f
  BY <1>5, <1>6, Recorded
<1>8. Pile(s) = {} /\ Loaded(s.stack) = {} /\ Separate(s.stack)
  BY <1>3, <1>4 DEF Dealt, FileUnits, Pile
<1>9. InHand(next) = {} /\ Live(next) /\ Pile(next) = rest
  BY <1>5, <1>8 DEF InHand, Live, Pile
<1>10. Dealt(next)
  BY <1>2, <1>5, <1>8, <1>9 DEF Dealt, FileUnits
<1>11. Ready(worker[w])'
  <2>1. CASE worker'[w] = next
    BY <1>7, <1>9, <1>10, <2>1 DEF Ready
  <2>2. CASE ~Live(worker'[w])
    BY <2>2 DEF Ready
  <2>3. QED
    BY <1>7, <2>1, <2>2
<1>12. ASSUME NEW v \in Workers, v # w PROVE Ready(worker[v])'
  BY <1>4, <1>7, <1>12 DEF Ready
<1>13. worker'[w].file = f
  BY <1>5, <1>7
<1>14. FilesApart'
  <2>1. \A v \in Workers : worker[v].file # f
    BY <1>1, <1>4 DEF FilesApart
  <2>2. \A v \in Workers : worker'[v].file \notin queue'
    BY <1>1, <1>4, <1>7, <1>13 DEF FilesApart
  <2>3. \A x, v \in Workers : x # v /\ worker'[x].file = worker'[v].file => worker'[x].file = NoFile
    BY <1>4, <1>7, <1>13, <2>1 DEF FilesApart
  <2>4. QED
    BY <2>2, <2>3 DEF FilesApart
<1>15. ASSUME NEW u \in todo PROVE Placed(u)'
  <2>1. Placed(u) /\ u \in Units
    BY <1>4 DEF Shape
  <2>2. CASE mem.state[u] \in Done
    BY <1>7, <2>2 DEF Placed
  <2>3. ASSUME NEW g \in queue, u \in UnitsOf[g] PROVE Placed(u)'
    <3>1. CASE g # f
      BY <1>1, <2>3, <3>1 DEF Placed
    <3>2. CASE g = f /\ mem.state[u] = "succeeded"
      BY <1>7, <3>2 DEF Placed, Done
    <3>3. CASE g = f /\ mem.state[u] # "succeeded"
      <4>1. u \in Pile(next)
        BY <1>9, <2>3, <3>3
      <4>2. QED
        BY <1>7, <4>1 DEF Placed
    <3>4. QED
      BY <3>1, <3>2, <3>3
  <2>4. ASSUME NEW v \in Workers, ~Live(worker[v]) \/ u \in Pile(worker[v]) PROVE Placed(u)'
    <3>1. v # w
      BY <1>3, <1>8, <2>4 DEF Live
    <3>2. worker'[v] = worker[v]
      BY <1>7, <3>1
    <3>3. QED
      BY <2>4, <3>2 DEF Placed
  <2>5. QED
    BY <2>1, <2>2, <2>3, <2>4 DEF Placed
<1>16. todo' = todo
  BY DEF TakeFile
<1>17. QED
  BY <1>11, <1>12, <1>14, <1>15, <1>16 DEF Dealing

\* A thread that is not live any more only has to be there.
LEMMA StoppedKeeps ==
    ASSUME Shape, Dealing, phase = "translating", NEW w \in Workers,
           mem' = mem, UNCHANGED <<todo, queue>>,
           \A v \in Workers : v # w => worker'[v] = worker[v],
           ~Live(worker'[w]), worker'[w].file = worker[w].file
    PROVE  Dealing'
<1>1. FilesApart /\ (\A u \in todo : Placed(u)) /\ \A v \in Workers : Ready(worker[v])
  BY DEF Dealing
<1>2. \A v \in Workers : Ready(worker[v])'
  <2>1. Ready(worker[w])'
    BY DEF Ready
  <2>2. ASSUME NEW v \in Workers, v # w PROVE Ready(worker[v])'
    BY <1>1, <2>2 DEF Ready
  <2>3. QED
    BY <2>1, <2>2
<1>3. FilesApart'
  BY <1>1 DEF FilesApart
<1>4. ASSUME NEW u \in todo PROVE Placed(u)'
  BY <1>1 DEF Placed
<1>5. QED
  BY <1>2, <1>3, <1>4 DEF Dealing

LEMMA FailResourceKeeps ==
    ASSUME Shape, Dealing, NEW w \in Workers, FailResource(w)
    PROVE  Dealing'
<1> DEFINE next == [worker[w] EXCEPT !.pc = "dead"]
<1>1. next \in WorkersOver(todo) /\ next.pc = "dead" /\ next.file = worker[w].file
  BY WorkerType DEF WorkersOver, WorkerPCs
<1>2. RecordOr(w, mem, TRUE, next, "dead")
  BY DEF FailResource
<1> HIDE DEF next
<1>3. /\ mem' = mem
      /\ \A v \in Workers : v # w => worker'[v] = worker[v]
      /\ \/ worker'[w] = next
         \/ ~Live(worker'[w]) /\ worker'[w].file = next.file
  BY <1>1, <1>2, Recorded
<1>4. ~Live(worker'[w]) /\ worker'[w].file = worker[w].file
  BY <1>1, <1>3 DEF Live
<1>5. QED
  BY <1>3, <1>4, StoppedKeeps DEF FailResource

LEMMA BreakKeeps ==
    ASSUME Shape, Dealing, NEW w \in Workers, Break(w)
    PROVE  Dealing'
<1>1. worker' = [worker EXCEPT ![w] = [worker[w] EXCEPT !.pc = "broken"]]
  BY DEF Break
<1>2. [worker[w] EXCEPT !.pc = "broken"].pc = "broken"
      /\ [worker[w] EXCEPT !.pc = "broken"].file = worker[w].file
  BY WorkerType DEF WorkersOver
<1>3. ~Live(worker'[w]) /\ worker'[w].file = worker[w].file
      /\ \A v \in Workers : v # w => worker'[v] = worker[v]
  BY <1>1, <1>2 DEF Shape, Live
<1>4. QED
  BY <1>3, StoppedKeeps DEF Break

LEMMA ExecuteDealing ==
    ASSUME Shape, Execute
    PROVE  Dealing'
<1>1. PICK D \in SUBSET Units :
          todo' = D /\ queue' = {f \in Files : UnitsOf[f] \cap D # {}}
  BY DEF Execute
<1>2. \A w \in Workers : worker'[w] = NewWorker
  BY DEF Execute
<1>3. /\ NewWorker.pc = "idle" /\ NewWorker.file = NoFile /\ NewWorker.rest = {}
      /\ NewWorker.stack = <<>>
  BY DEF NewWorker
<1>4. InHand(NewWorker) = {} /\ Pile(NewWorker) = {} /\ Dealt(NewWorker)
  BY <1>3, LoadedNone DEF InHand, Pile, Dealt
<1>5. \A w \in Workers : Ready(worker[w])'
  BY <1>2, <1>4 DEF Ready
<1>6. FilesApart'
  BY <1>1, <1>2, <1>3, FilesOfUnits DEF FilesApart
<1>7. \A u \in todo' : \E f \in queue' : u \in UnitsOf[f]
  BY <1>1, FilesOfUnits
<1>8. \A u \in todo' : Placed(u)'
  BY <1>7 DEF Placed
<1>9. QED
  BY <1>5, <1>6, <1>8 DEF Dealing

\* The steps of a thread that deal out its units.
Handling(w) ==
    NextBatch(w) \/ TooLarge(w) \/ CompleteFile(w) \/ Send(w) \/ Answer(w) \/ Accept(w) \/ Close(w)

LEMMA HandlingDeals ==
    ASSUME Shape, NEW w \in Workers, Ready(worker[w]), Handling(w)
    PROVE  Deals(w, worker[w])
BY NextBatchDeals, TooLargeDeals, CompleteFileDeals, SendDeals, TransientDeals, PermanentDeals,
   MalformedDeals, ParsedDeals, AcceptDeals, CloseDeals DEF Handling, Answer

LEMMA HandlingFrame ==
    ASSUME Shape, NEW w \in Workers, Handling(w)
    PROVE  phase = "translating" /\ Live(worker[w]) /\ UNCHANGED <<phase, source, todo, queue>>
BY CountedPC DEF Handling, Answer, NextBatch, TooLarge, CompleteFile, Send, Transient, Permanent,
                 Malformed, Parsed, Accept, Close, Live

LEMMA DealingInductive == Shape /\ Dealing /\ [Next]_vars => Dealing'
<1> SUFFICES ASSUME Shape, Dealing, [Next]_vars PROVE Dealing'
  OBVIOUS
<1>1. CASE Execute
  BY <1>1, ExecuteDealing
<1>2. ASSUME NEW w \in Workers, Handling(w) PROVE Dealing'
  <2>1. phase = "translating" /\ Live(worker[w]) /\ UNCHANGED <<phase, source, todo, queue>>
    BY <1>2, HandlingFrame
  <2>2. Ready(worker[w])
    BY <2>1 DEF Dealing
  <2>3. QED
    BY <1>2, <2>1, <2>2, HandlingDeals, DealingKept
<1>3. ASSUME NEW w \in Workers, TakeFile(w) PROVE Dealing'
  BY <1>3, TakeFileKeeps
<1>4. ASSUME NEW w \in Workers, FailResource(w) PROVE Dealing'
  BY <1>4, FailResourceKeeps
<1>5. ASSUME NEW w \in Workers, Break(w) PROVE Dealing'
  BY <1>5, BreakKeeps
<1>6. CASE Collect
  BY <1>6 DEF Collect, Dealing
<1>7. CASE Kill
  BY <1>7 DEF Kill, Dealing
<1>8. CASE UNCHANGED vars
  BY <1>8 DEF vars, Dealing, Ready, FilesApart, Placed
<1>9. QED
  BY <1>1, <1>2, <1>3, <1>4, <1>5, <1>6, <1>7, <1>8 DEF Next, WorkerStep, Handling

LEMMA InitDealing == Init => Dealing
BY DEF Init, Dealing

------------------------------------------------------------------------------
LEMMA ResultsInductive ==
    Shape /\ Dealing /\ EveryUnitHasResult /\ [Next]_vars => EveryUnitHasResult'
<1> SUFFICES ASSUME Shape, Dealing, EveryUnitHasResult, [Next]_vars PROVE EveryUnitHasResult'
  OBVIOUS
<1>1. CASE Execute
  BY <1>1 DEF Execute, EveryUnitHasResult
<1>2. ASSUME NEW w \in Workers, WorkerStep(w) PROVE EveryUnitHasResult'
  <2>1. phase = "translating" /\ phase' = phase
    BY <1>2 DEF WorkerStep, TakeFile, NextBatch, TooLarge, CompleteFile, Send, Answer, Transient,
                Permanent, Malformed, Parsed, Accept, Close, FailResource
  <2>2. QED
    BY <2>1 DEF EveryUnitHasResult
<1>3. ASSUME NEW w \in Workers, Break(w) PROVE EveryUnitHasResult'
  BY <1>3 DEF Break, EveryUnitHasResult
<1>4. CASE Collect
  <2>1. SUFFICES ASSUME phase' = "collected", NEW u \in todo
                 PROVE  mem.state[u] \in Done
    BY <1>4 DEF Collect, EveryUnitHasResult, Done
  <2>2. \A w \in Workers : worker[w].pc = "idle" /\ queue = {}
    BY <1>4, <2>1 DEF Collect
  <2>3. queue = {}
    BY <2>2, SomeWorkers DEF SomeWorkers
  <2>4. \A w \in Workers : Live(worker[w]) /\ Pile(worker[w]) = {}
    <3>1. \A w \in Workers : Live(worker[w])
      BY <2>2 DEF Live
    <3>2. \A w \in Workers : Dealt(worker[w])
      BY <1>4, <3>1 DEF Collect, Dealing, Ready
    <3>3. QED
      BY <2>2, <3>1, <3>2 DEF Dealt, FileUnits
  <2>5. Placed(u)
    BY <1>4, <2>1 DEF Collect, Dealing
  <2>6. QED
    BY <2>3, <2>4, <2>5 DEF Placed
<1>5. CASE Kill
  BY <1>5 DEF Kill, EveryUnitHasResult
<1>6. CASE UNCHANGED vars
  BY <1>6 DEF vars, EveryUnitHasResult
<1>7. QED
  BY <1>1, <1>2, <1>3, <1>4, <1>5, <1>6 DEF Next

\* Whatever is batched, split, retried or cut short by the budget, no unit is
\* dropped: an execution that collects its results has one for each unit, for any
\* files and any number of threads.
THEOREM NothingDropped == Spec => []EveryUnitHasResult
<1>1. Init => EveryUnitHasResult
  BY DEF Init, EveryUnitHasResult
<1>2. Shape /\ Dealing /\ EveryUnitHasResult /\ [Next]_vars => (Shape /\ Dealing /\ EveryUnitHasResult)'
  BY ShapeInductive, DealingInductive, ResultsInductive
<1>3. QED
  BY <1>1, <1>2, InitShape, InitDealing, PTL DEF Spec

------------------------------------------------------------------------------
LEMMA EndsRecord ==
    ASSUME Shape, NEW w \in Workers, TakeFile(w) \/ FailResource(w)
    PROVE  \E next \in WorkersOver(todo) : RecordOr(w, mem, TRUE, next, "dead")
<1>1. CASE TakeFile(w)
  <2>1. PICK f \in queue :
            RecordOr(w, mem, TRUE,
                [worker[w] EXCEPT !.pc = "next", !.file = f,
                    !.rest = {x \in UnitsOf[f] \cap todo : mem.state[x] # "succeeded"}],
                "dead")
    BY <1>1 DEF TakeFile
  <2>2. [worker[w] EXCEPT !.pc = "next", !.file = f,
             !.rest = {x \in UnitsOf[f] \cap todo : mem.state[x] # "succeeded"}]
            \in WorkersOver(todo)
    BY WorkerType DEF WorkersOver, WorkerPCs, Shape
  <2>3. QED
    BY <2>1, <2>2
<1>2. CASE FailResource(w)
  <2>1. [worker[w] EXCEPT !.pc = "dead"] \in WorkersOver(todo)
    BY WorkerType DEF WorkersOver, WorkerPCs
  <2>2. QED
    BY <1>2, <2>1 DEF FailResource
<1>3. QED
  BY <1>1, <1>2

LEMMA LossInductive ==
    Shape /\ Dealing /\ LossIsBounded /\ [Next]_vars => LossIsBounded'
<1> SUFFICES ASSUME Shape, Dealing, LossIsBounded, [Next]_vars,
                    phase' = "translating", fails' = 0, NEW u \in Units,
                    mem'.state[u] = "succeeded", disk'.state[u] # "succeeded"
             PROVE  \E w \in Workers : worker'[w].pc \in {"record", "close"} /\ u \in worker'[w].batch.us
  BY DEF LossIsBounded
<1>1. CASE Execute
  BY <1>1 DEF Execute
<1>2. ASSUME NEW w \in Workers, TakeFile(w) \/ FailResource(w) PROVE FALSE
  <2>1. PICK next \in WorkersOver(todo) : RecordOr(w, mem, TRUE, next, "dead")
    BY <1>2, EndsRecord
  <2>2. mem' = mem /\ (disk' = mem \/ fails' # 0)
    BY <2>1, RecordedForced
  <2>3. QED
    BY <2>2
<1>3. ASSUME NEW w \in Workers, Handling(w)
      PROVE  \E v \in Workers : worker'[v].pc \in {"record", "close"} /\ u \in worker'[v].batch.us
  <2>1. phase = "translating" /\ Live(worker[w])
    BY <1>3, HandlingFrame
  <2>2. Deals(w, worker[w])
    BY <1>3, <2>1, HandlingDeals DEF Dealing
  <2>3. PICK m \in Outcomes, forced \in BOOLEAN, next \in WorkersOver(todo),
             raised \in {"broken", "dead"} :
            RecordOr(w, m, forced, next, raised) /\ DealsOut(worker[w], m, forced, next)
    BY <2>2 DEF Deals
  <2>4. /\ mem' = m
        /\ \A v \in Workers : v # w => worker'[v] = worker[v]
        /\ disk' = m \/ (disk' = disk /\ (fails' # 0 \/ (fails' = fails /\ worker'[w] = next)))
    <3>1. RecordOr(w, m, forced, next, raised)
      BY <2>3
    <3>2. QED
      BY <3>1, Recorded
  <2>5. disk' # m
    BY <2>4
  <2>6. disk' = disk /\ fails = 0 /\ ~forced /\ worker'[w] = next
    <3>1. disk' = disk /\ fails = 0 /\ worker'[w] = next
      BY <2>4, <2>5
    <3>2. ~forced
      <4>1. SUFFICES ASSUME forced PROVE FALSE
        OBVIOUS
      <4>2. forced = TRUE
        BY <4>1
      <4>3. RecordOr(w, m, TRUE, next, raised)
        BY <2>3, <4>2, Zenon
      <4>4. QED
        BY <2>5, <4>3, RecordedForced
    <3>3. QED
      BY <3>1, <3>2
  <2>7. CASE mem.state[u] # "succeeded"
    <3>1. worker[w].pc = "record" /\ u \in worker[w].batch.us
      BY <2>3, <2>4, <2>7 DEF DealsOut
    <3>2. next.pc \in {"record", "close"} /\ next.batch = worker[w].batch
      BY <2>3, <2>6, <3>1 DEF DealsOut
    <3>3. QED
      BY <2>6, <3>1, <3>2
  <2>8. CASE mem.state[u] = "succeeded"
    <3>1. PICK v \in Workers : worker[v].pc \in {"record", "close"} /\ u \in worker[v].batch.us
      BY <2>1, <2>6, <2>8 DEF LossIsBounded
    <3>2. CASE v # w
      BY <2>4, <3>1, <3>2
    <3>3. CASE v = w
      <4>1. next.pc \in {"record", "close"} /\ next.batch = worker[w].batch
        BY <2>3, <2>6, <3>1, <3>3 DEF DealsOut
      <4>2. QED
        BY <2>6, <3>1, <3>3, <4>1
    <3>4. QED
      BY <3>2, <3>3
  <2>9. QED
    BY <2>7, <2>8
<1>4. ASSUME NEW w \in Workers, Break(w)
      PROVE  \E v \in Workers : worker'[v].pc \in {"record", "close"} /\ u \in worker'[v].batch.us
  <2>1. PICK v \in Workers : worker[v].pc \in {"record", "close"} /\ u \in worker[v].batch.us
    BY <1>4 DEF Break, LossIsBounded
  <2>2. v # w /\ worker' = [worker EXCEPT ![w] = [worker[w] EXCEPT !.pc = "broken"]]
    BY <1>4, <2>1 DEF Break
  <2>3. worker'[v] = worker[v]
    BY <2>2 DEF Shape
  <2>4. QED
    BY <2>1, <2>3
<1>5. CASE Collect
  BY <1>5 DEF Collect
<1>6. CASE Kill
  BY <1>6 DEF Kill
<1>7. CASE UNCHANGED vars
  BY <1>7 DEF vars, LossIsBounded
<1>8. QED
  BY <1>1, <1>2, <1>3, <1>4, <1>5, <1>6, <1>7 DEF Next, WorkerStep, Handling

\* A kill costs the results of the batches that are open and no others, as long as the
\* last flush did not fail: any number of merged writes may be outstanding.
THEOREM BoundedLoss == Spec => []LossIsBounded
<1>1. Init => LossIsBounded
  BY DEF Init, LossIsBounded
<1>2. Shape /\ Dealing /\ LossIsBounded /\ [Next]_vars => (Shape /\ Dealing /\ LossIsBounded)'
  BY ShapeInductive, DealingInductive, LossInductive
<1>3. QED
  BY <1>1, <1>2, InitShape, InitDealing, PTL DEF Spec

------------------------------------------------------------------------------
\* What the disk has of the current sources, the execution that began from it has too.
Behind ==
    phase = "translating" =>
        \A u \in todo : disk.state[u] = "succeeded" /\ disk.trans[u] = source[u] =>
            mem.state[u] = "succeeded"

LEMMA ExecuteBehind ==
    ASSUME Shape, Faithful, Execute
    PROVE  Behind'
<1>1. PICK src \in [Units -> 1..MaxVersion], D \in SUBSET Units, flushed \in BOOLEAN :
          /\ source' = src /\ todo' = D
          /\ mem' = Configured(disk, src, D)
          /\ disk' = (IF flushed THEN mem' ELSE disk)
  BY DEF Execute
<1>2. CASE flushed
  BY <1>1, <1>2 DEF Behind
<1>3. CASE ~flushed
  <2>1. SUFFICES ASSUME NEW u \in D, disk.state[u] = "succeeded", disk.trans[u] = src[u]
                 PROVE  mem'.state[u] = "succeeded"
    BY <1>1, <1>3 DEF Behind
  <2>2. u \in Units /\ disk.trans[u] = disk.fp[u]
    BY <2>1 DEF Faithful, Exact
  <2>3. QED
    BY <1>1, <2>1, <2>2 DEF Configured
<1>4. QED
  BY <1>2, <1>3

LEMMA BehindInductive ==
    Shape /\ Dealing /\ Faithful /\ Behind /\ [Next]_vars => Behind'
<1> SUFFICES ASSUME Shape, Dealing, Faithful, Behind, [Next]_vars PROVE Behind'
  OBVIOUS
<1>1. CASE Execute
  BY <1>1, ExecuteBehind
<1>2. ASSUME NEW w \in Workers, Handling(w) PROVE Behind'
  <2>1. phase = "translating" /\ Live(worker[w]) /\ UNCHANGED <<phase, source, todo>>
    BY <1>2, HandlingFrame
  <2>2. Deals(w, worker[w])
    BY <1>2, <2>1, HandlingDeals DEF Dealing
  <2>3. PICK m \in Outcomes, forced \in BOOLEAN, next \in WorkersOver(todo),
             raised \in {"broken", "dead"} :
            RecordOr(w, m, forced, next, raised) /\ DealsOut(worker[w], m, forced, next)
    BY <2>2 DEF Deals
  <2>4. mem' = m /\ disk' \in {disk, m}
    BY <2>3, Recorded
  <2>5. \A u \in Units : mem.state[u] = "succeeded" => m.state[u] = "succeeded"
    BY <2>3 DEF DealsOut
  <2>6. QED
    BY <2>1, <2>4, <2>5 DEF Behind, Shape
<1>3. ASSUME NEW w \in Workers, TakeFile(w) \/ FailResource(w) PROVE Behind'
  <2>1. PICK next \in WorkersOver(todo) : RecordOr(w, mem, TRUE, next, "dead")
    BY <1>3, EndsRecord
  <2>2. mem' = mem /\ (disk' = mem \/ (disk' = disk /\ fails' # 0))
    BY <2>1, RecordedForced
  <2>3. phase = "translating" /\ UNCHANGED <<phase, source, todo>>
    BY <1>3 DEF TakeFile, FailResource
  <2>4. QED
    BY <2>2, <2>3 DEF Behind
<1>4. ASSUME NEW w \in Workers, Break(w) PROVE Behind'
  BY <1>4 DEF Break, Behind
<1>5. CASE Collect
  BY <1>5 DEF Collect, Behind
<1>6. CASE Kill
  BY <1>6 DEF Kill, Behind
<1>7. CASE UNCHANGED vars
  BY <1>7 DEF vars, Behind
<1>8. QED
  BY <1>1, <1>2, <1>3, <1>4, <1>5, <1>6, <1>7 DEF Next, WorkerStep, Handling

\* A request of a thread is made of the units in its hands.
LEMMA SentUnits ==
    ASSUME Shape, Dealing, Behind, [Next]_vars, NEW w \in Workers,
           worker[w].pc = "send", worker'[w].pc = "wait", NEW u \in worker[w].batch.us
    PROVE  mem.state[u] # "succeeded" /\ ~(disk.state[u] = "succeeded" /\ disk.trans[u] = source[u])
<1>1. phase = "translating"
  <2>1. CASE Execute
    <3>1. worker'[w].pc = "idle"
      BY <2>1 DEF Execute, NewWorker
    <3>2. QED
      BY <3>1
  <2>2. ASSUME NEW v \in Workers, WorkerStep(v) \/ Break(v) PROVE phase = "translating"
    BY <2>2 DEF WorkerStep, TakeFile, NextBatch, TooLarge, CompleteFile, Send, Answer, Transient,
                Permanent, Malformed, Parsed, Accept, Close, FailResource, Break
  <2>3. CASE Collect \/ Kill \/ UNCHANGED vars
    <3>1. worker' = worker
      BY <2>3 DEF Collect, Kill, vars
    <3>2. QED
      BY <3>1
  <2>4. QED
    BY <2>1, <2>2, <2>3 DEF Next
<1>2. u \in Pile(worker[w]) /\ Live(worker[w])
  BY DEF Pile, InHand, Live
<1>3. mem.state[u] # "succeeded"
  BY <1>1, <1>2 DEF Dealing, Ready
<1>4. u \in todo
  BY WorkerType DEF WorkersOver, BatchesOver
<1>5. QED
  BY <1>1, <1>3, <1>4 DEF Behind

\* As long as no execution begins with a checkpoint that recorded no fingerprints, a
\* unit whose current source has a recorded translation, in memory or on disk, is
\* never sent: not by another thread, after a split, in a retry or after a resume.
THEOREM NeverPaidTwice ==
    ASSUME ~Legacy
    PROVE  Spec => PaidOnce
<1> DEFINE IInv == Shape /\ Dealing /\ Faithful /\ Behind
<1>1. Init => IInv
  <2>1. Init => Behind
    BY DEF Init, Behind
  <2>2. QED
    BY <2>1, InitShape, InitDealing, InitFaithful
<1>2. IInv /\ [Next]_vars => IInv'
  BY ShapeInductive, DealingInductive, FaithfulInductive, BehindInductive
<1>3. IInv /\ [Next]_vars =>
          \A w \in Workers : worker[w].pc = "send" /\ worker'[w].pc = "wait" =>
              \A u \in worker[w].batch.us :
                  /\ mem.state[u] # "succeeded"
                  /\ ~(disk.state[u] = "succeeded" /\ disk.trans[u] = source[u])
  BY SentUnits
<1>4. QED
  BY <1>1, <1>2, <1>3, PTL DEF Spec, PaidOnce
------------------------------------------------------------------------------
(* The budget: what a thread has sent, against what it has counted.          *)

\* One request may be on its way that is not counted yet.
Within(s) ==
    /\ s.sent <= MaxRequests
    /\ s.pc = "wait" => s.sent <= s.requests + 1
    /\ s.pc \notin {"wait", "broken", "dead"} => s.sent <= s.requests

Budgeted == \A w \in Workers : Within(worker[w])

\* The state next has the counters of s, and so has a thread that ends in it.
SameCounters(s, next) ==
    /\ next.pc # "wait" /\ next.sent = s.sent /\ next.requests = s.requests
    /\ \A x : [next EXCEPT !.pc = x].pc = x /\ [next EXCEPT !.pc = x].sent = next.sent

\* A thread goes on from s without a request.
Goes(w, s) ==
    \E m, forced, next, raised :
        /\ RecordOr(w, m, forced, next, raised) /\ raised \in {"broken", "dead"}
        /\ SameCounters(s, next)

LEMMA GoesWithin ==
    ASSUME Shape, Budgeted, NEW w \in Workers, NEW s, Goes(w, s),
           s.sent <= MaxRequests, s.sent <= s.requests
    PROVE  Budgeted'
<1>1. PICK m, forced, next, raised :
          /\ RecordOr(w, m, forced, next, raised) /\ raised \in {"broken", "dead"}
          /\ SameCounters(s, next)
  BY DEF Goes
<1>2. Within(next) /\ Within([next EXCEPT !.pc = raised])
  BY <1>1 DEF Within, SameCounters
<1>3. \/ worker' = [worker EXCEPT ![w] = next]
      \/ worker' = [worker EXCEPT ![w] = [next EXCEPT !.pc = raised]]
  BY <1>1 DEF RecordOr
<1>4. QED
  BY <1>2, <1>3 DEF Budgeted, Shape

LEMMA ByGoing ==
    ASSUME NEW w, NEW s, NEW m, NEW forced, NEW next, Record(w, m, forced, next),
           SameCounters(s, next)
    PROVE  Goes(w, s)
BY DEF Goes, Record

LEMMA FailingGoes ==
    ASSUME NEW w \in Workers, NEW s \in WorkersOver(todo), FailAll(w, s) \/ OverBudget(w, s)
    PROVE  Goes(w, s)
<1>1. CASE FailAll(w, s)
  <2> DEFINE next == [s EXCEPT !.pc = "next", !.bad = {}]
  <2>1. SameCounters(s, next)
    BY DEF WorkersOver, SameCounters
  <2>2. Record(w, WithFailed(mem, s.batch.us), TRUE, next)
    BY <1>1 DEF FailAll
  <2> HIDE DEF next
  <2>3. QED
    BY <2>1, <2>2, ByGoing
<1>2. CASE OverBudget(w, s)
  <2> DEFINE next == [s EXCEPT !.pc = "next", !.stack = <<>>, !.rest = {}]
             open == {u \in UnitsOf[s.file] \cap todo : mem.state[u] # "succeeded"}
  <2>1. SameCounters(s, next)
    BY DEF WorkersOver, SameCounters
  <2>2. Record(w, WithFailed(mem, open), FALSE, next)
    BY <1>2 DEF OverBudget
  <2> HIDE DEF next
  <2>3. QED
    BY <2>1, <2>2, ByGoing
<1>3. QED
  BY <1>1, <1>2

LEMMA SplitGoes ==
    ASSUME NEW w \in Workers, NEW s \in WorkersOver(todo), NEW n, SplitOrFail(w, s, n)
    PROVE  Goes(w, s)
<1>1. CASE FailAll(w, s)
  BY <1>1, FailingGoes
<1>2. CASE ~FailAll(w, s)
  <2> DEFINE child(us) == [us |-> us, qa |-> s.batch.qa, splits |-> n]
             next(h) == [s EXCEPT !.pc = "next", !.stack = <<child(h[1]), child(h[2])>> \o @]
  <2>1. PICK h : Record(w, mem, TRUE, next(h))
    BY <1>2 DEF SplitOrFail
  <2>2. SameCounters(s, next(h))
    <3> HIDE DEF child
    <3>1. QED
      BY DEF WorkersOver, SameCounters
  <2> HIDE DEF next
  <2>3. QED
    BY <2>1, <2>2, ByGoing
<1>3. QED
  BY <1>1, <1>2

\* The steps between two requests.
LEMMA FileGoes ==
    ASSUME Shape, NEW w \in Workers,
           TakeFile(w) \/ NextBatch(w) \/ TooLarge(w) \/ CompleteFile(w) \/ Accept(w) \/ Close(w)
    PROVE  Goes(w, worker[w]) /\ worker[w].pc \in {"idle", "next", "record", "close"}
<1> DEFINE s == worker[w]
<1>1. s \in WorkersOver(todo)
  BY DEF Shape
<1>2. ASSUME NEW m, NEW forced, NEW next, NEW raised \in {"broken", "dead"},
             RecordOr(w, m, forced, next, raised),
             SameCounters(s, next)
      PROVE  Goes(w, s)
  BY <1>2 DEF Goes
<1>3. CASE TakeFile(w)
  <2> DEFINE next(f) == [s EXCEPT !.pc = "next", !.file = f,
                            !.rest = {u \in UnitsOf[f] \cap todo : mem.state[u] # "succeeded"}]
  <2>1. s.pc = "idle" /\ \E f : RecordOr(w, mem, TRUE, next(f), "dead")
    BY <1>3 DEF TakeFile
  <2>2. ASSUME NEW f
        PROVE  SameCounters(s, next(f))
    BY <1>1, <2>1 DEF WorkersOver, SameCounters
  <2> HIDE DEF next
  <2>3. Goes(w, s)
    BY <1>2, <2>1, <2>2
  <2>4. QED
    BY <2>1, <2>3
<1>4. CASE NextBatch(w)
  <2> DEFINE popped == [s EXCEPT !.stack = Tail(@)]
             cut(us) == [s EXCEPT !.rest = @ \ us]
             batch(us) == [us |-> us, qa |-> FALSE, splits |-> MaxSplits]
  <2>1. /\ s.pc = "next"
        /\ \/ Record(w, mem, TRUE, Begun(popped, Head(s.stack)))
           \/ \E us : Record(w, mem, TRUE, Begun(cut(us), batch(us)))
    BY <1>4 DEF NextBatch
  <2>2. ASSUME NEW b
        PROVE  SameCounters(s, Begun(popped, b))
    BY <1>1 DEF WorkersOver, Begun, SameCounters
  <2>3. ASSUME NEW us, NEW b
        PROVE  SameCounters(s, Begun(cut(us), b))
    BY <1>1 DEF WorkersOver, Begun, SameCounters
  <2> HIDE DEF popped, cut, batch
  <2>4. Goes(w, s)
    BY <1>2, <2>1, <2>2, <2>3 DEF Record
  <2>5. QED
    BY <2>1, <2>4
<1>5. CASE TooLarge(w)
  <2> DEFINE next(u) == [s EXCEPT !.rest = @ \ {u}]
  <2>1. s.pc = "next" /\ \E u : Record(w, WithFailed(mem, {u}), TRUE, next(u))
    BY <1>5 DEF TooLarge
  <2>2. ASSUME NEW f
        PROVE  SameCounters(s, next(f))
    BY <1>1, <2>1 DEF WorkersOver, SameCounters
  <2> HIDE DEF next
  <2>3. Goes(w, s)
    BY <1>2, <2>1, <2>2 DEF Record
  <2>4. QED
    BY <2>1, <2>3
<1>6. CASE CompleteFile(w)
  <2> DEFINE next == [s EXCEPT !.pc = "idle", !.file = NoFile, !.batch = NoBatch]
  <2>1. s.pc = "next" /\ RecordOr(w, mem, TRUE, next, "dead")
    BY <1>6 DEF CompleteFile
  <2>2. SameCounters(s, next)
    BY <1>1 DEF WorkersOver, SameCounters
  <2> HIDE DEF next
  <2>3. Goes(w, s)
    BY <1>2, <2>1, <2>2
  <2>4. QED
    BY <2>1, <2>3
<1>7. CASE Accept(w)
  <2> DEFINE closed == [s EXCEPT !.pc = "close"]
             next(u) == [s EXCEPT !.good = @ \ {u}]
  <2>1. /\ s.pc = "record"
        /\ \/ Record(w, mem, FALSE, closed)
           \/ \E u : Record(w, WithSucceeded(mem, {u}), FALSE, next(u))
    BY <1>7 DEF Accept
  <2>2. SameCounters(s, closed)
    BY <1>1 DEF WorkersOver, SameCounters
  <2>3. ASSUME NEW f
        PROVE  SameCounters(s, next(f))
    BY <1>1, <2>1 DEF WorkersOver, SameCounters
  <2> HIDE DEF next, closed
  <2>4. Goes(w, s)
    BY <1>2, <2>1, <2>2, <2>3 DEF Record
  <2>5. QED
    BY <2>1, <2>4
<1>8. CASE Close(w)
  <2> DEFINE next == [s EXCEPT !.pc = "next", !.bad = {}]
             again == [next EXCEPT !.stack =
                          <<[us |-> Retried(s), qa |-> TRUE, splits |-> MaxSplits]>> \o @]
  <2>1. s.pc = "close" /\ \E m : Record(w, m, TRUE, next) \/ Record(w, m, TRUE, again)
    BY <1>8 DEF Close
  <2>2. SameCounters(s, next)
    BY <1>1 DEF WorkersOver, SameCounters
  <2>3. SameCounters(s, again)
    BY <1>1 DEF WorkersOver, SameCounters
  <2> HIDE DEF next, again
  <2>4. Goes(w, s)
    BY <1>2, <2>1, <2>2, <2>3 DEF Record
  <2>5. QED
    BY <2>1, <2>4
<1>9. QED
  BY <1>3, <1>4, <1>5, <1>6, <1>7, <1>8

\* The answers, each of which is counted.
LEMMA AnswerGoes ==
    ASSUME Shape, NEW w \in Workers, Answer(w)
    PROVE  /\ worker[w].pc = "wait"
           /\ \E s \in WorkersOver(todo) : /\ Goes(w, s) /\ s.sent = worker[w].sent
                                           /\ s.requests = worker[w].requests + 1
<1> DEFINE c == Counted(worker[w])
           r == Received(worker[w])
<1>1. /\ c \in WorkersOver(todo) /\ c.sent = worker[w].sent /\ c.requests = worker[w].requests + 1
      /\ r \in WorkersOver(todo) /\ r.sent = worker[w].sent /\ r.requests = worker[w].requests + 1
      /\ c.pc = worker[w].pc /\ r.pc = worker[w].pc
  <2>1. worker[w] \in WorkersOver(todo)
    BY DEF Shape
  <2>2. /\ c \in WorkersOver(todo) /\ c.sent = worker[w].sent /\ c.pc = worker[w].pc
        /\ c.requests = worker[w].requests + 1
    BY <2>1 DEF WorkersOver, Counted
  <2>3. r = [c EXCEPT !.tokens = c.tokens + 1]
    BY DEF Received
  <2> HIDE DEF c, r
  <2>4. /\ r \in WorkersOver(todo) /\ r.sent = c.sent /\ r.pc = c.pc
        /\ r.requests = c.requests
    BY <2>2, <2>3 DEF WorkersOver
  <2>5. QED
    BY <2>2, <2>4
<1>2. worker[w].pc = "wait"
  <2>1. c.pc = "wait" \/ r.pc = "wait"
    BY DEF Answer, Transient, Permanent, Malformed, Parsed
  <2>2. QED
    BY <1>1, <2>1
<1>3. ASSUME NEW s \in WorkersOver(todo), NEW m, NEW forced, NEW next,
             Record(w, m, forced, next), SameCounters(s, next)
      PROVE  Goes(w, s)
  BY <1>3, ByGoing
<1> HIDE DEF c, r
<1>4. CASE Transient(w)
  <2> DEFINE next == [c EXCEPT !.pc = "send", !.attempt = @ + 1]
  <2>1. \/ Record(w, mem, TRUE, next)
        \/ FailAll(w, c)
        \/ SplitOrFail(w, c, c.batch.splits - 1)
    BY <1>4 DEF Transient, c
  <2>2. SameCounters(c, next)
    BY <1>1 DEF WorkersOver, SameCounters
  <2> HIDE DEF next
  <2>3. Goes(w, c)
    BY <1>1, <1>3, <2>1, <2>2, FailingGoes, SplitGoes
  <2>4. QED
    BY <1>1, <1>2, <2>3
<1>5. CASE Permanent(w)
  <2>1. Goes(w, c)
    BY <1>1, <1>5, FailingGoes, SplitGoes DEF Permanent, c
  <2>2. QED
    BY <1>1, <1>2, <2>1
<1>6. CASE Malformed(w)
  <2> DEFINE next == [r EXCEPT !.pc = "send", !.repaired = TRUE]
  <2>1. OverBudget(w, r) \/ Record(w, mem, TRUE, next) \/ SplitOrFail(w, r, MaxSplits)
    BY <1>6 DEF Malformed, r
  <2>2. SameCounters(r, next)
    BY <1>1 DEF WorkersOver, SameCounters
  <2> HIDE DEF next
  <2>3. Goes(w, r)
    BY <1>1, <1>3, <2>1, <2>2, FailingGoes, SplitGoes
  <2>4. QED
    BY <1>1, <1>2, <2>3
<1>7. CASE Parsed(w)
  <2> DEFINE next(b) == [r EXCEPT !.pc = "record", !.good = r.batch.us \ b, !.bad = b]
  <2>1. PICK b : Record(w, mem, FALSE, next(b))
    BY <1>7 DEF Parsed, r
  <2>2. SameCounters(r, next(b))
    BY <1>1 DEF WorkersOver, SameCounters
  <2> HIDE DEF next
  <2>3. Goes(w, r)
    BY <1>1, <1>3, <2>1, <2>2
  <2>4. QED
    BY <1>1, <1>2, <2>3
<1>8. QED
  BY <1>4, <1>5, <1>6, <1>7 DEF Answer

LEMMA Counts ==
    ASSUME Shape, NEW w \in Workers
    PROVE  worker[w] \in WorkersOver(todo) /\ worker[w].sent \in Nat /\ worker[w].requests \in Nat
BY DEF Shape, WorkersOver

LEMMA SendBudgeted == ASSUME Shape, Budgeted, NEW w \in Workers, Send(w) PROVE Budgeted'
<1> DEFINE s == worker[w]
           next == [s EXCEPT !.pc = "wait", !.sent = @ + 1]
<1>1. s \in WorkersOver(todo) /\ s.sent \in Nat /\ s.requests \in Nat
  BY Counts
<1>2. s.pc = "send" /\ s.sent <= MaxRequests /\ s.sent <= s.requests
  BY DEF Send, Budgeted, Within
<1>3. CASE s.requests >= MaxRequests
  <2>1. OverBudget(w, s)
    BY <1>3 DEF Send
  <2>2. QED
    BY <1>1, <1>2, <2>1, FailingGoes, GoesWithin
<1>4. CASE ~(s.requests >= MaxRequests)
  <2>1. Record(w, mem, FALSE, next)
    BY <1>4 DEF Send
  <2>2. next.pc = "wait" /\ next.sent = s.sent + 1 /\ next.requests = s.requests
    BY <1>1 DEF WorkersOver
  <2>3. [next EXCEPT !.pc = "broken"].pc = "broken" /\ [next EXCEPT !.pc = "broken"].sent = s.sent + 1
    BY <1>1 DEF WorkersOver
  <2>4. \/ worker' = [worker EXCEPT ![w] = next]
        \/ worker' = [worker EXCEPT ![w] = [next EXCEPT !.pc = "broken"]]
    BY <2>1 DEF Record, RecordOr
  <2> HIDE DEF next
  <2>5. s.sent + 1 <= MaxRequests /\ s.sent + 1 <= s.requests + 1
    BY <1>1, <1>2, <1>4, BoundsAreNat
  <2>6. Within(next) /\ Within([next EXCEPT !.pc = "broken"])
    BY <2>2, <2>3, <2>5 DEF Within
  <2>7. QED
    BY <2>4, <2>6 DEF Budgeted, Shape
<1>5. QED
  BY <1>3, <1>4

LEMMA BudgetInductive == ASSUME Shape, Budgeted, [Next]_vars PROVE Budgeted'
<1>1. CASE Execute
  BY <1>1, BoundsAreNat DEF Execute, Budgeted, Within, NewWorker
<1>2. ASSUME NEW w \in Workers, WorkerStep(w), ~Send(w), ~Answer(w), ~FailResource(w)
      PROVE  Budgeted'
  <2>1. Goes(w, worker[w]) /\ worker[w].pc \in {"idle", "next", "record", "close"}
    BY <1>2, FileGoes DEF WorkerStep
  <2>2. worker[w].sent <= MaxRequests /\ worker[w].sent <= worker[w].requests
    BY <2>1 DEF Budgeted, Within
  <2>3. QED
    BY <2>1, <2>2, GoesWithin
<1>3. ASSUME NEW w \in Workers, Answer(w) PROVE Budgeted'
  <2>1. PICK s \in WorkersOver(todo) : /\ Goes(w, s) /\ s.sent = worker[w].sent
                                       /\ s.requests = worker[w].requests + 1
    BY <1>3, AnswerGoes
  <2>2. s.sent <= MaxRequests /\ s.sent <= s.requests
    BY <1>3, <2>1, AnswerGoes DEF Budgeted, Within
  <2>3. QED
    BY <2>1, <2>2, GoesWithin
<1>4. ASSUME NEW w \in Workers, NEW pc \in {"broken", "dead"}, worker' = [worker EXCEPT ![w].pc = pc]
      PROVE  Budgeted'
  <2>1. worker'[w].pc = pc /\ worker'[w].sent = worker[w].sent
    BY <1>4, Counts DEF Shape, WorkersOver
  <2>2. \A v \in Workers \ {w} : worker'[v] = worker[v]
    BY <1>4 DEF Shape
  <2>3. QED
    BY <2>1, <2>2 DEF Budgeted, Within
<1>5. ASSUME NEW w \in Workers, FailResource(w) PROVE Budgeted'
  <2>1. worker' = [worker EXCEPT ![w].pc = "dead"]
    BY <1>5, Counts DEF FailResource, RecordOr, Shape, WorkersOver
  <2>2. QED
    BY <1>4, <2>1
<1>6. ASSUME NEW w \in Workers, Break(w) PROVE Budgeted'
  BY <1>4, <1>6 DEF Break
<1>7. CASE Collect \/ Kill \/ UNCHANGED vars
  BY <1>7 DEF Collect, Kill, vars, Budgeted
<1>8. QED
  BY <1>1, <1>2, <1>3, <1>5, <1>6, <1>7, SendBudgeted DEF Next

\* The calls of the provider stay within max_requests of each worker, whatever it
\* answers: no retry, repair, split or content retry makes one that is not counted.
THEOREM Bounded == Spec => []SentWithinBudget
<1>1. Init => Shape /\ Budgeted
  BY InitShape, BoundsAreNat DEF Init, Budgeted, Within, NewWorker
<1>2. Shape /\ Budgeted /\ [Next]_vars => (Shape /\ Budgeted)'
  BY ShapeInductive, BudgetInductive
<1>3. Budgeted => SentWithinBudget
  BY DEF Budgeted, Within, SentWithinBudget
<1>4. QED
  BY <1>1, <1>2, <1>3, PTL DEF Spec
==============================================================================
