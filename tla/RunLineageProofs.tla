-------------------------- MODULE RunLineageProofs --------------------------
(****************************************************************************)
(* Rebuilds ship current translations and pay for each once, for any number *)
(* of runs, units, versions and generations.                                *)
(*                                                                          *)
(* The reason for the first is one fact about checkpoints: a translation in *)
(* a checkpoint is of the version its fingerprint records. Comparing that   *)
(* fingerprint with the present source is then as good as comparing the     *)
(* translation, whatever run it came from and however many handed it on.    *)
(*                                                                          *)
(* The second follows the other way: what a run has shipped for the present *)
(* text stays in its checkpoint (Kept), so a child of it finds it there.    *)
(*                                                                          *)
(* Last, a run that is not cut off leaves evidence of every run that was    *)
(* paid for its checkpoint (Alone), when one executes after the other.      *)
(****************************************************************************)
EXTENDS RunLineage, FiniteSetTheorems, TLAPS

\* A translation is of the version the fingerprint records.
Truthful(c) == \A u \in Units : c.trans[u] # 0 => c.trans[u] = c.fp[u]

CheckpointsOK == \A r \in Runs : ckpt[r] # None => Truthful(ckpt[r])

\* What is reused is of the version planned, of a unit this run needs, and of some run.
ReuseOK(e) ==
    /\ \A u \in Units : e.reused[u] # 0 => u \in e.pending /\ e.reused[u] = e.plan[u]
    /\ e.todo \subseteq e.pending
    /\ e.from # None => e.base \in Runs

\* The checkpoint in memory records the fingerprints of this plan.
MemoryOK(e) ==
    e.pc \in {"seed", "translate", "save", "build"} =>
        Truthful(e.mem) /\ \A u \in e.pending : e.mem.fp[u] = e.plan[u]

ExecutionsOK == \A r \in Runs : ReuseOK(exec[r]) /\ MemoryOK(exec[r])

Inv == TypeOK /\ CheckpointsOK /\ ExecutionsOK

\* An execution and a checkpoint that satisfy their part of the invariant.
GoodExec(e) == e \in Executions /\ ReuseOK(e) /\ MemoryOK(e)

GoodCkpt(c) == c \in Checkpoints /\ Truthful(c)

------------------------------------------------------------------------------
\* The values the specification starts with are well typed.
LEMMA ConstantTypes ==
    /\ Empty \in Checkpoints /\ Idle \in Executions /\ NoRecords \in Records
    /\ \A r \in Runs, D \in SUBSET Units : Paid(r, D) \in Checkpoints
BY BoundsAreNat DEF Empty, Idle, NoRecords, Never, Nobody, Paid, Checkpoints, Executions, Records,
                    Versions

\* The initial states satisfy the invariant: what an old run left is of version 1.
LEMMA InitInv == Init => Inv
<1>. SUFFICES ASSUME Init PROVE Inv
  OBVIOUS
<1>1. PICK root \in (IF OldRuns = {} THEN {None} ELSE OldRuns), D \in (SUBSET Units) \ {{}} :
          /\ ckpt = [r \in Runs |-> IF r = root THEN Paid(r, D) ELSE None]
          /\ request = [r \in Runs |-> IF r \in OldRuns \ {root} THEN root ELSE None]
          /\ shipped = [r \in Runs |-> IF r = root THEN D \X {1} ELSE {}]
  BY DEF Init
<1>2. ckpt \in [Runs -> Checkpoints \cup {None}]
  BY <1>1, ConstantTypes
<1>3. request \in [Runs -> Runs \cup {None}]
  BY <1>1, KnownRuns
<1>4. shipped \in [Runs -> SUBSET (Units \X Versions)]
  BY <1>1, BoundsAreNat DEF Versions
<1>5. TypeOK
  BY <1>2, <1>3, <1>4, ConstantTypes, BoundsAreNat DEF Init, TypeOK
<1>6. CheckpointsOK
  BY <1>1 DEF CheckpointsOK, Truthful, Paid
<1>7. ExecutionsOK
  BY DEF Init, ExecutionsOK, ReuseOK, MemoryOK, Idle, Never
<1>. QED  BY <1>5, <1>6, <1>7 DEF Inv

\* The plan of an execution is the sources of that moment, and what it reuses comes
\* from the checkpoint of an ancestor that recorded the same fingerprints.
LEMMA BeginInv ==
    ASSUME Inv, NEW r \in Runs, NEW from \in Runs \cup {None}, NEW web \in BOOLEAN,
           Begin(r, from, web)
    PROVE  Inv'
<1> DEFINE start == [Idle EXCEPT !.pc = "configure", !.plan = source, !.pending = Units \ settled,
                         !.known = UNION {shipped[q] : q \in {r, from} \ {None}}]
           R(b) == {u \in Units \ settled : Reusable(ckpt[b], u)}
           rebuild(b) == [start EXCEPT !.from = from, !.base = b,
               !.reused = [u \in Units |-> IF u \in R(b) THEN ckpt[b].trans[u] ELSE 0],
               !.payer  = [u \in Units |-> IF u \in R(b) THEN ckpt[b].by[u] ELSE None]]
<1>0. /\ TypeOK /\ CheckpointsOK /\ ExecutionsOK
      /\ source \in [Units -> Versions] /\ 0 \in Versions
      /\ UNION {shipped[q] : q \in {r, from} \ {None}} \in SUBSET (Units \X Versions)
  BY BoundsAreNat DEF Inv, TypeOK, Versions
<1>1. GoodExec(start)
  BY <1>0, ConstantTypes DEF Executions, Idle, Never, ReuseOK, MemoryOK, GoodExec
<1>2. ASSUME NEW b \in Runs, from # None, ckpt[b] # None
      PROVE  GoodExec(rebuild(b))
  <2>1. ckpt[b] \in Checkpoints /\ Truthful(ckpt[b])
    BY <1>0, <1>2 DEF TypeOK, CheckpointsOK
  <2>2. /\ [u \in Units |-> IF u \in R(b) THEN ckpt[b].trans[u] ELSE 0] \in [Units -> Versions]
        /\ [u \in Units |-> IF u \in R(b) THEN ckpt[b].by[u] ELSE None] \in [Units -> Runs \cup {None}]
    BY <1>0, <2>1 DEF Checkpoints
  <2>3. \A u \in R(b) : ckpt[b].trans[u] = source[u]
    BY <2>1 DEF Reusable, Truthful
  <2>4. /\ start.plan = source /\ start.pending = Units \ settled /\ start.pc = "configure"
        /\ start.todo = {} /\ start \in Executions
    BY <1>1 DEF Idle, GoodExec
  <2>. HIDE DEF start, R
  <2>5. rebuild(b) \in Executions
    BY <1>2, <2>2, <2>4 DEF Executions
  <2>6. /\ rebuild(b).plan = source /\ rebuild(b).pending = Units \ settled
        /\ rebuild(b).pc = "configure" /\ rebuild(b).todo = {}
        /\ rebuild(b).base = b
        /\ rebuild(b).reused = [u \in Units |-> IF u \in R(b) THEN ckpt[b].trans[u] ELSE 0]
    BY <2>4 DEF Executions
  <2>7. \A u \in R(b) : u \in Units \ settled
    BY DEF R
  <2>. HIDE DEF rebuild
  <2>. QED  BY <2>3, <2>5, <2>6, <2>7 DEF ReuseOK, MemoryOK, GoodExec
<1>3. \E e : GoodExec(e) /\ exec' = [exec EXCEPT ![r] = e]
  <2>1. CASE from = None
    BY <1>1, <2>1 DEF Begin
  <2>2. CASE from # None
    <3>1. PICK b \in Resolved(from) : exec' = [exec EXCEPT ![r] = rebuild(b)]
      BY <2>2 DEF Begin
    <3>2. b \in Runs /\ ckpt[b] # None
      BY <3>1 DEF Resolved
    <3>. HIDE DEF rebuild, start
    <3>. QED  BY <1>2, <2>2, <3>1, <3>2
  <2>. QED  BY <2>1, <2>2
<1>4. request' \in [Runs -> Runs \cup {None}]
  BY <1>0 DEF Begin, TypeOK
<1>. HIDE DEF start
<1>. QED  BY <1>0, <1>3, <1>4 DEF Begin, GoodExec, Inv, TypeOK, CheckpointsOK, ExecutionsOK

\* A step that changes one execution, and its own checkpoint or none, keeps the
\* invariant if both stay good.
LEMMA StepInv ==
    ASSUME Inv, NEW r \in Runs, NEW e, GoodExec(e), exec' = [exec EXCEPT ![r] = e],
           NEW c, GoodCkpt(c), UNCHANGED ckpt \/ ckpt' = [ckpt EXCEPT ![r] = c],
           UNCHANGED <<source, settled, request>>,
           lineage' \in [Runs -> Runs \cup {None}], evidence' \in [Runs -> Records],
           kills' \in 0..MaxKills, shipped' \in [Runs -> SUBSET (Units \X Versions)]
    PROVE  Inv'
BY DEF Inv, TypeOK, GoodExec, GoodCkpt, CheckpointsOK, ExecutionsOK

\* What every step of an execution starts from.
LEMMA Given ==
    ASSUME Inv, NEW r \in Runs
    PROVE  /\ GoodExec(exec[r]) /\ exec[r].mem \in Checkpoints
           /\ ckpt[r] \in Checkpoints \cup {None} /\ (ckpt[r] # None => GoodCkpt(ckpt[r]))
           /\ exec \in [Runs -> Executions]
           /\ lineage \in [Runs -> Runs \cup {None}] /\ evidence \in [Runs -> Records]
           /\ kills \in 0..MaxKills /\ shipped \in [Runs -> SUBSET (Units \X Versions)]
BY DEF Inv, TypeOK, GoodExec, GoodCkpt, CheckpointsOK, ExecutionsOK, Executions

LEMMA EmptyIsGood == GoodCkpt(Empty)
BY ConstantTypes DEF GoodCkpt, Truthful, Empty, Never

LEMMA IdleIsGood == GoodExec(Idle)
BY ConstantTypes DEF GoodExec, ReuseOK, MemoryOK, Idle, Never

\* configure_run makes the fingerprints those of the plan, and keeps only the
\* translations that had them before.
LEMMA ConfiguredIsGood ==
    ASSUME NEW c, GoodCkpt(c), NEW plan \in [Units -> Versions], NEW D \in SUBSET Units
    PROVE  GoodCkpt(Configured(c, plan, D)) /\ \A u \in D : Configured(c, plan, D).fp[u] = plan[u]
<1> DEFINE stale == {u \in D : c.fp[u] \notin {0, plan[u]}}
<1>0. /\ c \in Checkpoints /\ \A u \in Units : c.trans[u] # 0 => c.trans[u] = c.fp[u]
      /\ 0 \in Versions
  BY BoundsAreNat DEF GoodCkpt, Truthful, Versions
<1>1. /\ Configured(c, plan, D).trans = [u \in Units |-> IF u \in stale THEN 0 ELSE c.trans[u]]
      /\ Configured(c, plan, D).fp = [u \in Units |-> IF u \in D THEN plan[u] ELSE c.fp[u]]
      /\ Configured(c, plan, D) \in Checkpoints
  BY <1>0 DEF Configured, Checkpoints
<1>2. \A u \in D : Configured(c, plan, D).fp[u] = plan[u]
  BY <1>1
<1>3. Truthful(Configured(c, plan, D))
  BY <1>0, <1>1 DEF Truthful
<1>. QED  BY <1>1, <1>2, <1>3 DEF GoodCkpt

LEMMA ConfigureInv == ASSUME Inv, NEW r \in Runs, Configure(r) PROVE Inv'
<1> DEFINE old == IF ckpt[r] = None THEN Empty ELSE ckpt[r]
           c == Configured(old, exec[r].plan, exec[r].pending)
           e == [exec[r] EXCEPT !.mem = c, !.pc = "seed"]
<1>1. /\ exec[r] \in Executions /\ exec[r].plan \in [Units -> Versions]
      /\ exec[r].pending \in SUBSET Units /\ GoodExec(exec[r])
  BY Given DEF GoodExec, Executions
<1>2. GoodCkpt(c) /\ \A u \in exec[r].pending : c.fp[u] = exec[r].plan[u]
  BY <1>1, Given, EmptyIsGood, ConfiguredIsGood
<1>3. ckpt' = [ckpt EXCEPT ![r] = c] /\ exec' = [exec EXCEPT ![r] = e]
  BY Given DEF Configure
<1>. HIDE DEF c
<1>4. e \in Executions /\ e.mem = c /\ e.pc = "seed" /\ e.pending = exec[r].pending
      /\ e.plan = exec[r].plan /\ e.reused = exec[r].reused
      /\ e.from = exec[r].from /\ e.base = exec[r].base /\ e.todo = exec[r].todo
  BY <1>1, <1>2 DEF Executions, GoodCkpt
<1>. HIDE DEF e
<1>5. GoodExec(e)
  BY <1>1, <1>2, <1>4 DEF GoodExec, ReuseOK, MemoryOK, GoodCkpt
<1>6. lineage' \in [Runs -> Runs \cup {None}]
  BY <1>1, Given DEF Configure, Executions
<1>. QED  BY <1>2, <1>3, <1>5, <1>6, Given, StepInv DEF Configure

\* The reused translations are of the versions planned, which are the fingerprints.
LEMMA SeededIsGood ==
    ASSUME NEW e, GoodExec(e), e.pc = "seed",
           NEW D, D \subseteq {u \in Units : e.reused[u] # 0}
    PROVE  /\ GoodCkpt(Seeded(e.mem, e, D))
           /\ \A u \in e.pending : Seeded(e.mem, e, D).fp[u] = e.plan[u]
<1> DEFINE c == Seeded(e.mem, e, D)
<1>1. /\ e.mem \in Checkpoints /\ e.reused \in [Units -> Versions]
      /\ e.payer \in [Units -> Runs \cup {None}]
      /\ \A u \in Units : e.mem.trans[u] # 0 => e.mem.trans[u] = e.mem.fp[u]
      /\ \A u \in e.pending : e.mem.fp[u] = e.plan[u]
      /\ \A u \in D : u \in e.pending /\ e.reused[u] = e.plan[u]
  BY DEF GoodExec, Executions, MemoryOK, ReuseOK, Truthful
<1>2. /\ c.trans = [u \in Units |-> IF u \in D THEN e.reused[u] ELSE e.mem.trans[u]]
      /\ c.fp = e.mem.fp /\ c \in Checkpoints
  BY <1>1 DEF Seeded, Checkpoints
<1>. HIDE DEF c
<1>3. Truthful(c)
  BY <1>1, <1>2 DEF Truthful
<1>. QED  BY <1>1, <1>2, <1>3 DEF GoodCkpt, c

LEMMA SeedInv == ASSUME Inv, NEW r \in Runs, Seed(r) PROVE Inv'
<1> DEFINE c == Seeded(exec[r].mem, exec[r], Reused(r))
           todo == {u \in exec[r].pending \ Reused(r) : c.trans[u] = 0}
           e == [exec[r] EXCEPT !.mem = c, !.pc = "translate", !.todo = todo]
<1>1. exec[r] \in Executions /\ GoodExec(exec[r]) /\ exec[r].pc = "seed"
      /\ exec[r].pending \in SUBSET Units
  BY Given DEF GoodExec, Executions, Seed
<1>2. GoodCkpt(c) /\ \A u \in exec[r].pending : c.fp[u] = exec[r].plan[u]
  BY <1>1, SeededIsGood DEF Reused
<1>3. ckpt' = [ckpt EXCEPT ![r] = c] /\ exec' = [exec EXCEPT ![r] = e]
  BY Given DEF Seed
<1>4. todo \subseteq exec[r].pending
  OBVIOUS
<1>. HIDE DEF c, todo
<1>5. e \in Executions /\ e.mem = c /\ e.pc = "translate" /\ e.pending = exec[r].pending
      /\ e.plan = exec[r].plan /\ e.reused = exec[r].reused
      /\ e.from = exec[r].from /\ e.base = exec[r].base /\ e.todo = todo
  BY <1>1, <1>2, <1>4 DEF Executions, GoodCkpt
<1>. HIDE DEF e
<1>6. GoodExec(e)
  BY <1>1, <1>2, <1>4, <1>5 DEF GoodExec, ReuseOK, MemoryOK, GoodCkpt
<1>. QED  BY <1>2, <1>3, <1>6, Given, StepInv DEF Seed

\* A result leaves a checkpoint, and every translation of the version recorded for it.
LEMMA AnsweredIsGood ==
    ASSUME NEW c, GoodCkpt(c), c \in Checkpoints, NEW u \in Units, NEW p \in Runs \cup {None},
           NEW v \in Versions, v \in {0, c.fp[u]}, NEW n \in Nat, c.requests + n <= MaxRequests
    PROVE  /\ Answered(c, u, v, p, n) \in Checkpoints /\ GoodCkpt(Answered(c, u, v, p, n))
           /\ Answered(c, u, v, p, n).fp = c.fp
           /\ Answered(c, u, v, p, n).trans = [c.trans EXCEPT ![u] = v]
<1> DEFINE d == Answered(c, u, v, p, n)
<1>1. /\ c.trans \in [Units -> Versions] /\ c.fp \in [Units -> Versions]
      /\ c.by \in [Units -> Runs \cup {None}] /\ c.requests \in 0..MaxRequests
  BY DEF Checkpoints
<1>2. d = [trans |-> [c.trans EXCEPT ![u] = v], fp |-> c.fp,
           by |-> [c.by EXCEPT ![u] = p], requests |-> c.requests + n]
  BY DEF Answered
<1>. HIDE DEF d
<1>3. [c.trans EXCEPT ![u] = v] \in [Units -> Versions]
      /\ [c.by EXCEPT ![u] = p] \in [Units -> Runs \cup {None}]
  BY <1>1
<1>4. c.requests + n \in 0..MaxRequests
  BY <1>1, BoundsAreNat
<1>5. d \in Checkpoints /\ d.fp = c.fp /\ d.trans = [c.trans EXCEPT ![u] = v]
  BY <1>1, <1>2, <1>3, <1>4 DEF Checkpoints
<1>6. Truthful(d)
  BY <1>1, <1>5 DEF Truthful, GoodCkpt
<1>. QED  BY <1>5, <1>6 DEF GoodCkpt, d

\* What a request for u leaves: the checkpoint c with its result, of the version
\* planned and paid for by this run, or with none.
Asked(r, u, c) ==
    /\ c \in Checkpoints /\ GoodCkpt(c) /\ c.fp = exec[r].mem.fp
    /\ c.requests >= exec[r].mem.requests
    /\ \E v \in Versions, p \in Runs \cup {None} :
           /\ c.trans = [exec[r].mem.trans EXCEPT ![u] = v] /\ c.by = [exec[r].mem.by EXCEPT ![u] = p]
           /\ v # 0 => p = r /\ c.requests > 0
    /\ exec' = [exec EXCEPT ![r].mem = c, ![r].todo = @ \ {u}]
    /\ ckpt' = [ckpt EXCEPT ![r] = c] \/ UNCHANGED ckpt

LEMMA AskResult ==
    ASSUME Inv, NEW r \in Runs, NEW u \in Units, Ask(r, u) PROVE \E c : Asked(r, u, c)
<1> DEFINE m == exec[r].mem
           After(c) == /\ exec' = [exec EXCEPT ![r].mem = c, ![r].todo = @ \ {u}]
                       /\ ckpt' = [ckpt EXCEPT ![r] = c] \/ UNCHANGED ckpt
<1>1. /\ GoodExec(exec[r]) /\ exec[r].pc = "translate" /\ m \in Checkpoints
      /\ exec[r].plan \in [Units -> Versions] /\ u \in exec[r].todo /\ u \in exec[r].pending
      /\ m.requests \in 0..MaxRequests
  BY Given DEF GoodExec, Executions, Ask, ReuseOK, Checkpoints
<1>2. /\ GoodCkpt(m) /\ exec[r].plan[u] \in Versions /\ m.fp[u] = exec[r].plan[u] /\ 0 \in Versions
  BY <1>1, BoundsAreNat DEF GoodExec, GoodCkpt, MemoryOK, Versions
<1>3. ASSUME NEW v \in Versions, v \in {0, m.fp[u]}, NEW p \in Runs \cup {None}, NEW n \in Nat,
             m.requests + n <= MaxRequests, v # 0 => p = r /\ n > 0, After(Answered(m, u, v, p, n))
      PROVE  Asked(r, u, Answered(m, u, v, p, n))
  <2>1. /\ Answered(m, u, v, p, n) \in Checkpoints /\ GoodCkpt(Answered(m, u, v, p, n))
        /\ Answered(m, u, v, p, n).fp = m.fp
        /\ Answered(m, u, v, p, n).trans = [m.trans EXCEPT ![u] = v]
    <3>. HIDE DEF m
    <3>. QED  BY <1>1, <1>2, <1>3, AnsweredIsGood
  <2>2. Answered(m, u, v, p, n).by = [m.by EXCEPT ![u] = p]
        /\ Answered(m, u, v, p, n).requests = m.requests + n
    BY DEF Answered
  <2>3. m.requests + n >= m.requests /\ (v # 0 => m.requests + n > 0)
    BY <1>1, <1>3
  <2>. QED  BY <1>3, <2>1, <2>2, <2>3 DEF Asked
<1>4. CASE m.requests = MaxRequests
  <2>1. After(Answered(m, u, 0, None, 0))
    BY <1>4 DEF Ask
  <2>2. m.requests + 0 <= MaxRequests /\ 0 \in Nat /\ 0 \in {0, m.fp[u]} /\ None \in Runs \cup {None}
    BY <1>1, <1>4, BoundsAreNat
  <2>. HIDE DEF m, After
  <2>. QED  BY <1>2, <1>3, <2>1, <2>2
<1>5. CASE m.requests # MaxRequests
  <2>1. After(Answered(m, u, 0, None, 1)) \/ After(Answered(m, u, exec[r].plan[u], r, 1))
    BY <1>5 DEF Ask
  <2>2. m.requests + 1 <= MaxRequests /\ 1 \in Nat /\ 1 > 0
    BY <1>1, <1>5, BoundsAreNat
  <2>3. /\ 0 \in {0, m.fp[u]} /\ exec[r].plan[u] \in {0, m.fp[u]}
        /\ None \in Runs \cup {None} /\ r \in Runs \cup {None}
    BY <1>2
  <2>. HIDE DEF m, After
  <2>. QED  BY <1>2, <1>3, <2>1, <2>2, <2>3
<1>. QED  BY <1>4, <1>5

\* A result is of the version planned, which is the fingerprint of its unit.
LEMMA AskInv == ASSUME Inv, NEW r \in Runs, NEW u \in Units, Ask(r, u) PROVE Inv'
<1>1. /\ exec[r] \in Executions /\ GoodExec(exec[r]) /\ exec[r].pc = "translate"
      /\ exec[r].mem \in Checkpoints
  BY Given DEF GoodExec, Ask
<1>4. PICK c : Asked(r, u, c)
  BY AskResult
<1> DEFINE e == [exec[r] EXCEPT !.mem = c, !.todo = exec[r].todo \ {u}]
<1>5. exec' = [exec EXCEPT ![r] = e]
  BY <1>4, Given DEF Asked
<1>6. e \in Executions /\ e.mem = c /\ e.pc = "translate" /\ e.pending = exec[r].pending
      /\ e.plan = exec[r].plan /\ e.reused = exec[r].reused
      /\ e.from = exec[r].from /\ e.base = exec[r].base /\ e.todo = exec[r].todo \ {u}
  BY <1>1, <1>4 DEF Executions, Asked
<1>. HIDE DEF e
<1>7. GoodExec(e)
  BY <1>1, <1>4, <1>6 DEF GoodExec, ReuseOK, MemoryOK, GoodCkpt, Asked
<1>. QED  BY <1>4, <1>5, <1>7, Given, StepInv DEF Ask, Asked

LEMMA FinalizeInv == ASSUME Inv, NEW r \in Runs, Finalize(r) PROVE Inv'
<1> DEFINE e == [exec[r] EXCEPT !.pc = "save"]
<1>1. exec[r] \in Executions /\ GoodExec(exec[r]) /\ exec[r].pc = "translate"
  BY Given DEF GoodExec, Finalize
<1>2. GoodCkpt(exec[r].mem)
  BY <1>1 DEF GoodExec, GoodCkpt, MemoryOK, Executions
<1>3. ckpt' = [ckpt EXCEPT ![r] = exec[r].mem] /\ exec' = [exec EXCEPT ![r] = e]
  BY Given DEF Finalize
<1>4. GoodExec(e)
  BY <1>1 DEF GoodExec, ReuseOK, MemoryOK, Executions
<1>. QED  BY <1>2, <1>3, <1>4, Given, StepInv DEF Finalize

LEMMA InheritedIsRecords == ASSUME Inv, NEW r \in Runs PROVE Inherited(exec[r]) \in Records
<1>1. GoodExec(exec[r]) /\ exec[r].from \in Runs \cup {None}
  BY Given DEF GoodExec, Executions
<1>2. \A S : CheckpointRecords(S) \in Records
  BY BoundsAreNat DEF CheckpointRecords, Records, Inv, TypeOK, Checkpoints
<1>3. CASE exec[r].from = None
  BY <1>3, ConstantTypes DEF Inherited
<1>4. CASE exec[r].from # None
  <2>1. exec[r].from \in Runs /\ exec[r].base \in Runs
    BY <1>1, <1>4 DEF GoodExec, ReuseOK
  <2>. QED  BY <1>2, <1>4, <2>1, Given, ConstantTypes DEF Inherited
<1>. QED  BY <1>3, <1>4

LEMMA SaveEvidenceInv == ASSUME Inv, NEW r \in Runs, SaveEvidence(r) PROVE Inv'
<1> DEFINE e == [exec[r] EXCEPT !.pc = "build"]
<1>1. exec[r] \in Executions /\ GoodExec(exec[r]) /\ exec[r].pc = "save"
      /\ exec[r].mem.requests \in 0..MaxRequests
      /\ exec[r].from \in Runs \cup {None} /\ exec[r].base \in Runs \cup {None}
  BY Given DEF GoodExec, SaveEvidence, Executions, Checkpoints
<1>3. Inherited(exec[r]) \in Records
  BY InheritedIsRecords
<1>4. exec' = [exec EXCEPT ![r] = e]
  BY Given DEF SaveEvidence
<1>5. GoodExec(e)
  BY <1>1 DEF GoodExec, ReuseOK, MemoryOK, Executions
<1>. QED  BY <1>1, <1>3, <1>4, <1>5, Given, EmptyIsGood, StepInv DEF SaveEvidence, Merged, Records

LEMMA BuildInv == ASSUME Inv, NEW r \in Runs, Build(r) PROVE Inv'
<1>1. exec[r] \in Executions /\ exec[r].mem \in Checkpoints
  BY Given DEF GoodExec
<1>2. \A u \in Units : ShippedTrans(r, u) \in Versions
  BY <1>1 DEF ShippedTrans, Executions, Checkpoints
<1>3. {<<u, ShippedTrans(r, u)>> : u \in Ships(r)} \in SUBSET (Units \X Versions)
  BY <1>1, <1>2 DEF Ships, Executions
<1>4. shipped' \in [Runs -> SUBSET (Units \X Versions)]
  BY <1>3, Given DEF Build
<1>. QED  BY <1>4, Given, EmptyIsGood, IdleIsGood, StepInv DEF Build

LEMMA StopInv == ASSUME Inv, NEW r \in Runs, Stop(r) PROVE Inv'
<1>1. PICK D \in (IF exec[r].pc = "seed" THEN SUBSET Reused(r) ELSE {{}}) :
          ckpt' = IF D = {} THEN ckpt
                  ELSE [ckpt EXCEPT ![r] = Seeded(exec[r].mem, exec[r], D)]
  BY DEF Stop
<1>2. \E c : GoodCkpt(c) /\ (UNCHANGED ckpt \/ ckpt' = [ckpt EXCEPT ![r] = c])
  <2>1. CASE D = {}
    BY <1>1, <2>1, EmptyIsGood
  <2>2. CASE D # {}
    <3>1. exec[r].pc = "seed" /\ D \subseteq {u \in Units : exec[r].reused[u] # 0}
      BY <1>1, <2>2 DEF Reused
    <3>. QED  BY <1>1, <2>2, <3>1, Given, SeededIsGood
  <2>. QED  BY <2>1, <2>2
<1>3. lineage' \in [Runs -> Runs \cup {None}]
  BY Given DEF Stop, GoodExec, Executions
<1>4. kills' \in 0..MaxKills
  BY Given, BoundsAreNat DEF Stop
<1>5. exec' = [exec EXCEPT ![r] = Idle] /\ UNCHANGED <<source, settled, request, evidence, shipped>>
  BY DEF Stop
<1>. QED  BY <1>2, <1>3, <1>4, <1>5, Given, IdleIsGood, StepInv

LEMMA InvStep == Inv /\ [Next]_vars => Inv'
<1>. SUFFICES ASSUME Inv, [Next]_vars PROVE Inv'
  OBVIOUS
<1>1. ASSUME NEW u \in Units, Settle(u) \/ Edit(u) PROVE Inv'
  <2>1. source' \in [Units -> 1..MaxVersion] /\ settled' \subseteq Units
    BY <1>1, BoundsAreNat DEF Settle, Edit, Inv, TypeOK
  <2>2. UNCHANGED <<ckpt, request, lineage, evidence, exec, kills, shipped>>
    BY <1>1 DEF Settle, Edit
  <2>. QED  BY <2>1, <2>2 DEF Inv, TypeOK, CheckpointsOK, ExecutionsOK
<1>2. CASE UNCHANGED vars
  BY <1>2 DEF vars, Inv, TypeOK, CheckpointsOK, ExecutionsOK
<1>. QED
  BY <1>1, <1>2, BeginInv, ConfigureInv, SeedInv, AskInv, FinalizeInv, SaveEvidenceInv, BuildInv,
     StopInv
     DEF Next

LEMMA Invariance == Spec => []Inv
BY InitInv, InvStep, PTL DEF Spec

------------------------------------------------------------------------------
\* Checkpoints, lineages, evidence and executions keep their types through any
\* rebuilds, kills and repetitions; the budget is never exceeded.
THEOREM TypeCorrect == Spec => []TypeOK
<1>1. Inv => TypeOK
  BY DEF Inv
<1>. QED  BY <1>1, Invariance, PTL

\* No build of any generation contains a translation of another version of the text
\* than the one its plan saw (_plan_rebuild, configure_run and the checkpoint's
\* fingerprints), whoever executes which run again and wherever it is killed.
THEOREM RebuildsShipCurrent == Spec => []ShipsCurrent
<1>1. ASSUME Inv, NEW r \in Runs, exec[r].pc = "build", NEW u \in Ships(r)
      PROVE  ShippedTrans(r, u) = exec[r].plan[u]
  <2>1. GoodExec(exec[r]) /\ u \in exec[r].pending /\ u \in Units
    BY <1>1, Given DEF Ships, GoodExec, Executions
  <2>2. CASE u \in Reused(r)
    BY <2>1, <2>2 DEF ShippedTrans, Reused, GoodExec, ReuseOK
  <2>3. CASE u \notin Reused(r)
    BY <1>1, <2>1, <2>3 DEF Ships, ShippedTrans, GoodExec, MemoryOK, Truthful
  <2>. QED  BY <2>2, <2>3
<1>2. Inv => ShipsCurrent
  BY <1>1 DEF ShipsCurrent
<1>. QED  BY <1>2, Invariance, PTL
------------------------------------------------------------------------------
(* Nothing is paid for twice.                                                *)

Holds(c, u, v) == c.trans[u] = v /\ c.fp[u] = v

\* What a run shipped for the present text is in its checkpoint; S is what it
\* shipped, c its checkpoint, src the present sources.
ShipKept(c, S, src) ==
    \A u \in Units, v \in Versions : <<u, v>> \in S =>
        /\ v # 0 /\ v <= src[u]
        /\ v = src[u] => c # None /\ Holds(c, u, v)

\* The same of an execution e and the texts it planned for, which may be older.
PlanKept(e, c, S, src) ==
    /\ \A u \in Units : e.plan[u] <= src[u]
    /\ \A u \in Units, v \in Versions : <<u, v>> \in S =>
           /\ v <= e.plan[u]
           /\ v = e.plan[u] =>
                  /\ c # None /\ Holds(c, u, v)
                  /\ e.pc \in {"seed", "translate", "save", "build"} => Holds(e.mem, u, v)
    /\ \A u \in e.pending : <<u, e.plan[u]>> \in e.known =>
           e.reused[u] # 0 \/ <<u, e.plan[u]>> \in S
    /\ e.pc \in {"translate", "save", "build"} =>
           \A u \in Units : e.reused[u] # 0 => e.mem.trans[u] = e.reused[u]
    /\ e.pc = "translate" => \A u \in e.todo : e.reused[u] = 0 /\ e.mem.trans[u] = 0
    /\ e.pc \in {"save", "build"} => c = e.mem

Kept ==
    /\ \A r \in Runs : ShipKept(ckpt[r], shipped[r], source)
    /\ \A r \in Runs : exec[r].pc # "idle" => PlanKept(exec[r], ckpt[r], shipped[r], source)

\* _resolve_parent_checkpoint starts with the parent itself.
LEMMA AncestorZero == ASSUME NEW up, NEW r PROVE Ancestor(up, r, 0) = r
<1> DEFINE F(a) == [k \in 0..0 |-> IF k = 0 THEN r ELSE IF a[k - 1] = None THEN None ELSE up[a[k - 1]]]
           a == CHOOSE a : a = F(a)
           g == [k \in 0..0 |-> r]
<1>1. 0..0 = {0}
  OBVIOUS
<1>2. g = F(g)
  BY <1>1
<1>3. a = F(a)
  <2>. HIDE DEF F, g
  <2>. QED  BY <1>2
<1>4. Ancestor(up, r, 0) = a[0]
  BY DEF Ancestor
<1>5. F(a)[0] = r
  BY <1>1
<1>. QED  BY <1>3, <1>4, <1>5

LEMMA OwnCheckpoint ==
    ASSUME NEW from \in Runs, ckpt[from] # None, NEW b \in Resolved(from) PROVE b = from
<1>1. PICK n \in Generations : /\ b = Ancestor(request, from, n)
                               /\ \A m \in 0..(n - 1) : ckpt[Ancestor(request, from, m)] = None
  BY DEF Resolved
<1>2. CASE n = 0
  BY <1>1, <1>2, AncestorZero
<1>3. CASE n # 0
  <2>1. n \in Nat
    BY <1>1 DEF Generations
  <2>2. 0 \in 0..(n - 1)
    BY <1>3, <2>1
  <2>. QED  BY <1>1, <2>2, AncestorZero
<1>. QED  BY <1>2, <1>3

\* The numbers compared are numbers.
LEMMA VersionTypes ==
    ASSUME Inv
    PROVE  /\ \A u \in Units : source[u] \in Nat /\ source[u] \in Versions
           /\ \A r \in Runs, u \in Units : exec[r].plan[u] \in Nat /\ exec[r].plan[u] \in Versions
           /\ \A v \in Versions : v \in Nat
<1>1. \A r \in Runs : exec[r].plan \in [Units -> Versions]
  BY Given DEF Executions
<1>2. Versions \subseteq Nat
  BY BoundsAreNat DEF Versions
<1>. QED  BY <1>1, <1>2, BoundsAreNat DEF Inv, TypeOK, Versions

\* An execution may go on, or end, if what it has shipped for its plan stays in the
\* checkpoint.
LEMMA KeptStep ==
    ASSUME Inv, Kept, NEW r \in Runs, NEW e, exec' = [exec EXCEPT ![r] = e],
           \A q \in Runs \ {r} : ckpt'[q] = ckpt[q], UNCHANGED <<source, shipped>>,
           \/ ckpt'[r] = ckpt[r]
           \/ /\ exec[r].pc # "idle"
              /\ \A u \in Units, v \in Versions : <<u, v>> \in shipped[r] /\ v = exec[r].plan[u] =>
                     ckpt'[r] # None /\ Holds(ckpt'[r], u, v),
           e.pc = "idle" \/ PlanKept(e, ckpt'[r], shipped[r], source)
    PROVE  Kept'
<1>1. exec'[r] = e /\ \A q \in Runs \ {r} : exec'[q] = exec[q]
  BY Given
<1>2. \A q \in Runs : exec'[q].pc # "idle" => PlanKept(exec'[q], ckpt'[q], shipped'[q], source')
  BY <1>1 DEF Kept
<1>3. ASSUME NEW u \in Units, NEW v \in Versions, <<u, v>> \in shipped[r], v = source[u]
      PROVE  ckpt'[r] # None /\ Holds(ckpt'[r], u, v)
  <2>1. CASE ckpt'[r] = ckpt[r]
    BY <1>3, <2>1 DEF Kept, ShipKept
  <2>2. CASE exec[r].pc # "idle" /\ ckpt'[r] # ckpt[r]
    <3>1. v <= exec[r].plan[u] /\ exec[r].plan[u] <= source[u]
      BY <1>3, <2>2 DEF Kept, PlanKept
    <3>2. v = exec[r].plan[u]
      BY <1>3, <3>1, VersionTypes
    <3>. QED  BY <1>3, <2>2, <3>2
  <2>. QED  BY <2>1, <2>2
<1>4. ShipKept(ckpt'[r], shipped[r], source)
  BY <1>3 DEF Kept, ShipKept
<1>5. \A q \in Runs : ShipKept(ckpt'[q], shipped'[q], source')
  BY <1>4 DEF Kept
<1>. QED  BY <1>2, <1>5 DEF Kept

LEMMA BeginKept ==
    ASSUME Inv, Kept, NEW r \in Runs, NEW from \in Runs \cup {None}, NEW web \in BOOLEAN,
           Begin(r, from, web)
    PROVE  Kept'
<1> DEFINE known == UNION {shipped[q] : q \in {r, from} \ {None}}
           start == [Idle EXCEPT !.pc = "configure", !.plan = source, !.pending = Units \ settled,
                         !.known = known]
           R(b) == {u \in Units \ settled : Reusable(ckpt[b], u)}
           reused(b) == [u \in Units |-> IF u \in R(b) THEN ckpt[b].trans[u] ELSE 0]
           rebuild(b) == [start EXCEPT !.from = from, !.base = b, !.reused = reused(b),
               !.payer  = [u \in Units |-> IF u \in R(b) THEN ckpt[b].by[u] ELSE None]]
<1>1. /\ start.pc = "configure" /\ start.plan = source /\ start.pending = Units \ settled
      /\ start.known = known /\ start.reused = Never
  BY DEF Idle
<1>2. ASSUME NEW b
      PROVE  /\ rebuild(b).pc = "configure" /\ rebuild(b).plan = source
             /\ rebuild(b).pending = Units \ settled /\ rebuild(b).known = known
             /\ rebuild(b).reused = reused(b)
  BY DEF Idle
<1>3. ASSUME NEW u \in Units, <<u, source[u]>> \in known, <<u, source[u]>> \notin shipped[r]
      PROVE  from \in Runs /\ source[u] # 0 /\ ckpt[from] # None /\ Holds(ckpt[from], u, source[u])
  <2>1. from \in Runs /\ <<u, source[u]>> \in shipped[from]
    BY <1>3
  <2>. QED  BY <2>1, VersionTypes DEF Kept, ShipKept
<1>4. ASSUME NEW e, e.pc = "configure", e.plan = source, e.pending = Units \ settled, e.known = known,
             \A u \in Units \ settled : <<u, source[u]>> \in known =>
                 e.reused[u] # 0 \/ <<u, source[u]>> \in shipped[r]
      PROVE  PlanKept(e, ckpt[r], shipped[r], source)
  <2>1. \A u \in Units : e.plan[u] <= source[u]
    BY <1>4, VersionTypes
  <2>2. \A u \in Units, v \in Versions : <<u, v>> \in shipped[r] =>
            v <= e.plan[u] /\ (v = e.plan[u] => ckpt[r] # None /\ Holds(ckpt[r], u, v))
    BY <1>4 DEF Kept, ShipKept
  <2>. HIDE DEF known
  <2>. QED  BY <1>4, <2>1, <2>2 DEF PlanKept
<1>5. CASE from = None
  <2>1. exec' = [exec EXCEPT ![r] = start]
    BY <1>5 DEF Begin
  <2>2. \A u \in Units : <<u, source[u]>> \in known => <<u, source[u]>> \in shipped[r]
    BY <1>3, <1>5, NoneIsNoRun
  <2>. HIDE DEF start, known
  <2>3. PlanKept(start, ckpt[r], shipped[r], source)
    BY <1>1, <1>4, <2>2
  <2>. QED  BY <2>1, <2>3, KeptStep DEF Begin
<1>6. CASE from # None
  <2>1. PICK b \in Resolved(from) : exec' = [exec EXCEPT ![r] = rebuild(b)]
    BY <1>6 DEF Begin
  <2>2. ASSUME NEW u \in Units \ settled, <<u, source[u]>> \in known, <<u, source[u]>> \notin shipped[r]
        PROVE  reused(b)[u] # 0
    <3>. HIDE DEF known
    <3>1. b = from /\ ckpt[b].trans[u] = source[u] /\ ckpt[b].fp[u] = source[u] /\ source[u] # 0
      BY <1>3, <2>1, <2>2, OwnCheckpoint DEF Holds
    <3>. QED  BY <3>1 DEF Reusable
  <2>. HIDE DEF rebuild, known, reused
  <2>3. PlanKept(rebuild(b), ckpt[r], shipped[r], source)
    BY <1>2, <1>4, <2>2
  <2>. QED  BY <2>1, <2>3, KeptStep DEF Begin
<1>. QED  BY <1>5, <1>6

LEMMA ConfigureKept == ASSUME Inv, Kept, NEW r \in Runs, Configure(r) PROVE Kept'
<1> DEFINE old == IF ckpt[r] = None THEN Empty ELSE ckpt[r]
           c == Configured(old, exec[r].plan, exec[r].pending)
           e == [exec[r] EXCEPT !.mem = c, !.pc = "seed"]
<1>1. exec[r].pc = "configure" /\ PlanKept(exec[r], ckpt[r], shipped[r], source)
      /\ exec[r] \in Executions
  BY Given DEF Configure, Kept, GoodExec
<1>2. ckpt' = [ckpt EXCEPT ![r] = c] /\ exec' = [exec EXCEPT ![r] = e]
  BY Given DEF Configure
<1>3. ckpt'[r] = c /\ \A q \in Runs \ {r} : ckpt'[q] = ckpt[q]
  BY <1>2 DEF Inv, TypeOK
<1>4. ASSUME NEW u \in Units, NEW v \in Versions, v = exec[r].plan[u], ckpt[r] # None,
             Holds(ckpt[r], u, v)
      PROVE  Holds(c, u, v)
  <2>1. old \in Checkpoints /\ old.trans[u] = v /\ old.fp[u] = v
    BY <1>4, Given DEF Holds
  <2>. HIDE DEF old
  <2>2. /\ c.trans[u] = old.trans[u]
        /\ c.fp[u] = v
    BY <1>4, <2>1 DEF Configured, Checkpoints
  <2>. QED  BY <2>1, <2>2 DEF Holds
<1>5. c # None
  <2>1. GoodCkpt(c)
    <3>1. exec[r].plan \in [Units -> Versions] /\ exec[r].pending \in SUBSET Units
      BY <1>1 DEF Executions
    <3>. QED  BY <3>1, Given, EmptyIsGood, ConfiguredIsGood
  <2>. HIDE DEF c
  <2>. QED  BY <1>2, <2>1, NoneIsNoCheckpoint DEF GoodCkpt
<1>. HIDE DEF c
<1>6. /\ e.pc = "seed" /\ e.mem = c /\ e.plan = exec[r].plan /\ e.pending = exec[r].pending
      /\ e.known = exec[r].known /\ e.reused = exec[r].reused
  BY <1>1 DEF Executions
<1>. HIDE DEF e
<1>7. PlanKept(e, c, shipped[r], source)
  BY <1>1, <1>4, <1>5, <1>6 DEF PlanKept
<1>8. \A u \in Units, v \in Versions : <<u, v>> \in shipped[r] /\ v = exec[r].plan[u] =>
          ckpt'[r] # None /\ Holds(ckpt'[r], u, v)
  BY <1>1, <1>3, <1>4, <1>5 DEF PlanKept
<1>. QED  BY <1>1, <1>2, <1>3, <1>7, <1>8, KeptStep DEF Configure

LEMMA SeedKept == ASSUME Inv, Kept, NEW r \in Runs, Seed(r) PROVE Kept'
<1> DEFINE c == Seeded(exec[r].mem, exec[r], Reused(r))
           todo == {u \in exec[r].pending \ Reused(r) : c.trans[u] = 0}
           e == [exec[r] EXCEPT !.mem = c, !.pc = "translate", !.todo = todo]
<1>1. /\ exec[r].pc = "seed" /\ PlanKept(exec[r], ckpt[r], shipped[r], source)
      /\ exec[r] \in Executions /\ GoodExec(exec[r]) /\ exec[r].mem \in Checkpoints
  BY Given DEF Seed, Kept, GoodExec
<1>2. ckpt' = [ckpt EXCEPT ![r] = c] /\ exec' = [exec EXCEPT ![r] = e]
  BY Given DEF Seed
<1>3. ckpt'[r] = c /\ \A q \in Runs \ {r} : ckpt'[q] = ckpt[q]
  BY <1>2 DEF Inv, TypeOK
<1>4. /\ \A u \in Units : c.trans[u] = IF u \in Reused(r) THEN exec[r].reused[u] ELSE exec[r].mem.trans[u]
      /\ c.fp = exec[r].mem.fp
  BY <1>1 DEF Seeded, Checkpoints
<1>5. \A u \in Units : u \in Reused(r) <=> exec[r].reused[u] # 0
  BY DEF Reused
<1>6. GoodCkpt(c) /\ c # None
  BY <1>1, SeededIsGood, NoneIsNoCheckpoint DEF Reused, GoodCkpt
<1>7. \A u \in Reused(r) : exec[r].reused[u] = exec[r].plan[u]
  BY <1>1 DEF GoodExec, ReuseOK, Reused
<1>. HIDE DEF c
<1>8. ASSUME NEW u \in Units, NEW v \in Versions, v = exec[r].plan[u], <<u, v>> \in shipped[r]
      PROVE  Holds(c, u, v)
  <2>1. Holds(exec[r].mem, u, v)
    BY <1>1, <1>8 DEF PlanKept
  <2>. QED  BY <1>4, <1>7, <1>8, <2>1 DEF Holds
<1>9. \A u \in todo : u \notin Reused(r) /\ c.trans[u] = 0
  OBVIOUS
<1>10. todo \subseteq Units
  BY <1>1 DEF Executions
<1>. HIDE DEF todo
<1>11. /\ e.pc = "translate" /\ e.mem = c /\ e.plan = exec[r].plan /\ e.pending = exec[r].pending
       /\ e.known = exec[r].known /\ e.reused = exec[r].reused /\ e.todo = todo
  BY <1>1 DEF Executions
<1>. HIDE DEF e
<1>12. \A u \in todo : e.reused[u] = 0 /\ e.mem.trans[u] = 0
  BY <1>5, <1>9, <1>10, <1>11
<1>13. \A u \in Units : e.reused[u] # 0 => e.mem.trans[u] = e.reused[u]
  BY <1>4, <1>5, <1>11
<1>14. PlanKept(e, c, shipped[r], source)
  BY <1>1, <1>6, <1>8, <1>11, <1>12, <1>13 DEF PlanKept
<1>. QED  BY <1>1, <1>2, <1>3, <1>6, <1>8, <1>14, KeptStep DEF Seed

\* A request is only made for a unit that no build of this run has for this text.
LEMMA AskKept == ASSUME Inv, Kept, NEW r \in Runs, NEW u \in Units, Ask(r, u) PROVE Kept'
<1>1. /\ exec[r].pc = "translate" /\ u \in exec[r].todo /\ exec[r] \in Executions
      /\ PlanKept(exec[r], ckpt[r], shipped[r], source) /\ exec[r].mem \in Checkpoints
  BY Given DEF Ask, Kept, GoodExec
<1>2. PICK c : Asked(r, u, c)
  BY AskResult
<1> DEFINE e == [exec[r] EXCEPT !.mem = c, !.todo = exec[r].todo \ {u}]
<1>3. exec' = [exec EXCEPT ![r] = e]
  BY <1>2, Given DEF Asked
<1>4. /\ \A q \in Runs \ {r} : ckpt'[q] = ckpt[q]
      /\ ckpt'[r] = c \/ ckpt'[r] = ckpt[r]
  BY <1>2 DEF Asked, Inv, TypeOK
<1>5. exec[r].reused[u] = 0 /\ exec[r].mem.trans[u] = 0
  BY <1>1 DEF PlanKept
<1>6. \A x \in Units \ {u} : c.trans[x] = exec[r].mem.trans[x]
  BY <1>1, <1>2 DEF Asked, Checkpoints
<1>7. ASSUME NEW x \in Units, NEW v \in Versions, v = exec[r].plan[x], <<x, v>> \in shipped[r]
      PROVE  Holds(c, x, v)
  <2>1. Holds(exec[r].mem, x, v) /\ v # 0
    BY <1>1, <1>7 DEF PlanKept, Kept, ShipKept
  <2>2. x # u
    BY <1>5, <2>1 DEF Holds
  <2>. QED  BY <1>2, <1>6, <2>1, <2>2 DEF Asked, Holds
<1>8. /\ e.pc = "translate" /\ e.mem = c /\ e.plan = exec[r].plan /\ e.pending = exec[r].pending
      /\ e.known = exec[r].known /\ e.reused = exec[r].reused /\ e.todo = exec[r].todo \ {u}
      /\ exec[r].todo \subseteq Units
  BY <1>1 DEF Executions
<1>. HIDE DEF e
<1>9. c # None
  BY <1>2, NoneIsNoCheckpoint DEF Asked
<1>10. \A x \in e.todo : e.reused[x] = 0 /\ e.mem.trans[x] = 0
  BY <1>1, <1>6, <1>8 DEF PlanKept
<1>11. \A x \in Units : e.reused[x] # 0 => e.mem.trans[x] = e.reused[x]
  BY <1>1, <1>5, <1>6, <1>8 DEF PlanKept
<1>12. \A x \in Units, v \in Versions : <<x, v>> \in shipped[r] /\ v = exec[r].plan[x] =>
           ckpt'[r] # None /\ Holds(ckpt'[r], x, v)
  BY <1>1, <1>4, <1>7, <1>9 DEF PlanKept
<1>13. PlanKept(e, ckpt'[r], shipped[r], source)
  BY <1>1, <1>7, <1>8, <1>10, <1>11, <1>12 DEF PlanKept
<1>. QED  BY <1>1, <1>3, <1>4, <1>12, <1>13, KeptStep DEF Ask

LEMMA FinalizeKept == ASSUME Inv, Kept, NEW r \in Runs, Finalize(r) \/ SaveEvidence(r) PROVE Kept'
<1> DEFINE pc == IF exec[r].pc = "translate" THEN "save" ELSE "build"
           e == [exec[r] EXCEPT !.pc = pc]
<1>1. /\ exec[r].pc \in {"translate", "save"} /\ exec[r] \in Executions
      /\ PlanKept(exec[r], ckpt[r], shipped[r], source) /\ exec[r].mem \in Checkpoints
  BY Given DEF Finalize, SaveEvidence, Kept, GoodExec
<1>2. exec' = [exec EXCEPT ![r] = e] /\ UNCHANGED <<source, shipped>>
  BY Given DEF Finalize, SaveEvidence
<1>3. ckpt'[r] = exec[r].mem /\ \A q \in Runs \ {r} : ckpt'[q] = ckpt[q]
  BY <1>1 DEF Finalize, SaveEvidence, Inv, TypeOK, PlanKept
<1>4. exec[r].mem # None
  BY <1>1, NoneIsNoCheckpoint
<1>5. /\ e.pc \in {"save", "build"} /\ e.mem = exec[r].mem /\ e.plan = exec[r].plan
      /\ e.pending = exec[r].pending /\ e.known = exec[r].known /\ e.reused = exec[r].reused
  BY <1>1 DEF Executions
<1>. HIDE DEF e, pc
<1>6. \A u \in Units, v \in Versions : <<u, v>> \in shipped[r] /\ v = exec[r].plan[u] =>
          ckpt'[r] # None /\ Holds(ckpt'[r], u, v)
  BY <1>1, <1>3, <1>4 DEF PlanKept
<1>7. PlanKept(e, ckpt'[r], shipped[r], source)
  BY <1>1, <1>3, <1>5, <1>6 DEF PlanKept
<1>. QED  BY <1>1, <1>2, <1>3, <1>6, <1>7, KeptStep

LEMMA StopKept == ASSUME Inv, Kept, NEW r \in Runs, Stop(r) PROVE Kept'
<1>1. PICK D \in (IF exec[r].pc = "seed" THEN SUBSET Reused(r) ELSE {{}}) :
          ckpt' = IF D = {} THEN ckpt
                  ELSE [ckpt EXCEPT ![r] = Seeded(exec[r].mem, exec[r], D)]
  BY DEF Stop
<1>2. exec' = [exec EXCEPT ![r] = Idle] /\ UNCHANGED <<source, shipped>> /\ exec[r].pc # "idle"
  BY DEF Stop
<1>3. Idle.pc = "idle"
  BY DEF Idle
<1>4. CASE D = {}
  BY <1>1, <1>2, <1>3, <1>4, KeptStep
<1>5. CASE D # {}
  <2> DEFINE c == Seeded(exec[r].mem, exec[r], D)
  <2>1. /\ exec[r].pc = "seed" /\ D \subseteq {u \in Units : exec[r].reused[u] # 0}
        /\ GoodExec(exec[r]) /\ exec[r].mem \in Checkpoints
        /\ PlanKept(exec[r], ckpt[r], shipped[r], source)
    BY <1>1, <1>2, <1>5, Given DEF Reused, Kept
  <2>2. GoodCkpt(c) /\ c # None
    BY <2>1, SeededIsGood, NoneIsNoCheckpoint DEF GoodCkpt
  <2>3. /\ \A u \in Units : c.trans[u] = IF u \in D THEN exec[r].reused[u] ELSE exec[r].mem.trans[u]
        /\ c.fp = exec[r].mem.fp
    BY <2>1 DEF Seeded, Checkpoints
  <2>4. \A u \in D : exec[r].reused[u] = exec[r].plan[u]
    BY <2>1 DEF GoodExec, ReuseOK
  <2>5. ckpt' = [ckpt EXCEPT ![r] = c]
    BY <1>1, <1>5
  <2>. HIDE DEF c
  <2>6. ckpt'[r] = c /\ \A q \in Runs \ {r} : ckpt'[q] = ckpt[q]
    BY <2>5 DEF Inv, TypeOK
  <2>7. ASSUME NEW u \in Units, NEW v \in Versions, <<u, v>> \in shipped[r], v = exec[r].plan[u]
        PROVE  Holds(c, u, v)
    <3>1. Holds(exec[r].mem, u, v)
      BY <2>1, <2>7 DEF PlanKept
    <3>. QED  BY <2>3, <2>4, <2>7, <3>1 DEF Holds
  <2>. QED  BY <1>2, <1>3, <2>2, <2>6, <2>7, KeptStep
<1>. QED  BY <1>4, <1>5

\* What goes into a build is in the checkpoint of its run, for the text planned.
LEMMA ShippedIsHeld ==
    ASSUME Inv, Kept, NEW r \in Runs, exec[r].pc = "build", NEW u \in Ships(r)
    PROVE  /\ u \in Units /\ ShippedTrans(r, u) = exec[r].plan[u] /\ exec[r].plan[u] # 0
           /\ ckpt[r] # None /\ Holds(ckpt[r], u, exec[r].plan[u])
<1>1. /\ GoodExec(exec[r]) /\ u \in exec[r].pending /\ u \in Units
      /\ exec[r].mem \in Checkpoints /\ PlanKept(exec[r], ckpt[r], shipped[r], source)
  BY Given DEF Ships, GoodExec, Executions, Kept
<1>2. ckpt[r] = exec[r].mem /\ ckpt[r] # None
  BY <1>1, NoneIsNoCheckpoint DEF PlanKept
<1>3. exec[r].mem.fp[u] = exec[r].plan[u] /\ Truthful(exec[r].mem)
  BY <1>1 DEF GoodExec, MemoryOK
<1>4. CASE u \in Reused(r)
  <2>1. exec[r].reused[u] # 0 /\ exec[r].reused[u] = exec[r].plan[u]
    BY <1>1, <1>4 DEF Reused, GoodExec, ReuseOK
  <2>2. exec[r].mem.trans[u] = exec[r].reused[u]
    BY <1>1, <2>1 DEF PlanKept
  <2>. QED  BY <1>1, <1>2, <1>3, <1>4, <2>1, <2>2 DEF ShippedTrans, Holds
<1>5. CASE u \notin Reused(r)
  BY <1>1, <1>2, <1>3, <1>5 DEF Ships, ShippedTrans, Holds, Truthful
<1>. QED  BY <1>4, <1>5

LEMMA BuildKept == ASSUME Inv, Kept, NEW r \in Runs, Build(r) PROVE Kept'
<1> DEFINE new == {<<u, ShippedTrans(r, u)>> : u \in Ships(r)}
<1>1. /\ exec[r].pc = "build" /\ exec' = [exec EXCEPT ![r] = Idle] /\ UNCHANGED <<source, ckpt>>
      /\ shipped' = [shipped EXCEPT ![r] = @ \cup new]
  BY DEF Build
<1>2. /\ exec'[r].pc = "idle" /\ \A q \in Runs \ {r} : exec'[q] = exec[q] /\ shipped'[q] = shipped[q]
      /\ shipped'[r] = shipped[r] \cup new
  BY <1>1, Given DEF Idle
<1>3. ASSUME NEW u \in Units, NEW v \in Versions, <<u, v>> \in new
      PROVE  /\ v # 0 /\ v <= source[u]
             /\ v = source[u] => ckpt[r] # None /\ Holds(ckpt[r], u, v)
  <2>1. u \in Ships(r) /\ v = ShippedTrans(r, u)
    BY <1>3
  <2>2. exec[r].plan[u] <= source[u]
    BY <1>1 DEF Kept, PlanKept
  <2>. QED  BY <1>1, <2>1, <2>2, ShippedIsHeld
<1>. HIDE DEF new
<1>4. ShipKept(ckpt[r], shipped'[r], source)
  BY <1>2, <1>3 DEF Kept, ShipKept
<1>5. \A q \in Runs : ShipKept(ckpt'[q], shipped'[q], source')
  BY <1>1, <1>2, <1>4 DEF Kept
<1>. QED  BY <1>1, <1>2, <1>5 DEF Kept

LEMMA EditKept == ASSUME Inv, Kept, NEW u \in Units, Settle(u) \/ Edit(u) PROVE Kept'
<1>1. /\ UNCHANGED <<ckpt, exec, shipped>>
      /\ \A x \in Units : source[x] <= source'[x] /\ source'[x] \in Nat
  BY VersionTypes DEF Settle, Edit, Inv, TypeOK
<1>2. ASSUME NEW q \in Runs PROVE ShipKept(ckpt[q], shipped[q], source')
  <2>. SUFFICES ASSUME NEW x \in Units, NEW v \in Versions, <<x, v>> \in shipped[q]
                PROVE  /\ v # 0 /\ v <= source'[x]
                       /\ v = source'[x] => ckpt[q] # None /\ Holds(ckpt[q], x, v)
    BY DEF ShipKept
  <2>1. /\ v # 0 /\ v <= source[x]
        /\ v = source[x] => ckpt[q] # None /\ Holds(ckpt[q], x, v)
    BY DEF Kept, ShipKept
  <2>2. v \in Nat /\ source[x] \in Nat
    BY VersionTypes
  <2>3. v <= source'[x] /\ (v = source'[x] => v = source[x])
    BY <1>1, <2>1, <2>2
  <2>. QED  BY <2>1, <2>3
<1>3. ASSUME NEW q \in Runs, exec[q].pc # "idle" PROVE PlanKept(exec[q], ckpt[q], shipped[q], source')
  <2>1. \A x \in Units : exec[q].plan[x] <= source'[x]
    BY <1>1, <1>3, VersionTypes DEF Kept, PlanKept
  <2>. QED  BY <1>3, <2>1 DEF Kept, PlanKept
<1>. QED  BY <1>1, <1>2, <1>3 DEF Kept

LEMMA InitKept == Init => Kept
<1>. SUFFICES ASSUME Init PROVE Kept
  OBVIOUS
<1>1. PICK root \in (IF OldRuns = {} THEN {None} ELSE OldRuns), D \in (SUBSET Units) \ {{}} :
          /\ ckpt = [r \in Runs |-> IF r = root THEN Paid(r, D) ELSE None]
          /\ request = [r \in Runs |-> IF r \in OldRuns \ {root} THEN root ELSE None]
          /\ shipped = [r \in Runs |-> IF r = root THEN D \X {1} ELSE {}]
  BY Zenon DEF Init
<1>2. ASSUME NEW r \in Runs PROVE ShipKept(ckpt[r], shipped[r], source)
  <2>. SUFFICES ASSUME NEW u \in Units, NEW v \in Versions, <<u, v>> \in shipped[r]
                PROVE  v = 1 /\ source[u] = 1 /\ ckpt[r] # None /\ Holds(ckpt[r], u, v)
    BY DEF ShipKept
  <2>1. r = root /\ u \in D /\ v = 1
    BY <1>1
  <2>2. ckpt[r] = Paid(r, D)
    BY <1>1, <2>1
  <2>3. Paid(r, D) # None
    BY ConstantTypes, NoneIsNoCheckpoint
  <2>. QED  BY <2>1, <2>2, <2>3 DEF Init, Paid, Holds
<1>3. \A r \in Runs : exec[r].pc = "idle"
  BY DEF Init, Idle
<1>. QED  BY <1>2, <1>3 DEF Kept

LEMMA KeptNext == Inv /\ Kept /\ [Next]_vars => Kept'
<1>. SUFFICES ASSUME Inv, Kept, [Next]_vars PROVE Kept'
  OBVIOUS
<1>1. CASE UNCHANGED vars
  BY <1>1 DEF vars, Kept
<1>. QED
  BY <1>1, BeginKept, ConfigureKept, SeedKept, AskKept, FinalizeKept, BuildKept, StopKept, EditKept
     DEF Next

LEMMA KeptInvariance == Spec => [](Inv /\ Kept)
BY InitInv, InvStep, InitKept, KeptNext, PTL DEF Spec

\* Whoever executes which run again, whatever is killed, edited or done at once, no
\* run asks the provider for a text that its parent or it has shipped: the reuse of
\* checkpoints (_plan_rebuild, configure_run) never pays a second time.
THEOREM PaysOnce == Spec => []NothingPaidTwice
<1>1. ASSUME Inv, Kept, NEW r \in Runs, exec[r].pc = "translate", NEW u \in exec[r].todo
      PROVE  <<u, exec[r].plan[u]>> \notin exec[r].known
  <2>1. PlanKept(exec[r], ckpt[r], shipped[r], source)
    BY <1>1 DEF Kept
  <2>2. u \in exec[r].pending /\ u \in Units
    BY <1>1, Given DEF GoodExec, ReuseOK, Executions
  <2>3. exec[r].reused[u] = 0 /\ exec[r].mem.trans[u] = 0
    BY <1>1, <2>1 DEF PlanKept
  <2>4. exec[r].plan[u] \in Versions
    BY <1>1, <2>2, VersionTypes
  <2>5. <<u, exec[r].plan[u]>> \notin shipped[r]
    <3>. SUFFICES ASSUME <<u, exec[r].plan[u]>> \in shipped[r] PROVE FALSE
      OBVIOUS
    <3>1. Holds(exec[r].mem, u, exec[r].plan[u])
      BY <1>1, <2>1, <2>2, <2>4 DEF PlanKept
    <3>2. exec[r].plan[u] # 0
      BY <1>1, <2>2, <2>4 DEF Kept, ShipKept
    <3>. QED  BY <2>3, <3>1, <3>2 DEF Holds
  <2>. QED  BY <2>1, <2>2, <2>3, <2>5 DEF PlanKept
<1>2. Inv /\ Kept => NothingPaidTwice
  BY <1>1 DEF NothingPaidTwice
<1>. QED  BY <1>2, KeptInvariance, PTL
------------------------------------------------------------------------------
(* Evidence is complete when runs execute one after the other and none is   *)
(* cut off.                                                                 *)

\* The evidence S of run q, or the checkpoint c of an old run without any, names p
\* as a run that asked the provider.
Names(q, S, c, p) ==
    \/ S[p] > 0
    \/ q \in OldRuns /\ p = q /\ c.requests > 0 /\ S = NoRecords

\* What a run that is not executing leaves: the payers of its checkpoint are named.
SettledRun(q, S, c, l) ==
    /\ S # NoRecords => c # None
    /\ c # None => \A u \in Units : c.trans[u] # 0 => c.by[u] \in Runs /\ Names(q, S, c, c.by[u])
    /\ l # None => q \notin OldRuns

Reuses(e) == \E u \in Units : e.reused[u] # 0

\* What the execution e of run r reuses is in the checkpoint of another run, which
\* names its payers; S are the evidence files and C the checkpoints.
Sourced(r, e, S, C) ==
    Reuses(e) =>
        /\ e.from \in Runs \ {r} /\ e.base \in Runs \ {r} /\ C[e.base] # None
        /\ C[e.from] # None => e.base = e.from
        /\ \A u \in Units : e.reused[u] # 0 =>
               e.payer[u] \in Runs /\ Names(e.base, S[e.base], C[e.base], e.payer[u])

\* The execution e of run r pays for what it does not reuse; c is the checkpoint of
\* the run and S its evidence.
Pays(r, e, c, S) ==
    /\ e.pc = "configure" => c = None \/ \A u \in Units : c.trans[u] = 0
    /\ e.pc = "seed" => \A u \in Units : e.mem.trans[u] = 0
    /\ e.pc \in {"translate", "save", "build"} => \A u \in Units : e.mem.trans[u] # 0 =>
           IF e.reused[u] # 0 THEN e.mem.by[u] = e.payer[u]
           ELSE e.mem.by[u] = r /\ e.mem.requests > 0
    /\ e.pc = "build" =>
           /\ \A u \in Units : e.reused[u] # 0 => S[e.payer[u]] > 0
           /\ e.mem.requests > 0 => S[r] > 0

Alone ==
    /\ \A q, r \in Runs : exec[q].pc # "idle" /\ exec[r].pc # "idle" => q = r
    /\ \A q \in Runs : exec[q].pc = "idle" => SettledRun(q, evidence[q], ckpt[q], lineage[q])
    /\ \A r \in Runs : exec[r].pc # "idle" =>
           /\ r \notin OldRuns
           /\ Sourced(r, exec[r], evidence, ckpt)
           /\ Pays(r, exec[r], ckpt[r], evidence[r])

LEMMA InitAlone == Init => Alone
<1>. SUFFICES ASSUME Init PROVE Alone
  OBVIOUS
<1>1. PICK root \in (IF OldRuns = {} THEN {None} ELSE OldRuns), D \in (SUBSET Units) \ {{}} :
          /\ ckpt = [r \in Runs |-> IF r = root THEN Paid(r, D) ELSE None]
          /\ request = [r \in Runs |-> IF r \in OldRuns \ {root} THEN root ELSE None]
          /\ shipped = [r \in Runs |-> IF r = root THEN D \X {1} ELSE {}]
  BY Zenon DEF Init
<1>2. \A r \in Runs : exec[r].pc = "idle"
  BY DEF Init, Idle
<1>3. ASSUME NEW q \in Runs PROVE SettledRun(q, evidence[q], ckpt[q], lineage[q])
  <2>1. evidence[q] = NoRecords /\ lineage[q] = None
    BY DEF Init
  <2>2. ASSUME ckpt[q] # None, NEW u \in Units, ckpt[q].trans[u] # 0
        PROVE  ckpt[q].by[u] \in Runs /\ Names(q, evidence[q], ckpt[q], ckpt[q].by[u])
    <3>1. q = root /\ ckpt[q] = Paid(q, D)
      BY <1>1, <2>2
    <3>2. root \in OldRuns
      BY <1>1, <3>1, NoneIsNoRun
    <3>3. u \in D
      BY <2>2, <3>1 DEF Paid
    <3>4. ckpt[q].by[u] = q /\ ckpt[q].requests = 1
      BY <3>1, <3>3 DEF Paid
    <3>. QED  BY <2>1, <3>1, <3>2, <3>4 DEF Names
  <2>. QED  BY <2>1, <2>2 DEF SettledRun
<1>. QED  BY <1>2, <1>3 DEF Alone

\* An execution begins only when no other is under way.
LEMMA NoneExecuting ==
    ASSUME Alone, MaxParallel = 1, NEW r \in Runs, NEW from \in Runs \cup {None},
           NEW web \in BOOLEAN, Begin(r, from, web)
    PROVE  \A q \in Runs : exec[q].pc = "idle"
<1> DEFINE A == {q \in Runs : exec[q].pc # "idle"}
<1>. SUFFICES ASSUME NEW q \in Runs, exec[q].pc # "idle" PROVE FALSE
  OBVIOUS
<1>1. A = {q}
  BY DEF Alone
<1>2. Cardinality(A) = 1
  BY <1>1, FS_Singleton
<1>3. Cardinality(A) < 1
  BY Zenon DEF Begin
<1>. HIDE DEF A
<1>. QED  BY <1>2, <1>3

\* A run that may start has no result yet: one that is retried has no evidence, so
\* its checkpoint holds nothing that anyone was paid for.
LEMMA MayStartFresh ==
    ASSUME Again \subseteq {"retry"}, NEW r \in Runs, NEW from \in Runs \cup {None}, MayStart(r, from),
           SettledRun(r, evidence[r], ckpt[r], lineage[r])
    PROVE  r \notin OldRuns /\ (ckpt[r] = None \/ \A u \in Units : ckpt[r].trans[u] = 0)
<1>1. \/ ckpt[r] = None /\ r \notin OldRuns
      \/ from # None /\ from = lineage[r] /\ evidence[r] = NoRecords
  BY DEF MayStart
<1>2. CASE from # None /\ from = lineage[r] /\ evidence[r] = NoRecords
  <2>1. r \notin OldRuns
    BY <1>2 DEF SettledRun
  <2>2. \A p \in Runs : ~Names(r, evidence[r], ckpt[r], p)
    BY <1>2, <2>1 DEF Names, NoRecords
  <2>. QED  BY <2>1, <2>2 DEF SettledRun
<1>. QED  BY <1>1, <1>2

LEMMA BeginAlone ==
    ASSUME Inv, Alone, MaxParallel = 1, Again \subseteq {"retry"},
           NEW r \in Runs, NEW from \in Runs \cup {None}, NEW web \in BOOLEAN, Begin(r, from, web)
    PROVE  Alone'
<1> DEFINE start == [Idle EXCEPT !.pc = "configure", !.plan = source, !.pending = Units \ settled,
                         !.known = UNION {shipped[q] : q \in {r, from} \ {None}}]
           R(b) == {u \in Units \ settled : Reusable(ckpt[b], u)}
           reused(b) == [u \in Units |-> IF u \in R(b) THEN ckpt[b].trans[u] ELSE 0]
           payer(b) == [u \in Units |-> IF u \in R(b) THEN ckpt[b].by[u] ELSE None]
           rebuild(b) == [start EXCEPT !.from = from, !.base = b, !.reused = reused(b),
               !.payer = payer(b)]
<1>1. \A q \in Runs : exec[q].pc = "idle" /\ SettledRun(q, evidence[q], ckpt[q], lineage[q])
  BY NoneExecuting DEF Alone
<1>2. /\ from # r /\ MayStart(r, from) /\ UNCHANGED <<ckpt, lineage, evidence>>
  BY DEF Begin
<1>3. r \notin OldRuns /\ (ckpt[r] = None \/ \A u \in Units : ckpt[r].trans[u] = 0)
  BY <1>1, <1>2, MayStartFresh
<1>4. ASSUME NEW e, e.pc = "configure", Sourced(r, e, evidence, ckpt),
             exec' = [exec EXCEPT ![r] = e]
      PROVE  Alone'
  <2>1. exec'[r] = e /\ \A q \in Runs \ {r} : exec'[q] = exec[q]
    BY <1>4, Given
  <2>2. Pays(r, e, ckpt[r], evidence[r])
    BY <1>3, <1>4 DEF Pays
  <2>. QED  BY <1>1, <1>2, <1>3, <1>4, <2>1, <2>2 DEF Alone
<1>5. CASE from = None
  <2>1. exec' = [exec EXCEPT ![r] = start]
    BY <1>5 DEF Begin
  <2>2. start.pc = "configure" /\ ~Reuses(start)
    BY DEF Idle, Never, Reuses
  <2>. HIDE DEF start
  <2>. QED  BY <1>4, <2>1, <2>2 DEF Sourced
<1>6. CASE from # None
  <2>1. PICK b \in Resolved(from) : exec' = [exec EXCEPT ![r] = rebuild(b)]
    BY <1>6 DEF Begin
  <2>2. b \in Runs /\ ckpt[b] # None /\ (ckpt[from] # None => b = from)
    BY <1>6, <2>1, OwnCheckpoint DEF Resolved
  <2>3. /\ rebuild(b).pc = "configure" /\ rebuild(b).from = from /\ rebuild(b).base = b
        /\ rebuild(b).reused = reused(b) /\ rebuild(b).payer = payer(b)
    BY DEF Idle
  <2>. HIDE DEF rebuild
  <2>4. ASSUME NEW u \in Units, reused(b)[u] # 0
        PROVE  ckpt[b].trans[u] # 0 /\ payer(b)[u] = ckpt[b].by[u]
    BY <2>4
  <2>. HIDE DEF reused, payer
  <2>5. Reuses(rebuild(b)) => b # r
    BY <1>3, <2>2, <2>3, <2>4 DEF Reuses
  <2>6. Sourced(r, rebuild(b), evidence, ckpt)
    BY <1>1, <1>2, <1>6, <2>2, <2>3, <2>4, <2>5 DEF Sourced, SettledRun
  <2>. QED  BY <1>4, <2>1, <2>3, <2>6
<1>. QED  BY <1>5, <1>6

\* An execution goes on: it keeps what it reuses, and changes files of its own run.
LEMMA AloneStep ==
    ASSUME Inv, Alone, NEW r \in Runs, exec[r].pc # "idle", NEW e, exec' = [exec EXCEPT ![r] = e],
           \A q \in Runs \ {r} : ckpt'[q] = ckpt[q] /\ evidence'[q] = evidence[q]
                                 /\ lineage'[q] = lineage[q],
           e.pc # "idle", e.from = exec[r].from, e.base = exec[r].base, e.reused = exec[r].reused,
           e.payer = exec[r].payer, Pays(r, e, ckpt'[r], evidence'[r])
    PROVE  Alone'
<1>1. exec'[r] = e /\ \A q \in Runs \ {r} : exec'[q] = exec[q] /\ exec[q].pc = "idle"
  BY Given DEF Alone
<1>2. r \notin OldRuns /\ Sourced(r, exec[r], evidence, ckpt)
  BY DEF Alone
<1>3. Sourced(r, e, evidence', ckpt')
  BY <1>2 DEF Sourced, Reuses
<1>4. \A q \in Runs \ {r} : SettledRun(q, evidence'[q], ckpt'[q], lineage'[q])
  BY <1>1 DEF Alone
<1>5. \A q \in Runs : exec'[q].pc # "idle" => q = r
  BY <1>1
<1>. QED  BY <1>1, <1>2, <1>3, <1>4, <1>5 DEF Alone

LEMMA ConfigureAlone == ASSUME Inv, Alone, NEW r \in Runs, Configure(r) PROVE Alone'
<1> DEFINE old == IF ckpt[r] = None THEN Empty ELSE ckpt[r]
           c == Configured(old, exec[r].plan, exec[r].pending)
           e == [exec[r] EXCEPT !.mem = c, !.pc = "seed"]
<1>1. exec[r].pc = "configure" /\ exec[r] \in Executions /\ Pays(r, exec[r], ckpt[r], evidence[r])
  BY Given DEF Configure, Alone, GoodExec
<1>2. exec' = [exec EXCEPT ![r] = e]
  BY Given DEF Configure
<1>3. \A u \in Units : old.trans[u] = 0
  BY <1>1 DEF Pays, Empty, Never
<1>4. old \in Checkpoints
  BY Given, ConstantTypes
<1>. HIDE DEF old
<1>5. \A u \in Units : c.trans[u] = 0
  BY <1>3, <1>4 DEF Configured, Checkpoints
<1>. HIDE DEF c
<1>6. /\ e.pc = "seed" /\ e.mem = c /\ e.from = exec[r].from /\ e.base = exec[r].base
      /\ e.reused = exec[r].reused /\ e.payer = exec[r].payer
  BY <1>1 DEF Executions
<1>. HIDE DEF e
<1>7. Pays(r, e, ckpt'[r], evidence'[r])
  BY <1>5, <1>6 DEF Pays
<1>8. \A q \in Runs \ {r} : ckpt'[q] = ckpt[q] /\ evidence'[q] = evidence[q] /\ lineage'[q] = lineage[q]
  BY Given DEF Configure, Inv, TypeOK
<1>. QED  BY <1>1, <1>2, <1>6, <1>7, <1>8, AloneStep

LEMMA SeedAlone == ASSUME Inv, Alone, NEW r \in Runs, Seed(r) PROVE Alone'
<1> DEFINE c == Seeded(exec[r].mem, exec[r], Reused(r))
           todo == {u \in exec[r].pending \ Reused(r) : c.trans[u] = 0}
           e == [exec[r] EXCEPT !.mem = c, !.pc = "translate", !.todo = todo]
<1>1. /\ exec[r].pc = "seed" /\ exec[r] \in Executions /\ exec[r].mem \in Checkpoints
      /\ \A u \in Units : exec[r].mem.trans[u] = 0
  BY Given DEF Seed, Alone, GoodExec, Pays
<1>2. exec' = [exec EXCEPT ![r] = e]
  BY Given DEF Seed
<1>3. \A u \in Units : /\ exec[r].reused[u] # 0 => c.by[u] = exec[r].payer[u]
                       /\ exec[r].reused[u] = 0 => c.trans[u] = 0
  BY <1>1 DEF Seeded, Checkpoints, Reused
<1>. HIDE DEF c, todo
<1>4. /\ e.pc = "translate" /\ e.mem = c /\ e.from = exec[r].from /\ e.base = exec[r].base
      /\ e.reused = exec[r].reused /\ e.payer = exec[r].payer
  BY <1>1 DEF Executions
<1>. HIDE DEF e
<1>5. Pays(r, e, ckpt'[r], evidence'[r])
  BY <1>3, <1>4 DEF Pays
<1>6. \A q \in Runs \ {r} : ckpt'[q] = ckpt[q] /\ evidence'[q] = evidence[q] /\ lineage'[q] = lineage[q]
  BY Given DEF Seed, Inv, TypeOK
<1>. QED  BY <1>1, <1>2, <1>4, <1>5, <1>6, AloneStep

\* The request for a unit that is not reused is one of this run's.
LEMMA AskAlone == ASSUME Inv, Kept, Alone, NEW r \in Runs, NEW u \in Units, Ask(r, u) PROVE Alone'
<1>1. /\ exec[r].pc = "translate" /\ u \in exec[r].todo /\ exec[r] \in Executions
      /\ exec[r].mem \in Checkpoints /\ Pays(r, exec[r], ckpt[r], evidence[r])
      /\ exec[r].reused[u] = 0
  BY Given DEF Ask, Kept, PlanKept, Alone, GoodExec
<1>2. PICK c : Asked(r, u, c)
  BY AskResult
<1> DEFINE e == [exec[r] EXCEPT !.mem = c, !.todo = exec[r].todo \ {u}]
<1>3. exec' = [exec EXCEPT ![r] = e]
  BY <1>2, Given DEF Asked
<1>4. PICK v \in Versions, p \in Runs \cup {None} :
          /\ c.trans = [exec[r].mem.trans EXCEPT ![u] = v] /\ c.by = [exec[r].mem.by EXCEPT ![u] = p]
          /\ v # 0 => p = r /\ c.requests > 0
  BY <1>2 DEF Asked
<1>5. /\ c.requests \in Nat /\ exec[r].mem.requests \in Nat /\ c.requests >= exec[r].mem.requests
      /\ exec[r].mem.trans \in [Units -> Versions] /\ exec[r].mem.by \in [Units -> Runs \cup {None}]
  BY <1>1, <1>2, BoundsAreNat DEF Asked, Checkpoints
<1>6. /\ e.pc = "translate" /\ e.mem = c /\ e.from = exec[r].from /\ e.base = exec[r].base
      /\ e.reused = exec[r].reused /\ e.payer = exec[r].payer
  BY <1>1 DEF Executions
<1>. HIDE DEF e
<1>7. ASSUME NEW x \in Units, c.trans[x] # 0
      PROVE  IF exec[r].reused[x] # 0 THEN c.by[x] = exec[r].payer[x]
             ELSE c.by[x] = r /\ c.requests > 0
  <2>1. CASE x = u
    BY <1>1, <1>4, <1>5, <1>7, <2>1
  <2>2. CASE x # u
    <3>1. c.trans[x] = exec[r].mem.trans[x] /\ c.by[x] = exec[r].mem.by[x]
      BY <1>4, <1>5, <2>2
    <3>. QED  BY <1>1, <1>5, <1>7, <3>1 DEF Pays
  <2>. QED  BY <2>1, <2>2
<1>8. Pays(r, e, ckpt'[r], evidence'[r])
  BY <1>6, <1>7 DEF Pays
<1>9. \A q \in Runs \ {r} : ckpt'[q] = ckpt[q] /\ evidence'[q] = evidence[q] /\ lineage'[q] = lineage[q]
  BY <1>2, Given DEF Ask, Asked, Inv, TypeOK
<1>. QED  BY <1>1, <1>3, <1>6, <1>8, <1>9, AloneStep

LEMMA FinalizeAlone == ASSUME Inv, Alone, NEW r \in Runs, Finalize(r) PROVE Alone'
<1> DEFINE e == [exec[r] EXCEPT !.pc = "save"]
<1>1. exec[r].pc = "translate" /\ exec[r] \in Executions /\ Pays(r, exec[r], ckpt[r], evidence[r])
  BY Given DEF Finalize, Alone, GoodExec
<1>2. exec' = [exec EXCEPT ![r] = e]
  BY Given DEF Finalize
<1>3. /\ e.pc = "save" /\ e.mem = exec[r].mem /\ e.from = exec[r].from /\ e.base = exec[r].base
      /\ e.reused = exec[r].reused /\ e.payer = exec[r].payer
  BY <1>1 DEF Executions
<1>. HIDE DEF e
<1>4. Pays(r, e, ckpt'[r], evidence'[r])
  BY <1>1, <1>3 DEF Pays
<1>5. \A q \in Runs \ {r} : ckpt'[q] = ckpt[q] /\ evidence'[q] = evidence[q] /\ lineage'[q] = lineage[q]
  BY Given DEF Finalize, Inv, TypeOK
<1>. QED  BY <1>1, <1>2, <1>3, <1>4, <1>5, AloneStep

\* inherited_for_rebuild takes a record of every payer: from the parent if that has
\* evidence, for then it has a checkpoint and is the run reused; else from the run
\* reused; and else that is an old run, which its checkpoint speaks for.
LEMMA InheritsPayers ==
    ASSUME Inv, Alone, NEW r \in Runs, exec[r].pc # "idle", NEW u \in Units, exec[r].reused[u] # 0
    PROVE  exec[r].payer[u] \in Runs /\ Inherited(exec[r])[exec[r].payer[u]] > 0
<1> DEFINE from == exec[r].from
           base == exec[r].base
           p == exec[r].payer[u]
<1>1. /\ from \in Runs \ {r} /\ base \in Runs \ {r} /\ ckpt[base] # None
      /\ ckpt[from] # None => base = from
      /\ p \in Runs /\ Names(base, evidence[base], ckpt[base], p)
  BY DEF Alone, Sourced, Reuses
<1>2. exec[from].pc = "idle"
  BY <1>1 DEF Alone
<1>3. SettledRun(from, evidence[from], ckpt[from], lineage[from])
  BY <1>1, <1>2 DEF Alone
<1>4. evidence[from] # NoRecords => base = from
  BY <1>1, <1>3 DEF SettledRun
<1>5. evidence[base] # NoRecords => evidence[base][p] > 0
  BY <1>1 DEF Names
<1>6. ASSUME evidence[base] = NoRecords PROVE p = base /\ ckpt[base].requests > 0
  BY <1>1, <1>6 DEF Names, NoRecords
<1>7. from # None /\ ~\A x \in Units : exec[r].reused[x] = 0
  BY <1>1, NoneIsNoRun
<1>8. Inherited(exec[r]) = IF evidence[from] # NoRecords THEN evidence[from]
                           ELSE IF evidence[base] # NoRecords THEN evidence[base]
                           ELSE CheckpointRecords({base} \cup Lineage(from))
  BY <1>7 DEF Inherited
<1>9. CheckpointRecords({base} \cup Lineage(from))[base] = ckpt[base].requests
  BY <1>1 DEF CheckpointRecords
<1>. QED  BY <1>1, <1>4, <1>5, <1>6, <1>8, <1>9

LEMMA SaveAlone == ASSUME Inv, Alone, NEW r \in Runs, SaveEvidence(r) PROVE Alone'
<1> DEFINE e == [exec[r] EXCEPT !.pc = "build"]
           I == Inherited(exec[r])
           n == exec[r].mem.requests
<1>1. /\ exec[r].pc = "save" /\ exec[r] \in Executions /\ Pays(r, exec[r], ckpt[r], evidence[r])
      /\ n \in Nat
  BY Given, BoundsAreNat DEF SaveEvidence, Alone, GoodExec, Checkpoints
<1>2. exec' = [exec EXCEPT ![r] = e] /\ evidence'[r] = Merged(I, r, n)
  BY Given DEF SaveEvidence
<1>3. /\ e.pc = "build" /\ e.mem = exec[r].mem /\ e.from = exec[r].from /\ e.base = exec[r].base
      /\ e.reused = exec[r].reused /\ e.payer = exec[r].payer
  BY <1>1 DEF Executions
<1>. HIDE DEF e
<1>4. I \in Records
  BY <1>1, InheritedIsRecords
<1>5. \A u \in Units : exec[r].reused[u] # 0 => exec[r].payer[u] \in Runs /\ I[exec[r].payer[u]] > 0
  BY <1>1, InheritsPayers
<1>. HIDE DEF I, n
<1>6. /\ n > 0 => Merged(I, r, n)[r] > 0
      /\ \A q \in Runs : I[q] > 0 => Merged(I, r, n)[q] > 0
  BY <1>1, <1>4 DEF Merged, Records
<1>7. Pays(r, e, ckpt'[r], evidence'[r])
  BY <1>1, <1>2, <1>3, <1>5, <1>6 DEF Pays, n
<1>8. \A q \in Runs \ {r} : ckpt'[q] = ckpt[q] /\ evidence'[q] = evidence[q] /\ lineage'[q] = lineage[q]
  BY Given DEF SaveEvidence, Inv, TypeOK
<1>. QED  BY <1>1, <1>2, <1>3, <1>7, <1>8, AloneStep

LEMMA BuildAlone == ASSUME Inv, Kept, Alone, NEW r \in Runs, Build(r) PROVE Alone'
<1>1. /\ exec[r].pc = "build" /\ exec' = [exec EXCEPT ![r] = Idle]
      /\ UNCHANGED <<ckpt, lineage, evidence>>
  BY DEF Build
<1>2. /\ r \notin OldRuns /\ Sourced(r, exec[r], evidence, ckpt)
      /\ Pays(r, exec[r], ckpt[r], evidence[r])
  BY <1>1 DEF Alone
<1>3. ckpt[r] = exec[r].mem /\ ckpt[r] # None
  BY <1>1, Given, NoneIsNoCheckpoint DEF Kept, PlanKept
<1>4. ASSUME NEW u \in Units, ckpt[r].trans[u] # 0
      PROVE  ckpt[r].by[u] \in Runs /\ evidence[r][ckpt[r].by[u]] > 0
  <2>1. CASE exec[r].reused[u] # 0
    BY <1>1, <1>2, <1>3, <1>4, <2>1 DEF Pays, Sourced, Reuses
  <2>2. CASE exec[r].reused[u] = 0
    BY <1>1, <1>2, <1>3, <1>4, <2>2 DEF Pays
  <2>. QED  BY <2>1, <2>2
<1>5. SettledRun(r, evidence[r], ckpt[r], lineage[r])
  BY <1>2, <1>3, <1>4 DEF SettledRun, Names
<1>6. exec'[r].pc = "idle" /\ \A q \in Runs \ {r} : exec'[q] = exec[q] /\ exec[q].pc = "idle"
  BY <1>1, Given DEF Idle, Alone
<1>. QED  BY <1>1, <1>5, <1>6 DEF Alone

LEMMA AloneNext ==
    ASSUME Again \subseteq {"retry"}, MaxParallel = 1, MaxKills = 0, Inv, Kept, Alone, [Next]_vars
    PROVE  Alone'
<1>1. CASE UNCHANGED vars
  BY <1>1 DEF vars, Alone
<1>2. ASSUME NEW u \in Units, Settle(u) \/ Edit(u) PROVE Alone'
  BY <1>2 DEF Settle, Edit, Alone
<1>3. ASSUME NEW r \in Runs, Stop(r) PROVE FALSE
  BY <1>3, Given DEF Stop
<1>. QED
  BY <1>1, <1>2, <1>3, BeginAlone, ConfigureAlone, SeedAlone, AskAlone, FinalizeAlone, SaveAlone,
     BuildAlone
     DEF Next

\* The evidence of a run names every run that was paid for a translation in its build
\* (inherited_for_rebuild, merge_execution_records), through any number of rebuilds of
\* rebuilds, when one run executes at a time, none is cut off, and a run is executed
\* again only from its own parent and only as long as it has no evidence.
THEOREM EvidenceIsComplete ==
    ASSUME Again \subseteq {"retry"}, MaxParallel = 1, MaxKills = 0
    PROVE  Spec => []EvidenceComplete
<1>1. Init => Inv /\ Kept /\ Alone
  BY InitInv, InitKept, InitAlone
<1>2. Inv /\ Kept /\ Alone /\ [Next]_vars => (Inv /\ Kept /\ Alone)'
  BY InvStep, KeptNext, AloneNext
<1>3. ASSUME Inv, Alone, NEW r \in Runs, exec[r].pc = "build", NEW u \in Ships(r)
      PROVE  evidence[r][ShippedBy(r, u)] > 0
  <2>1. u \in Units /\ Pays(r, exec[r], ckpt[r], evidence[r])
    BY <1>3, Given DEF Ships, GoodExec, Executions, Alone
  <2>2. CASE u \in Reused(r)
    BY <1>3, <2>1, <2>2 DEF Pays, Reused, ShippedBy
  <2>3. CASE u \notin Reused(r)
    BY <1>3, <2>1, <2>3 DEF Pays, Reused, Ships, ShippedBy
  <2>. QED  BY <2>2, <2>3
<1>4. Inv /\ Kept /\ Alone => EvidenceComplete
  BY <1>3 DEF EvidenceComplete
<1>. QED  BY <1>1, <1>2, <1>4, PTL DEF Spec
=============================================================================
