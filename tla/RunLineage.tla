----------------------------- MODULE RunLineage -----------------------------
(****************************************************************************)
(* Generations of runs (application/project_runner.py and                   *)
(* application/translation_evidence.py): a child run is rebuilt from a      *)
(* parent, reuses what the nearest checkpoint of its ancestors holds for    *)
(* unchanged source texts, asks the provider for the rest, and records in   *)
(* translation-evidence.json which provider runs its translations cost.     *)
(*                                                                          *)
(* A source text and a translation are the number of the version they are   *)
(* of; 0 is none. The queue, the batches and the flushes of one execution   *)
(* are those of TranslationRun; here the provider answers unit by unit. Of  *)
(* the metrics of a run, the evidence keeps the number of requests.         *)
(****************************************************************************)
EXTENDS Naturals, FiniteSets

CONSTANTS
    Runs,          \* run identifiers
    Units,
    None,          \* no file, no parent
    OldRuns,       \* runs of versions that wrote neither lineage nor evidence
    Again,         \* how a run identifier is executed again: "retry" from its parent
                   \* until there is evidence, "repeat" from any, "resume" from none
    MaxVersion,    \* bound on the source versions
    MaxRequests,   \* bound on the requests of a run
    MaxKills,      \* bound on the executions killed or failed
    MaxParallel    \* bound on the runs executing at once

ASSUME NoneIsNoRun == None \notin Runs

ASSUME KnownRuns == OldRuns \subseteq Runs /\ Again \subseteq {"retry", "repeat", "resume"}

ASSUME BoundsAreNat ==
    /\ MaxVersion \in Nat \ {0} /\ MaxRequests \in Nat \ {0} /\ MaxParallel \in Nat \ {0}
    /\ MaxKills \in Nat

VARIABLES
    source,    \* the current version of each source text
    settled,   \* the units the translation memory answers, so no run needs them
    ckpt,      \* runs/<run>/checkpoint.json
    request,   \* the parent that runs/<run>/task-request.json names
    lineage,   \* the parent that runs/<run>/run-lineage.json names
    evidence,  \* runs/<run>/translation-evidence.json
    exec,      \* the execution of each run identifier
    kills,
    shipped    \* history: the translations each run put into its builds

vars == <<source, settled, ckpt, request, lineage, evidence, exec, kills, shipped>>

Versions == 0..MaxVersion

\* by names the run whose provider request paid for the translation, which the
\* code does not record.
Checkpoints == [trans : [Units -> Versions], fp : [Units -> Versions],
                by : [Units -> Runs \cup {None}], requests : 0..MaxRequests]

ASSUME NoneIsNoCheckpoint == None \notin Checkpoints

\* The requests of each contributing run; 0 when it has no record.
Records == [Runs -> 0..MaxRequests]

Executions ==
    [pc : {"idle", "configure", "seed", "translate", "save", "build"},
     from : Runs \cup {None},   \* the logical parent of this rebuild
     base : Runs \cup {None},   \* the run whose checkpoint it reuses
     plan : [Units -> Versions],
     pending : SUBSET Units, reused : [Units -> Versions], payer : [Units -> Runs \cup {None}],
     todo : SUBSET Units, mem : Checkpoints,
     known : SUBSET (Units \X Versions)]   \* history: what was shipped when it began

TypeOK ==
    /\ source \in [Units -> 1..MaxVersion]
    /\ settled \subseteq Units
    /\ ckpt \in [Runs -> Checkpoints \cup {None}]
    /\ request \in [Runs -> Runs \cup {None}]
    /\ lineage \in [Runs -> Runs \cup {None}]
    /\ evidence \in [Runs -> Records]
    /\ exec \in [Runs -> Executions]
    /\ kills \in 0..MaxKills
    /\ shipped \in [Runs -> SUBSET (Units \X Versions)]

Never == [u \in Units |-> 0]

Nobody == [u \in Units |-> None]

NoRecords == [r \in Runs |-> 0]

Empty == [trans |-> Never, fp |-> Never, by |-> Nobody, requests |-> 0]

Idle == [pc |-> "idle", from |-> None, base |-> None, plan |-> Never, pending |-> {},
         reused |-> Never, payer |-> Nobody, todo |-> {}, mem |-> Empty,
         known |-> {}]

\* What an old run left that asked the provider for the units D.
Paid(r, D) == [trans |-> [u \in Units |-> IF u \in D THEN 1 ELSE 0],
               fp |-> [u \in Units |-> 1],
               by |-> [u \in Units |-> IF u \in D THEN r ELSE None],
               requests |-> 1]

\* Of the old runs one asked the provider, and the others are children of it
\* that did not; for those an old version wrote no checkpoint.
Init ==
    /\ source = [u \in Units |-> 1]
    /\ settled = {}
    /\ \E root \in IF OldRuns = {} THEN {None} ELSE OldRuns, D \in (SUBSET Units) \ {{}} :
           /\ ckpt = [r \in Runs |-> IF r = root THEN Paid(r, D) ELSE None]
           /\ request = [r \in Runs |-> IF r \in OldRuns \ {root} THEN root ELSE None]
           /\ shipped = [r \in Runs |-> IF r = root THEN D \X {1} ELSE {}]
    /\ lineage = [r \in Runs |-> None]
    /\ evidence = [r \in Runs |-> NoRecords]
    /\ exec = [r \in Runs |-> Idle]
    /\ kills = 0

------------------------------------------------------------------------------
(* Ancestors.                                                                *)

\* The n-th ancestor of r when each run's parent is the one that up names.
Ancestor(up, r, n) ==
    LET a[k \in 0..n] == IF k = 0 THEN r ELSE IF a[k - 1] = None THEN None ELSE up[a[k - 1]]
    IN  a[n]

Generations == 0..(Cardinality(Runs) - 1)

\* _resolve_parent_checkpoint: the nearest run with a checkpoint, found through
\* the task requests alone. There is none when the chain ends or is a cycle.
Resolved(r) ==
    {q \in Runs : \E n \in Generations :
        /\ q = Ancestor(request, r, n) /\ ckpt[q] # None
        /\ \A m \in 0..(n - 1) : ckpt[Ancestor(request, r, m)] = None}

\* _parent_of: the runner's own file goes before the task request.
ParentOf == [r \in Runs |-> IF lineage[r] # None THEN lineage[r] ELSE request[r]]

\* _run_lineage: r and its ancestors. The limit on their number is left out.
Lineage(r) == {Ancestor(ParentOf, r, n) : n \in Generations} \ {None}

------------------------------------------------------------------------------
(* One execution of a run.                                                   *)

\* One slip: the fingerprints are not compared.
ReusableAnyway(c, u) == c.trans[u] # 0 /\ c.fp[u] # 0

\* _plan_rebuild: a success whose recorded fingerprint is that of the present source.
Reusable(c, u) == c.trans[u] # 0 /\ c.fp[u] = source[u]

\* What the caller may start: a run with a new identifier, or one that is
\* executed again. A resumed rebuild is an ordinary run.
MayStart(r, from) ==
    \/ ckpt[r] = None /\ lineage[r] = None /\ r \notin OldRuns
    \/ "retry" \in Again /\ from # None /\ from = lineage[r] /\ evidence[r] = NoRecords
    \/ "repeat" \in Again /\ from # None
    \/ "resume" \in Again /\ from = None /\ ckpt[r] # None

\* rebuild_from_run and plan(): the sources, the translation memory and the
\* checkpoint of the parent are read. The dashboard has written a request.
Begin(r, from, web) ==
    /\ exec[r].pc = "idle" /\ from # r
    /\ Cardinality({q \in Runs : exec[q].pc # "idle"}) < MaxParallel
    /\ MayStart(r, from)
    /\ request' = IF web THEN [request EXCEPT ![r] = from] ELSE request
    /\ LET pending == Units \ settled
           start == [Idle EXCEPT !.pc = "configure", !.plan = source, !.pending = pending,
                              !.known = UNION {shipped[q] : q \in {r, from} \ {None}}]
       IN  IF from = None
           THEN /\ pending # {}
                /\ exec' = [exec EXCEPT ![r] = start]
           ELSE \E b \in Resolved(from) :
                    LET R == {u \in pending : Reusable(ckpt[b], u)}
                    IN  exec' = [exec EXCEPT ![r] =
                            [start EXCEPT !.from = from, !.base = b,
                                 !.reused = [u \in Units |-> IF u \in R THEN ckpt[b].trans[u] ELSE 0],
                                 !.payer  = [u \in Units |-> IF u \in R THEN ckpt[b].by[u] ELSE None]]]
    /\ UNCHANGED <<source, settled, ckpt, lineage, evidence, kills, shipped>>

Reused(r) == {u \in Units : exec[r].reused[u] # 0}

\* configure_run: a success under another fingerprint is dropped, the
\* fingerprints of this plan are recorded, and the file is written.
Configured(c, plan, D) ==
    LET stale == {u \in D : c.fp[u] \notin {0, plan[u]}}
    IN  [c EXCEPT !.trans = [u \in Units |-> IF u \in stale THEN 0 ELSE @[u]],
                  !.by    = [u \in Units |-> IF u \in stale THEN None ELSE @[u]],
                  !.fp    = [u \in Units |-> IF u \in D THEN plan[u] ELSE @[u]]]

Configure(r) ==
    /\ exec[r].pc = "configure"
    /\ lineage' = IF exec[r].from = None THEN lineage ELSE [lineage EXCEPT ![r] = exec[r].from]
    /\ LET old == IF ckpt[r] = None THEN Empty ELSE ckpt[r]
           c == Configured(old, exec[r].plan, exec[r].pending)
       IN  /\ ckpt' = [ckpt EXCEPT ![r] = c]
           /\ exec' = [exec EXCEPT ![r].mem = c, ![r].pc = "seed"]
    /\ UNCHANGED <<source, settled, request, evidence, kills, shipped>>

Seeded(c, e, D) ==
    [c EXCEPT !.trans = [u \in Units |-> IF u \in D THEN e.reused[u] ELSE @[u]],
              !.by    = [u \in Units |-> IF u \in D THEN e.payer[u] ELSE @[u]]]

\* One slip: the reused translations go into the build only.
SeedNothing(r) ==
    /\ exec[r].pc = "seed"
    /\ exec' = [exec EXCEPT ![r].pc = "translate",
                   ![r].todo = {u \in exec[r].pending \ Reused(r) : exec[r].mem.trans[u] = 0}]
    /\ UNCHANGED <<source, settled, ckpt, request, lineage, evidence, kills, shipped>>

\* The reused translations are recorded in the checkpoint of the child, for the
\* generation after it. The rest is what the provider is asked for.
Seed(r) ==
    /\ exec[r].pc = "seed"
    /\ LET c == Seeded(exec[r].mem, exec[r], Reused(r))
       IN  /\ ckpt' = [ckpt EXCEPT ![r] = c]
           /\ exec' = [exec EXCEPT ![r].mem = c, ![r].pc = "translate",
                   ![r].todo = {u \in exec[r].pending \ Reused(r) : c.trans[u] = 0}]
    /\ UNCHANGED <<source, settled, request, lineage, evidence, kills, shipped>>

\* The result v of u, which run p paid for, after n more requests.
Answered(c, u, v, p, n) ==
    [trans |-> [c.trans EXCEPT ![u] = v], fp |-> c.fp, by |-> [c.by EXCEPT ![u] = p],
     requests |-> c.requests + n]

\* The provider translates a unit, or fails to; a request beyond the budget is
\* not sent. The checkpoint may or may not be written.
Ask(r, u) ==
    /\ exec[r].pc = "translate" /\ u \in exec[r].todo
    /\ \E c \in IF exec[r].mem.requests = MaxRequests
                THEN {Answered(exec[r].mem, u, 0, None, 0)}
                ELSE {Answered(exec[r].mem, u, 0, None, 1),
                      Answered(exec[r].mem, u, exec[r].plan[u], r, 1)} :
           /\ exec' = [exec EXCEPT ![r].mem = c, ![r].todo = @ \ {u}]
           /\ ckpt' = [ckpt EXCEPT ![r] = c] \/ UNCHANGED ckpt
    /\ UNCHANGED <<source, settled, request, lineage, evidence, kills, shipped>>

\* finalize writes the checkpoint.
Finalize(r) ==
    /\ exec[r].pc = "translate" /\ exec[r].todo = {}
    /\ ckpt' = [ckpt EXCEPT ![r] = exec[r].mem]
    /\ exec' = [exec EXCEPT ![r].pc = "save"]
    /\ UNCHANGED <<source, settled, request, lineage, evidence, kills, shipped>>

\* legacy_checkpoint_record of every run in S.
CheckpointRecords(S) ==
    [q \in Runs |-> IF q \in S /\ ckpt[q] # None THEN ckpt[q].requests ELSE 0]

\* One slip: the parent's own execution stands for what it inherited.
InheritedFromParent(e) ==
    IF e.from = None \/ \A u \in Units : e.reused[u] = 0 THEN NoRecords
    ELSE CheckpointRecords({e.base})

\* inherited_for_rebuild: what the parent recorded, else what the run of the
\* reused checkpoint recorded, else the checkpoints of all ancestors.
Inherited(e) ==
    IF e.from = None \/ \A u \in Units : e.reused[u] = 0 THEN NoRecords
    ELSE IF evidence[e.from] # NoRecords THEN evidence[e.from]
    ELSE IF evidence[e.base] # NoRecords THEN evidence[e.base]
    ELSE CheckpointRecords({e.base} \cup Lineage(e.from))

\* merge_execution_records keeps one record of each run, the last.
Merged(inherited, r, n) == IF n = 0 THEN inherited ELSE [inherited EXCEPT ![r] = n]

SaveEvidence(r) ==
    /\ exec[r].pc = "save"
    /\ evidence' = [evidence EXCEPT ![r] =
                        Merged(Inherited(exec[r]), r, exec[r].mem.requests)]
    /\ exec' = [exec EXCEPT ![r].pc = "build"]
    /\ UNCHANGED <<source, settled, ckpt, request, lineage, kills, shipped>>

\* The machine translations of the build: what was reused, and the results.
Ships(r) ==
    {u \in exec[r].pending : u \in Reused(r) \/ exec[r].mem.trans[u] # 0}

ShippedTrans(r, u) == IF u \in Reused(r) THEN exec[r].reused[u] ELSE exec[r].mem.trans[u]

ShippedBy(r, u) == IF u \in Reused(r) THEN exec[r].payer[u] ELSE exec[r].mem.by[u]

Build(r) ==
    /\ exec[r].pc = "build"
    /\ shipped' = [shipped EXCEPT ![r] = @ \cup {<<u, ShippedTrans(r, u)>> : u \in Ships(r)}]
    /\ exec' = [exec EXCEPT ![r] = Idle]
    /\ UNCHANGED <<source, settled, ckpt, request, lineage, evidence, kills>>

\* The process is killed, or an error such as a stale formal row ends the run.
\* The lineage is written before the checkpoint, and while the reused translations
\* are recorded any of them may be on disk.
Stop(r) ==
    /\ kills < MaxKills /\ exec[r].pc # "idle"
    /\ kills' = kills + 1
    /\ \E D \in IF exec[r].pc = "seed" THEN SUBSET Reused(r) ELSE {{}} :
           ckpt' = IF D = {} THEN ckpt
                   ELSE [ckpt EXCEPT ![r] = Seeded(exec[r].mem, exec[r], D)]
    /\ \/ UNCHANGED lineage
       \/ exec[r].pc = "configure" /\ exec[r].from # None
          /\ lineage' = [lineage EXCEPT ![r] = exec[r].from]
    /\ exec' = [exec EXCEPT ![r] = Idle]
    /\ UNCHANGED <<source, settled, request, evidence, shipped>>

------------------------------------------------------------------------------
\* A release or a reviewer gives the translation memory an answer.
Settle(u) ==
    /\ u \notin settled
    /\ settled' = settled \cup {u}
    /\ UNCHANGED <<source, ckpt, request, lineage, evidence, exec, kills, shipped>>

\* The game changes its text, and the answer no longer matches.
Edit(u) ==
    /\ source[u] < MaxVersion
    /\ source' = [source EXCEPT ![u] = @ + 1]
    /\ settled' = settled \ {u}
    /\ UNCHANGED <<ckpt, request, lineage, evidence, exec, kills, shipped>>

Next ==
    \/ \E r \in Runs :
           \/ \E from \in Runs \cup {None}, web \in BOOLEAN : Begin(r, from, web)
           \/ Configure(r) \/ Seed(r) \/ Finalize(r) \/ SaveEvidence(r) \/ Build(r) \/ Stop(r)
           \/ \E u \in Units : Ask(r, u)
    \/ \E u \in Units : Settle(u) \/ Edit(u)

Spec == Init /\ [][Next]_vars

------------------------------------------------------------------------------
\* No build of any generation contains a translation of another version of the
\* text than the one its plan saw, however many runs it was handed through.
ShipsCurrent ==
    \A r \in Runs : exec[r].pc = "build" =>
        \A u \in Ships(r) : ShippedTrans(r, u) = exec[r].plan[u]

\* Every run that was paid for a translation in the build is a contributing run
\* of its evidence.
EvidenceComplete ==
    \A r \in Runs : exec[r].pc = "build" =>
        \A u \in Ships(r) : evidence[r][ShippedBy(r, u)] > 0

\* A rebuild never asks the provider for what its parent, or an earlier execution
\* of the same run, has already put into a build for the same text.
NothingPaidTwice ==
    \A r \in Runs : exec[r].pc = "translate" =>
        \A u \in exec[r].todo : <<u, exec[r].plan[u]>> \notin exec[r].known
=============================================================================
