-------------------------- MODULE TranslationMemory --------------------------
(****************************************************************************)
(* The translation memory under its concurrent writers: the pipeline of a   *)
(* run (plan, stage, validate, build, promote), the human write of the      *)
(* review panel, the retirement of stale formal rows, and the legacy        *)
(* synchronisation with its provenance sidecar.                             *)
(*                                                                          *)
(* Every SQL transaction is one action; what a caller reads outside of it   *)
(* is an earlier action, so that other writers may come in between.         *)
(****************************************************************************)
EXTENDS TMStore

CONSTANTS
    SingleProcess,  \* TRUE: every writer is the dashboard, which refuses human
                    \* writes while a task is queued or running; FALSE: a CLI
                    \* command may write at any time
    Authoritative,  \* SQLite has been switched to be the authority
    LegacyImports,  \* which legacy rows a sync brings: clean (TRUE), bad (FALSE)
    SidecarImports, \* which protected rows a provenance sidecar brings back
    Nothing         \* no pending call

ASSUME ModeIsBoolean ==
    /\ SingleProcess \in BOOLEAN
    /\ Authoritative \in BOOLEAN
    /\ LegacyImports \subseteq BOOLEAN
    /\ SidecarImports \subseteq {"human", "locked", "questionable", "machine"}

ASSUME SomeFingerprint == Fps # {}

VARIABLES
    rows,     \* tm_entries
    hist,     \* tm_source_history
    run,      \* where each run stands in ProjectRunner.run / LocalBuildPipeline.build
    panel,    \* the human write in progress
    approval  \* the stale-formal retirement an operator has been shown

vars == <<rows, hist, run, panel, approval>>

PCs == {"idle", "planned", "writing", "written", "staged", "validated",
        "built", "promoting", "done", "halted", "failed", "stopped",
        "killed"}

\* refused is a history variable: what the guarded upsert silently left alone.
RunStates == [pc : PCs, src : [Ids -> Fps], pending : SUBSET Ids,
              es : Tables, before : Tables, refused : SUBSET Ids]

Calls == [es : Tables, override : BOOLEAN]

Approvals == [src : [Ids -> Fps], ids : SUBSET Ids, rows : Tables]

ASSUME NothingIsNoCall == Nothing \notin Calls \cup Approvals

TypeOK ==
    /\ rows \in Tables
    /\ hist \in Histories
    /\ run \in [Runs -> RunStates]
    /\ panel \in Calls \cup {Nothing}
    /\ approval \in Approvals \cup {Nothing}

Empty == [i \in Ids |-> NoRow]

\* A run that holds nothing: not started, or ended in pc.
AtRest(pc) == [pc |-> pc, src |-> [i \in Ids |-> CHOOSE f \in Fps : TRUE],
               pending |-> {}, es |-> Empty, before |-> Empty, refused |-> {}]

Init ==
    /\ rows = Empty
    /\ hist = [i \in Ids |-> [f \in Fps |-> NoRow]]
    /\ run = [r \in Runs |-> AtRest("idle")]
    /\ panel = Nothing
    /\ approval = Nothing

------------------------------------------------------------------------------
Active(r) ==
    run[r].pc \in {"planned", "writing", "written", "staged", "validated",
                   "built", "promoting"}

\* Inside the dashboard: the single-worker executor, the busy check of a human
\* write and of a stale confirmation, and the maintenance lock they share.
Quiet == SingleProcess => panel = Nothing /\ \A r \in Runs : ~Active(r)

(* The planner looks up every unit of the current source; some of the misses *)
(* may still be resolved by a source-level rule, the rest are pending.       *)
Plan(r) ==
    /\ run[r].pc = "idle"
    /\ Quiet
    /\ \E src \in [Ids -> Fps] :
       \E pending \in SUBSET {i \in Ids : Lookup(rows, hist, i, src[i]) = NoRow} :
           run' = [run EXCEPT ![r].pc = "planned", ![r].src = src,
                              ![r].pending = pending]
    /\ UNCHANGED <<rows, hist, panel, approval>>

(* upsert_many reads the rows it is about to write, outside its transaction. *)
StageRead(r) ==
    /\ run[r].pc = "planned"
    /\ \E D \in SUBSET run[r].pending, txt \in [Ids -> Txts] :
           run' = [run EXCEPT
               ![r].pc = "writing",
               ![r].es = [i \in Ids |->
                   IF i \in D THEN MachineRow(run[r].src[i], txt[i], r) ELSE NoRow],
               ![r].before = Restricted(rows, D)]
    /\ UNCHANGED <<rows, hist, panel, approval>>

StageWrite(r) ==
    /\ run[r].pc = "writing"
    /\ rows' = Upserted(rows, run[r].es)
    /\ hist' = Archived(rows, hist, ReplacedFormal(rows, run[r].es))
    /\ run' = [run EXCEPT ![r].pc = "written",
                          ![r].refused = {i \in Present(run[r].es) :
                                            ~Admitted(rows, i, run[r].es[i])}]
    /\ UNCHANGED <<panel, approval>>

\* One slip: only the text is compared.
RejectedByText(r) ==
    {i \in Present(run[r].es) :
        rows[i] = NoRow \/ (rows[i].txt # run[r].es[i].txt /\ rows[i] = run[r].before[i])}

\* The identities upsert_many returns: the row is missing, or it differs from
\* the entry and is still the one read before the transaction.
Rejected(r) ==
    LET es == run[r].es IN
    {i \in Present(es) :
        \/ rows[i] = NoRow
        \/ /\ \/ rows[i].txt # es[i].txt
              \/ rows[i].fp # es[i].fp
              \/ rows[i].run # es[i].run
           /\ rows[i] = run[r].before[i]}

(* A rejection raises StaleFormalEntryError before anything is rendered.     *)
StageReport(r) ==
    /\ run[r].pc = "written"
    /\ run' = [run EXCEPT ![r] = IF Rejected(r) = {}
                                 THEN [@ EXCEPT !.pc = "staged", !.before = Empty]
                                 ELSE AtRest("failed")]
    /\ UNCHANGED <<rows, hist, panel, approval>>

(* A preview returns here, and so does a release the quality gate blocks.    *)
StopAtGate(r) ==
    /\ run[r].pc = "staged"
    /\ run' = [run EXCEPT ![r] = AtRest("stopped")]
    /\ UNCHANGED <<rows, hist, panel, approval>>

Validate(r) ==
    /\ run[r].pc = "staged"
    /\ run' = [run EXCEPT ![r] = IF Promotable(rows, r, Present(@.es))
                                 THEN [@ EXCEPT !.pc = "validated"]
                                 ELSE AtRest("failed")]
    /\ UNCHANGED <<rows, hist, panel, approval>>

BuildArtifact(r) ==
    /\ run[r].pc = "validated"
    /\ run' = [run EXCEPT ![r].pc = "built"]
    /\ UNCHANGED <<rows, hist, panel, approval>>

\* promote_run validates again, and raises with the artifact already written.
PromoteRead(r) ==
    /\ run[r].pc = "built"
    /\ run' = [run EXCEPT ![r] = IF Promotable(rows, r, Present(@.es))
                                 THEN [@ EXCEPT !.pc = "promoting"]
                                 ELSE AtRest("halted")]
    /\ UNCHANGED <<rows, hist, panel, approval>>

PromoteWrite(r) ==
    /\ run[r].pc = "promoting"
    /\ rows' = Promoted(rows, r, Present(run[r].es))
    /\ run' = [run EXCEPT ![r] = AtRest("done")]
    /\ UNCHANGED <<hist, panel, approval>>

(* A run is killed, or an error ends it, between two of its steps: after     *)
(* BuildArtifact its artifact is never promoted.                             *)
Kill(r) ==
    /\ Active(r)
    /\ run' = [run EXCEPT ![r] = AtRest("killed")]
    /\ UNCHANGED <<rows, hist, panel, approval>>

------------------------------------------------------------------------------
(* apply_human_review reads the guarded rows outside its transaction.        *)
HumanRead ==
    /\ panel = Nothing
    /\ Quiet
    /\ \E D \in SUBSET Ids, fp \in [Ids -> Fps], txt \in [Ids -> Txts],
          override \in BOOLEAN :
       LET writable == {i \in D : override \/ ~RemoteGuarded(rows[i])} IN
           /\ writable # {}
           /\ panel' = [es |-> [i \in Ids |-> IF i \in writable
                                              THEN HumanRow(fp[i], txt[i]) ELSE NoRow],
                        override |-> override]
    /\ UNCHANGED <<rows, hist, run, approval>>

(* The transaction archives, upserts and reads back; a mismatch rolls back.  *)
HumanWrite ==
    /\ panel # Nothing
    /\ LET after == Upserted(rows, panel.es) IN
       IF \A i \in Present(panel.es) : after[i] = panel.es[i]
       THEN /\ rows' = after
            /\ hist' = Archived(rows, hist, ReplacedFormal(rows, panel.es))
       ELSE UNCHANGED <<rows, hist>>
    /\ panel' = Nothing
    /\ UNCHANGED <<run, approval>>

(* retire_human_entries: the panel's own rows and their exact-source history. *)
RetireHuman ==
    /\ Quiet
    /\ \E D \in SUBSET {i \in Present(rows) : rows[i].origin = "human"} :
           /\ D # {}
           /\ rows' = Deleted(rows, D)
           /\ hist' = [i \in Ids |-> [f \in Fps |->
                          IF i \in D /\ rows[i].fp = f THEN NoRow ELSE hist[i][f]]]
    /\ UNCHANGED <<run, panel, approval>>

------------------------------------------------------------------------------
(* The preflight shows the stale formal rows of a plan and pins their tokens. *)
Preflight ==
    /\ approval = Nothing
    /\ \E src \in [Ids -> Fps] :
       LET stale == StaleFormal(rows, hist, src, Ids) IN
           /\ stale # {}
           /\ approval' = [src |-> src, ids |-> stale, rows |-> Restricted(rows, stale)]
    /\ UNCHANGED <<rows, hist, run, panel>>

\* One slip: the row tokens are not compared.
ApprovalWithoutTokens ==
    StaleFormal(rows, hist, approval.src, approval.ids) = approval.ids

\* What retire_stale_formal_entries re-checks inside its transaction.
ApprovalHolds ==
    /\ StaleFormal(rows, hist, approval.src, approval.ids) = approval.ids
    /\ \A i \in approval.ids : rows[i] = approval.rows[i]

RetireStale ==
    /\ approval # Nothing
    /\ Quiet
    /\ IF ApprovalHolds
       THEN /\ rows' = Deleted(rows, approval.ids)
            /\ hist' = Archived(rows, hist, approval.ids)
       ELSE UNCHANGED <<rows, hist>>
    /\ approval' = Nothing
    /\ UNCHANGED <<run, panel>>

------------------------------------------------------------------------------
(* LegacyTMSynchronizer.sync: the shadow rows are replaced wholesale ...         *)
ReplaceShadow ==
    /\ Quiet
    /\ ~Authoritative
    /\ \E D \in SUBSET Ids, fp \in [Ids -> Fps], txt \in [Ids -> Txts],
          clean \in [Ids -> LegacyImports] :
           rows' = ShadowReplaced(rows, [i \in Ids |->
                       IF i \in D THEN LegacyRow(fp[i], txt[i], clean[i]) ELSE NoRow])
    /\ UNCHANGED <<hist, run, panel, approval>>

\* The rows an export protects and its sidecar brings back.
SidecarRow(kind, f, t) ==
    CASE kind = "human"        -> HumanRow(f, t)
      [] kind = "locked"       -> RemoteRow(f, t, "locked")
      [] kind = "questionable" -> RemoteRow(f, t, "suspect")
      [] kind = "machine"      -> [MachineRow(f, t, NoRun) EXCEPT !.formal = TRUE]

(* ... and the rows a sidecar restores go through the guarded upsert.        *)
RestoreProtected ==
    /\ Quiet
    /\ ~Authoritative
    /\ \E D \in SUBSET Ids, fp \in [Ids -> Fps], txt \in [Ids -> Txts],
          kind \in [Ids -> SidecarImports] :
       LET es == [i \in Ids |->
                     IF i \in D THEN SidecarRow(kind[i], fp[i], txt[i]) ELSE NoRow] IN
           /\ D # {}
           /\ rows' = Upserted(rows, es)
           /\ hist' = Archived(rows, hist, ReplacedFormal(rows, es))
    /\ UNCHANGED <<run, panel, approval>>

------------------------------------------------------------------------------
RunStep(r) ==
    \/ Plan(r) \/ StageRead(r) \/ StageWrite(r) \/ StageReport(r) \/ StopAtGate(r)
    \/ Validate(r) \/ BuildArtifact(r) \/ PromoteRead(r) \/ PromoteWrite(r)
    \/ Kill(r)

Next ==
    \/ \E r \in Runs : RunStep(r)
    \/ HumanRead \/ HumanWrite \/ RetireHuman
    \/ Preflight \/ RetireStale
    \/ ReplaceShadow \/ RestoreProtected

Spec == Init /\ [][Next]_vars

------------------------------------------------------------------------------
\* The history of a coordinate at a fingerprint is a row that was formal there:
\* lookup returns it as formal without looking at its fingerprint again.
HistoryExact ==
    \A i \in Ids, f \in Fps : hist[i][f] # NoRow =>
        hist[i][f].fp = f /\ hist[i][f].formal

\* Nothing becomes formal, or survives in history, without having passed the
\* quality checks, although promotion validates and updates in two transactions.
FormalPassed ==
    /\ \A i \in Ids : rows[i] # NoRow /\ rows[i].formal => rows[i].quality = "passed"
    /\ \A i \in Ids, f \in Fps : hist[i][f] # NoRow => hist[i][f].quality = "passed"

\* A machine or legacy row never takes the place of a row a person wrote.
HumanKept ==
    [][\A i \in Ids : rows[i] # NoRow /\ rows[i].human /\ rows'[i] # NoRow
          => rows'[i].human]_vars

FormalAt(i, f) ==
    \/ rows[i] # NoRow /\ rows[i].formal /\ rows[i].fp = f
    \/ hist[i][f] # NoRow

HumanRetired(i, f) ==
    rows[i] # NoRow /\ rows[i].origin = "human" /\ rows[i].fp = f /\ rows'[i] = NoRow

\* A translation that was once formal for a source stays reachable for exactly
\* that source, in the row or in its history, until a person retires it.
FormalKept ==
    [][\A i \in Ids, f \in Fps :
          FormalAt(i, f) => FormalAt(i, f)' \/ HumanRetired(i, f)]_vars

\* A stale retirement removes only rows as its operator saw them, and only rows
\* no plan of that source could still reuse.
RetiredAsApproved ==
    [][approval # Nothing /\ approval' = Nothing =>
          \A i \in Ids : rows'[i] # rows[i] =>
              /\ i \in approval.ids
              /\ rows[i] = approval.rows[i]
              /\ Lookup(rows, hist, i, approval.src[i]) = NoRow]_vars

\* A run that passes upsert_many staged everything it was asked to stage: the
\* silent refusals of the guarded upsert are all reported before rendering.
RefusalsReported ==
    \A r \in Runs : run[r].pc \in {"staged", "validated", "built", "promoting"}
                     => run[r].refused = {}

\* Release continuity: when a release ends with its artifact written, a fresh plan
\* of the same source finds every machine translation it shipped.
ReleaseContinuity ==
    [][\A r \in Runs :
          run[r].pc \in {"built", "promoting"} /\ run'[r].pc \in {"done", "halted"}
          => \A i \in Present(run[r].es) :
                 Lookup(rows', hist', i, run[r].src[i]) # NoRow]_vars

\* A human write that did not ask to override leaves the rows ParaTranz protects.
RemoteKept ==
    [][panel # Nothing /\ panel' = Nothing /\ ~panel.override =>
          \A i \in Ids : rows[i] # NoRow /\ rows[i].origin = "paratranz" /\ rows[i].human
                           => rows'[i] = rows[i]]_vars

\* A legacy synchronisation leaves every human or formal row as it is.
SyncKeepsProtected ==
    [][(ReplaceShadow \/ RestoreProtected) =>
          \A i \in Ids : rows[i] # NoRow /\ (rows[i].human \/ rows[i].formal)
                           => rows'[i] = rows[i]]_vars

\* The history of a source a person translated is never replaced by a machine's.
HumanHistoryKept ==
    [][\A i \in Ids, f \in Fps :
          hist[i][f] # NoRow /\ hist[i][f].human /\ hist'[i][f] # NoRow
          => hist'[i][f].human]_vars
=============================================================================
