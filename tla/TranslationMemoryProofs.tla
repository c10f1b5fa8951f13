----------------------- MODULE TranslationMemoryProofs -----------------------
(****************************************************************************)
(* What TLAPS proves of TranslationMemory, for any sets of coordinates,     *)
(* fingerprints, translations and runs, and for both process disciplines.   *)
(****************************************************************************)
EXTENDS TranslationMemory, TLAPS

------------------------------------------------------------------------------
(* The operators of TMStore stay inside tables and histories.               *)

LEMMA ShapeTypes ==
    ASSUME NEW f \in Fps, NEW t \in Txts
    PROVE  /\ \A r \in Runs \cup {NoRun} : MachineRow(f, t, r) \in Rows
           /\ HumanRow(f, t) \in Rows
           /\ \A c \in BOOLEAN : LegacyRow(f, t, c) \in Rows
           /\ RemoteRow(f, t, "locked") \in Rows
           /\ RemoteRow(f, t, "suspect") \in Rows
BY DEF MachineRow, HumanRow, LegacyRow, RemoteRow, Rows, Origins, Reviews, RemoteReviews

LEMMA SidecarType ==
    ASSUME NEW k \in SidecarImports, NEW f \in Fps, NEW t \in Txts
    PROVE  /\ SidecarRow(k, f, t) \in Rows
           /\ SidecarRow(k, f, t).run = NoRun
           /\ SidecarRow(k, f, t).formal => SidecarRow(k, f, t).quality = "passed"
           /\ SidecarRow(k, f, t).human \/ SidecarRow(k, f, t).origin = "machine"
           /\ SidecarRow(k, f, t).origin # "legacy"
<1>1. k \in {"human", "locked", "questionable", "machine"}
  BY ModeIsBoolean
<1>2. CASE k = "human"
  BY <1>2, ShapeTypes DEF SidecarRow, HumanRow
<1>3. CASE k = "locked"
  BY <1>3, ShapeTypes DEF SidecarRow, RemoteRow
<1>4. CASE k = "questionable"
  BY <1>4, ShapeTypes DEF SidecarRow, RemoteRow
<1>5. CASE k = "machine"
  <2>1. SidecarRow(k, f, t) = [MachineRow(f, t, NoRun) EXCEPT !.formal = TRUE]
    BY <1>5 DEF SidecarRow
  <2>2. QED BY <2>1 DEF MachineRow, Rows, Origins, Reviews, RemoteReviews
<1>6. QED BY <1>1, <1>2, <1>3, <1>4, <1>5

LEMMA TableTypes ==
    ASSUME NEW t \in Tables, NEW e \in Tables, NEW D \in SUBSET Ids
    PROVE  /\ Restricted(t, D) \in Tables
           /\ Upserted(t, e) \in Tables
           /\ Deleted(t, D) \in Tables
           /\ ShadowReplaced(t, e) \in Tables
           /\ \A r \in Runs : Promoted(t, r, D) \in Tables
           /\ ReplacedFormal(t, e) \in SUBSET Ids
           /\ Present(t) \in SUBSET Ids
           /\ Empty \in Tables
<1>1. Restricted(t, D) \in Tables  BY DEF Tables, Restricted
<1>2. Upserted(t, e) \in Tables    BY DEF Tables, Upserted
<1>3. Deleted(t, D) \in Tables     BY DEF Tables, Deleted
<1>4. ShadowReplaced(t, e) \in Tables  BY DEF Tables, ShadowReplaced
<1>5. \A r \in Runs : Promoted(t, r, D) \in Tables
  <2> TAKE r \in Runs
  <2>1. \A row \in Rows : [row EXCEPT !.formal = TRUE] \in Rows  BY DEF Rows
  <2>2. \A i \in Ids : t[i] # NoRow => t[i] \in Rows  BY DEF Tables
  <2>3. QED BY <2>1, <2>2 DEF Tables, Promoted
<1>6. QED BY <1>1, <1>2, <1>3, <1>4, <1>5 DEF ReplacedFormal, Present, Empty, Tables

LEMMA ArchiveType ==
    ASSUME NEW t \in Tables, NEW h \in Histories, NEW D \in SUBSET Ids,
           \A i \in D : t[i] # NoRow
    PROVE  Archived(t, h, D) \in Histories
BY DEF Tables, Histories, Archived

------------------------------------------------------------------------------
(* Type correctness.                                                        *)

LEMMA AtRestType == ASSUME NEW pc \in PCs PROVE AtRest(pc) \in RunStates
<1>1. (CHOOSE f \in Fps : TRUE) \in Fps
  BY SomeFingerprint
<1>2. Empty \in Tables
  BY DEF Empty, Tables
<1>3. QED BY <1>1, <1>2 DEF AtRest, RunStates

LEMMA InitType == Init => TypeOK
<1> SUFFICES ASSUME Init PROVE TypeOK
  OBVIOUS
<1>1. rows \in Tables
  BY DEF Init, Empty, Tables
<1>2. hist \in Histories
  BY DEF Init, Histories
<1>3. run \in [Runs -> RunStates]
  BY AtRestType DEF Init, PCs
<1>4. QED BY <1>1, <1>2, <1>3 DEF Init, TypeOK

\* The rows a run stages, and the ones it read before writing them, are tables.
LEMMA StageReadType ==
    ASSUME TypeOK, NEW r \in Runs, StageRead(r)
    PROVE  TypeOK'
<1>1. PICK D \in SUBSET run[r].pending, txt \in [Ids -> Txts] :
        run' = [run EXCEPT
            ![r].pc = "writing",
            ![r].es = [i \in Ids |->
                IF i \in D THEN MachineRow(run[r].src[i], txt[i], r) ELSE NoRow],
            ![r].before = Restricted(rows, D)]
  BY DEF StageRead
<1> DEFINE es == [i \in Ids |->
                IF i \in D THEN MachineRow(run[r].src[i], txt[i], r) ELSE NoRow]
<1>2. run[r] \in RunStates
  BY DEF TypeOK
<1>3. D \in SUBSET Ids
  BY <1>2 DEF RunStates
<1>4. \A i \in Ids : MachineRow(run[r].src[i], txt[i], r) \in Rows
  <2> TAKE i \in Ids
  <2>1. run[r].src[i] \in Fps /\ txt[i] \in Txts
    BY <1>2 DEF RunStates
  <2>2. QED BY <2>1, ShapeTypes
<1>5. es \in Tables
  BY <1>4 DEF Tables
<1>6. Restricted(rows, D) \in Tables
  BY <1>3, TableTypes DEF TypeOK
<1>7. [run[r] EXCEPT !.pc = "writing", !.es = es, !.before = Restricted(rows, D)]
        \in RunStates
  BY <1>2, <1>5, <1>6 DEF RunStates, PCs
<1> HIDE DEF es
<1>8. run' \in [Runs -> RunStates]
  BY <1>1, <1>7 DEF TypeOK, es
<1>9. QED BY <1>8 DEF StageRead, TypeOK

LEMMA StageWriteType ==
    ASSUME TypeOK, NEW r \in Runs, StageWrite(r)
    PROVE  TypeOK'
<1>1. run[r] \in RunStates /\ run[r].es \in Tables
  BY DEF TypeOK, RunStates
<1>2. rows' \in Tables
  BY <1>1, TableTypes DEF StageWrite, TypeOK
<1>3. hist' \in Histories
  <2>1. \A i \in ReplacedFormal(rows, run[r].es) : rows[i] # NoRow
    BY DEF ReplacedFormal
  <2>2. ReplacedFormal(rows, run[r].es) \in SUBSET Ids
    BY DEF ReplacedFormal
  <2>3. QED BY <2>1, <2>2, ArchiveType DEF StageWrite, TypeOK
<1>4. run' \in [Runs -> RunStates]
  <2>1. {i \in Present(run[r].es) : ~Admitted(rows, i, run[r].es[i])} \in SUBSET Ids
    BY DEF Present
  <2>2. QED BY <1>1, <2>1 DEF StageWrite, TypeOK, RunStates, PCs
<1>5. QED BY <1>2, <1>3, <1>4 DEF StageWrite, TypeOK

\* The steps of a run that only move its program counter or end it.
LEMMA RunStepType ==
    ASSUME TypeOK, NEW r \in Runs, RunStep(r)
    PROVE  TypeOK'
<1> USE DEF TypeOK
<1>0. run[r] \in RunStates
  OBVIOUS
<1>1. CASE Plan(r)
  <2>1. PICK src \in [Ids -> Fps], pending \in SUBSET Ids :
          run' = [run EXCEPT ![r].pc = "planned", ![r].src = src, ![r].pending = pending]
    BY <1>1 DEF Plan
  <2>2. [run[r] EXCEPT !.pc = "planned", !.src = src, !.pending = pending] \in RunStates
    BY <1>0 DEF RunStates, PCs
  <2>3. QED BY <1>1, <2>1, <2>2 DEF Plan
<1>2. CASE StageRead(r)  BY <1>2, StageReadType
<1>3. CASE StageWrite(r) BY <1>3, StageWriteType
<1>4. CASE StageReport(r)
  <2>1. AtRest("failed") \in RunStates  BY AtRestType DEF PCs
  <2>2. [run[r] EXCEPT !.pc = "staged", !.before = Empty] \in RunStates
    BY <1>0 DEF RunStates, PCs, Empty, Tables
  <2>3. QED BY <1>4, <2>1, <2>2 DEF StageReport
<1>5. CASE StopAtGate(r)
  <2>1. AtRest("stopped") \in RunStates  BY AtRestType DEF PCs
  <2>2. QED BY <1>5, <2>1 DEF StopAtGate
<1>6. CASE Validate(r)
  <2>1. AtRest("failed") \in RunStates  BY AtRestType DEF PCs
  <2>2. [run[r] EXCEPT !.pc = "validated"] \in RunStates  BY <1>0 DEF RunStates, PCs
  <2>3. QED BY <1>6, <2>1, <2>2 DEF Validate
<1>7. CASE BuildArtifact(r)
  <2>1. [run[r] EXCEPT !.pc = "built"] \in RunStates  BY <1>0 DEF RunStates, PCs
  <2>2. QED BY <1>7, <2>1 DEF BuildArtifact
<1>8. CASE PromoteRead(r)
  <2>1. AtRest("halted") \in RunStates  BY AtRestType DEF PCs
  <2>2. [run[r] EXCEPT !.pc = "promoting"] \in RunStates  BY <1>0 DEF RunStates, PCs
  <2>3. QED BY <1>8, <2>1, <2>2 DEF PromoteRead
<1>9. CASE PromoteWrite(r)
  <2>1. AtRest("done") \in RunStates  BY AtRestType DEF PCs
  <2>2. Present(run[r].es) \in SUBSET Ids  BY DEF Present
  <2>3. rows' \in Tables  BY <1>9, <2>2, TableTypes DEF PromoteWrite
  <2>4. QED BY <1>9, <2>1, <2>3 DEF PromoteWrite
<1>10. CASE Kill(r)
  <2>1. AtRest("killed") \in RunStates  BY AtRestType DEF PCs
  <2>2. QED BY <1>10, <2>1 DEF Kill
<1>11. QED BY <1>1, <1>2, <1>3, <1>4, <1>5, <1>6, <1>7, <1>8, <1>9, <1>10 DEF RunStep

LEMMA PanelStepType ==
    ASSUME TypeOK, HumanRead \/ HumanWrite \/ RetireHuman
    PROVE  TypeOK'
<1> USE DEF TypeOK
<1>1. CASE HumanRead
  <2>1. PICK D \in SUBSET Ids, fp \in [Ids -> Fps], txt \in [Ids -> Txts],
             override \in BOOLEAN :
          panel' = [es |-> [i \in Ids |->
                              IF i \in {j \in D : override \/ ~RemoteGuarded(rows[j])}
                              THEN HumanRow(fp[i], txt[i]) ELSE NoRow],
                    override |-> override]
    BY <1>1 DEF HumanRead
  <2>2. \A i \in Ids : HumanRow(fp[i], txt[i]) \in Rows
    BY ShapeTypes
  <2>3. panel' \in Calls
    BY <2>1, <2>2 DEF Calls, Tables
  <2>4. QED BY <1>1, <2>3 DEF HumanRead
<1>2. CASE HumanWrite
  <2>1. panel.es \in Tables
    BY <1>2 DEF HumanWrite, Calls
  <2>2. Upserted(rows, panel.es) \in Tables
    BY <2>1, TableTypes
  <2>3. Archived(rows, hist, ReplacedFormal(rows, panel.es)) \in Histories
    <3>1. \A i \in ReplacedFormal(rows, panel.es) : rows[i] # NoRow
      BY DEF ReplacedFormal
    <3>2. ReplacedFormal(rows, panel.es) \in SUBSET Ids
      BY DEF ReplacedFormal
    <3>3. QED BY <3>1, <3>2, ArchiveType
  <2>4. QED BY <1>2, <2>2, <2>3 DEF HumanWrite
<1>3. CASE RetireHuman
  <2>1. PICK D \in SUBSET Ids :
          /\ rows' = Deleted(rows, D)
          /\ hist' = [i \in Ids |-> [f \in Fps |->
                        IF i \in D /\ rows[i].fp = f THEN NoRow ELSE hist[i][f]]]
    BY <1>3 DEF RetireHuman, Present
  <2>2. rows' \in Tables
    BY <2>1, TableTypes
  <2>3. hist' \in Histories
    BY <2>1 DEF Histories
  <2>4. QED BY <1>3, <2>2, <2>3 DEF RetireHuman
<1>4. QED BY <1>1, <1>2, <1>3

LEMMA RetireStepType ==
    ASSUME TypeOK, Preflight \/ RetireStale
    PROVE  TypeOK'
<1> USE DEF TypeOK
<1>1. CASE Preflight
  <2>1. PICK src \in [Ids -> Fps] :
          approval' = [src |-> src, ids |-> StaleFormal(rows, hist, src, Ids),
                       rows |-> Restricted(rows, StaleFormal(rows, hist, src, Ids))]
    BY <1>1 DEF Preflight
  <2>2. StaleFormal(rows, hist, src, Ids) \in SUBSET Ids
    BY DEF StaleFormal
  <2>3. Restricted(rows, StaleFormal(rows, hist, src, Ids)) \in Tables
    BY <2>2, TableTypes
  <2>4. QED BY <1>1, <2>1, <2>2, <2>3 DEF Preflight, Approvals
<1>2. CASE RetireStale
  <2>1. approval.ids \in SUBSET Ids
    BY <1>2 DEF RetireStale, Approvals
  <2>2. ApprovalHolds => \A i \in approval.ids : rows[i] # NoRow
    BY DEF ApprovalHolds, StaleFormal
  <2>3. ApprovalHolds => Archived(rows, hist, approval.ids) \in Histories
    BY <2>1, <2>2, ArchiveType
  <2>4. Deleted(rows, approval.ids) \in Tables
    BY <2>1, TableTypes
  <2>5. QED BY <1>2, <2>3, <2>4 DEF RetireStale
<1>3. QED BY <1>1, <1>2

LEMMA SyncStepType ==
    ASSUME TypeOK, ReplaceShadow \/ RestoreProtected
    PROVE  TypeOK'
<1> USE DEF TypeOK
<1>1. CASE ReplaceShadow
  <2>1. PICK D \in SUBSET Ids, fp \in [Ids -> Fps], txt \in [Ids -> Txts],
             clean \in [Ids -> LegacyImports] :
          rows' = ShadowReplaced(rows, [i \in Ids |->
                     IF i \in D THEN LegacyRow(fp[i], txt[i], clean[i]) ELSE NoRow])
    BY <1>1 DEF ReplaceShadow
  <2>2. \A i \in Ids : LegacyRow(fp[i], txt[i], clean[i]) \in Rows
    BY ShapeTypes, ModeIsBoolean
  <2>3. [i \in Ids |-> IF i \in D THEN LegacyRow(fp[i], txt[i], clean[i]) ELSE NoRow]
          \in Tables
    BY <2>2 DEF Tables
  <2>4. rows' \in Tables
    BY <2>1, <2>3, TableTypes
  <2>5. QED BY <1>1, <2>4 DEF ReplaceShadow
<1>2. CASE RestoreProtected
  <2>1. PICK D \in SUBSET Ids, fp \in [Ids -> Fps], txt \in [Ids -> Txts],
             kind \in [Ids -> SidecarImports] :
          LET es == [i \in Ids |->
                       IF i \in D THEN SidecarRow(kind[i], fp[i], txt[i]) ELSE NoRow] IN
          /\ rows' = Upserted(rows, es)
          /\ hist' = Archived(rows, hist, ReplacedFormal(rows, es))
    BY <1>2 DEF RestoreProtected
  <2> DEFINE es == [i \in Ids |->
                       IF i \in D THEN SidecarRow(kind[i], fp[i], txt[i]) ELSE NoRow]
  <2>2. \A i \in Ids : SidecarRow(kind[i], fp[i], txt[i]) \in Rows
    BY SidecarType
  <2>3. es \in Tables
    BY <2>2 DEF Tables
  <2>4. ReplacedFormal(rows, es) \in SUBSET Ids
        /\ \A i \in ReplacedFormal(rows, es) : rows[i] # NoRow
    BY DEF ReplacedFormal
  <2>5. rows' = Upserted(rows, es) /\ hist' = Archived(rows, hist, ReplacedFormal(rows, es))
    BY <2>1
  <2> HIDE DEF es
  <2>6. rows' \in Tables /\ hist' \in Histories
    BY <2>3, <2>4, <2>5, TableTypes, ArchiveType
  <2>7. QED BY <1>2, <2>6 DEF RestoreProtected
<1>3. QED BY <1>1, <1>2

LEMMA NextType == TypeOK /\ [Next]_vars => TypeOK'
<1> SUFFICES ASSUME TypeOK, [Next]_vars PROVE TypeOK'
  OBVIOUS
<1>1. ASSUME NEW r \in Runs, RunStep(r) PROVE TypeOK'
  BY <1>1, RunStepType
<1>2. CASE HumanRead \/ HumanWrite \/ RetireHuman
  BY <1>2, PanelStepType
<1>3. CASE Preflight \/ RetireStale
  BY <1>3, RetireStepType
<1>4. CASE ReplaceShadow \/ RestoreProtected
  BY <1>4, SyncStepType
<1>5. CASE UNCHANGED vars
  BY <1>5 DEF vars, TypeOK
<1>6. QED BY <1>1, <1>2, <1>3, <1>4, <1>5 DEF Next

\* Every reachable state is well typed.
THEOREM TypeCorrect == Spec => []TypeOK
<1>1. Init => TypeOK               BY InitType
<1>2. TypeOK /\ [Next]_vars => TypeOK'  BY NextType
<1>3. QED BY <1>1, <1>2, PTL DEF Spec

------------------------------------------------------------------------------
(* The quality of what is formal.  Promotion's UPDATE does not look at       *)
(* quality_state again, so the argument needs to know that a row carrying a  *)
(* run_id has passed, whoever wrote it and whenever; and that what a run or  *)
(* the panel is about to write has the shape its writer gives it.            *)

RunRowsPassed ==
    \A i \in Ids : rows[i] # NoRow /\ rows[i].run # NoRun => rows[i].quality = "passed"

StagedShape ==
    \A r \in Runs, i \in Ids : run[r].es[i] # NoRow =>
        /\ run[r].es[i].origin = "machine"
        /\ run[r].es[i].quality = "passed"
        /\ ~run[r].es[i].formal

PanelShape ==
    panel # Nothing => \A i \in Ids : panel.es[i] # NoRow =>
        /\ panel.es[i].origin = "human"
        /\ panel.es[i].quality = "passed"
        /\ panel.es[i].formal
        /\ panel.es[i].human

LegacyNotHuman ==
    \A i \in Ids : rows[i] # NoRow /\ rows[i].origin = "legacy" => ~rows[i].human

Inductive ==
    /\ TypeOK /\ HistoryExact /\ FormalPassed
    /\ RunRowsPassed /\ StagedShape /\ PanelShape /\ LegacyNotHuman

\* Archiving rows that are formal and passed keeps the history exact and passed.
LEMMA ArchiveKeeps ==
    ASSUME TypeOK, HistoryExact, FormalPassed, NEW D \in SUBSET Ids,
           \A i \in D : rows[i] # NoRow /\ rows[i].formal,
           hist' = Archived(rows, hist, D)
    PROVE  \A i \in Ids, f \in Fps : hist'[i][f] # NoRow =>
               hist'[i][f].fp = f /\ hist'[i][f].formal /\ hist'[i][f].quality = "passed"
BY DEF HistoryExact, FormalPassed, Archived, TypeOK

\* An upsert of entries that are passed wherever they are formal or carry a run.
LEMMA UpsertKeeps ==
    ASSUME TypeOK, FormalPassed, RunRowsPassed, NEW es \in Tables,
           \A i \in Ids : es[i] # NoRow /\ (es[i].formal \/ es[i].run # NoRun)
                          => es[i].quality = "passed",
           rows' = Upserted(rows, es)
    PROVE  \A i \in Ids : rows'[i] # NoRow /\ (rows'[i].formal \/ rows'[i].run # NoRun)
                          => rows'[i].quality = "passed"
BY DEF FormalPassed, RunRowsPassed, Upserted, TypeOK

LEMMA InitInductive == Init => Inductive
<1> SUFFICES ASSUME Init PROVE Inductive
  OBVIOUS
<1>1. HistoryExact /\ FormalPassed /\ RunRowsPassed /\ LegacyNotHuman
  BY DEF Init, HistoryExact, FormalPassed, RunRowsPassed, LegacyNotHuman, Empty
<1>2. StagedShape /\ PanelShape
  BY DEF Init, AtRest, Empty, StagedShape, PanelShape
<1>3. QED BY <1>1, <1>2, InitType DEF Inductive

\* A run leaves the other runs' batches alone, and its own batch is unchanged,
\* fresh machine rows, or gone.
LEMMA RunKeepsShapes ==
    ASSUME Inductive, TypeOK', NEW r \in Runs, RunStep(r)
    PROVE  StagedShape' /\ PanelShape'
<1> USE DEF Inductive, TypeOK
<1>1. run[r] \in RunStates /\ run'[r] \in RunStates
  OBVIOUS
<1>2. PanelShape'
  BY DEF RunStep, Plan, StageRead, Kill, StageWrite, StageReport, StopAtGate, Validate,
         BuildArtifact, PromoteRead, PromoteWrite, PanelShape
<1>3. \A q \in Runs : q # r => run'[q] = run[q]
  BY DEF RunStep, Plan, StageRead, Kill, StageWrite, StageReport, StopAtGate, Validate,
         BuildArtifact, PromoteRead, PromoteWrite
<1>4. \A i \in Ids : run'[r].es[i] # NoRow =>
        /\ run'[r].es[i].origin = "machine"
        /\ run'[r].es[i].quality = "passed"
        /\ ~run'[r].es[i].formal
  <2>1. CASE StageRead(r)
    <3>1. PICK D \in SUBSET run[r].pending, txt \in [Ids -> Txts] :
            run' = [run EXCEPT
                ![r].pc = "writing",
                ![r].es = [i \in Ids |->
                    IF i \in D THEN MachineRow(run[r].src[i], txt[i], r) ELSE NoRow],
                ![r].before = Restricted(rows, D)]
      BY <2>1 DEF StageRead
    <3>2. run'[r].es = [i \in Ids |->
            IF i \in D THEN MachineRow(run[r].src[i], txt[i], r) ELSE NoRow]
      BY <1>1, <3>1 DEF RunStates
    <3>3. QED BY <3>2 DEF MachineRow
  <2>2. CASE ~StageRead(r)
    <3>1. run'[r].es = run[r].es \/ run'[r].es = Empty
      <4>1. CASE Plan(r)           BY <1>1, <4>1 DEF Plan, RunStates
      <4>2. CASE StageWrite(r)     BY <1>1, <4>2 DEF StageWrite, RunStates
      <4>3. CASE StageReport(r)    BY <1>1, <4>3 DEF StageReport, RunStates, AtRest
      <4>4. CASE StopAtGate(r)     BY <1>1, <4>4 DEF StopAtGate, RunStates, AtRest
      <4>5. CASE Validate(r)       BY <1>1, <4>5 DEF Validate, RunStates, AtRest
      <4>6. CASE BuildArtifact(r)  BY <1>1, <4>6 DEF BuildArtifact, RunStates
      <4>7. CASE PromoteRead(r)    BY <1>1, <4>7 DEF PromoteRead, RunStates, AtRest
      <4>8. CASE PromoteWrite(r)   BY <1>1, <4>8 DEF PromoteWrite, RunStates, AtRest
      <4>9. CASE Kill(r)           BY <1>1, <4>9 DEF Kill, RunStates, AtRest
      <4>10. QED BY <2>2, <4>1, <4>2, <4>3, <4>4, <4>5, <4>6, <4>7, <4>8, <4>9 DEF RunStep
    <3>2. QED BY <3>1 DEF StagedShape, Empty
  <2>3. QED BY <2>1, <2>2
<1>5. QED BY <1>2, <1>3, <1>4 DEF StagedShape

LEMMA RunKeepsRows ==
    ASSUME Inductive, NEW r \in Runs, RunStep(r)
    PROVE  HistoryExact' /\ FormalPassed' /\ RunRowsPassed'
<1> USE DEF Inductive
<1>1. CASE StageWrite(r)
  <2>1. run[r].es \in Tables
    BY DEF TypeOK, RunStates
  <2>2. \A i \in Ids : rows'[i] # NoRow /\ (rows'[i].formal \/ rows'[i].run # NoRun)
                          => rows'[i].quality = "passed"
    BY <1>1, <2>1, UpsertKeeps DEF StageWrite, StagedShape
  <2>3. ReplacedFormal(rows, run[r].es) \in SUBSET Ids
        /\ \A i \in ReplacedFormal(rows, run[r].es) : rows[i] # NoRow /\ rows[i].formal
    BY DEF ReplacedFormal
  <2>4. \A i \in Ids, f \in Fps : hist'[i][f] # NoRow =>
          hist'[i][f].fp = f /\ hist'[i][f].formal /\ hist'[i][f].quality = "passed"
    BY <1>1, <2>3, ArchiveKeeps DEF StageWrite
  <2>5. QED BY <2>2, <2>4 DEF HistoryExact, FormalPassed, RunRowsPassed
<1>2. CASE PromoteWrite(r)
  <2>1. hist' = hist /\ rows' = Promoted(rows, r, Present(run[r].es))
    BY <1>2 DEF PromoteWrite
  <2>2. \A i \in Ids : rows[i] # NoRow => rows[i] \in Rows
    BY DEF TypeOK, Tables
  <2>3. \A i \in Ids : rows'[i] # NoRow /\ (rows'[i].formal \/ rows'[i].run # NoRun)
                          => rows'[i].quality = "passed"
    BY <2>1, <2>2, NoRunIsNotARun DEF Promoted, FormalPassed, RunRowsPassed, Rows
  <2>4. QED BY <2>1, <2>3 DEF HistoryExact, FormalPassed, RunRowsPassed
<1>3. CASE ~StageWrite(r) /\ ~PromoteWrite(r)
  <2>1. UNCHANGED <<rows, hist>>
    BY <1>3 DEF RunStep, Plan, StageRead, Kill, StageReport, StopAtGate, Validate,
           BuildArtifact, PromoteRead
  <2>2. QED BY <2>1 DEF HistoryExact, FormalPassed, RunRowsPassed
<1>4. QED BY <1>1, <1>2, <1>3

LEMMA WritersKeep ==
    ASSUME Inductive, TypeOK',
           \/ HumanRead \/ HumanWrite \/ RetireHuman
           \/ Preflight \/ RetireStale
           \/ ReplaceShadow \/ RestoreProtected
    PROVE  HistoryExact' /\ FormalPassed' /\ RunRowsPassed' /\ StagedShape' /\ PanelShape'
<1> USE DEF Inductive
<1>1. StagedShape'
  BY DEF StagedShape, HumanRead, HumanWrite, RetireHuman, Preflight, RetireStale,
         ReplaceShadow, RestoreProtected
<1>2. PanelShape'
  <2>1. CASE HumanRead  BY <2>1 DEF HumanRead, HumanRow, PanelShape
  <2>2. CASE ~HumanRead
    BY <2>2 DEF PanelShape, HumanWrite, RetireHuman, Preflight, RetireStale,
           ReplaceShadow, RestoreProtected
  <2>3. QED BY <2>1, <2>2
<1>3. HistoryExact' /\ FormalPassed' /\ RunRowsPassed'
  <2>1. CASE HumanRead \/ Preflight
    BY <2>1 DEF HumanRead, Preflight, HistoryExact, FormalPassed, RunRowsPassed
  <2>2. CASE HumanWrite
    <3>1. panel.es \in Tables
      BY <2>2 DEF HumanWrite, TypeOK, Calls
    <3>2. ReplacedFormal(rows, panel.es) \in SUBSET Ids
          /\ \A i \in ReplacedFormal(rows, panel.es) : rows[i] # NoRow /\ rows[i].formal
      BY DEF ReplacedFormal
    <3>3. CASE UNCHANGED <<rows, hist>>
      BY <3>3 DEF HistoryExact, FormalPassed, RunRowsPassed
    <3>4. CASE /\ rows' = Upserted(rows, panel.es)
               /\ hist' = Archived(rows, hist, ReplacedFormal(rows, panel.es))
      <4>1. \A i \in Ids : rows'[i] # NoRow /\ (rows'[i].formal \/ rows'[i].run # NoRun)
                              => rows'[i].quality = "passed"
        BY <2>2, <3>1, <3>4, UpsertKeeps DEF HumanWrite, PanelShape
      <4>2. \A i \in Ids, f \in Fps : hist'[i][f] # NoRow =>
              hist'[i][f].fp = f /\ hist'[i][f].formal /\ hist'[i][f].quality = "passed"
        BY <3>2, <3>4, ArchiveKeeps
      <4>3. QED BY <4>1, <4>2 DEF HistoryExact, FormalPassed, RunRowsPassed
    <3>5. QED BY <2>2, <3>3, <3>4 DEF HumanWrite
  <2>3. CASE RetireHuman
    BY <2>3 DEF RetireHuman, Deleted, HistoryExact, FormalPassed, RunRowsPassed, TypeOK
  <2>4. CASE RetireStale
    <3>1. CASE UNCHANGED <<rows, hist>>
      BY <3>1 DEF HistoryExact, FormalPassed, RunRowsPassed
    <3>2. CASE /\ ApprovalHolds
               /\ rows' = Deleted(rows, approval.ids)
               /\ hist' = Archived(rows, hist, approval.ids)
      <4>1. approval.ids \in SUBSET Ids
            /\ \A i \in approval.ids : rows[i] # NoRow /\ rows[i].formal
        BY <2>4, <3>2 DEF RetireStale, ApprovalHolds, StaleFormal, TypeOK, Approvals
      <4>2. \A i \in Ids, f \in Fps : hist'[i][f] # NoRow =>
              hist'[i][f].fp = f /\ hist'[i][f].formal /\ hist'[i][f].quality = "passed"
        BY <3>2, <4>1, ArchiveKeeps
      <4>3. \A i \in Ids : rows'[i] = rows[i] \/ rows'[i] = NoRow
        BY <3>2 DEF Deleted
      <4>4. QED BY <4>2, <4>3 DEF HistoryExact, FormalPassed, RunRowsPassed
    <3>3. QED BY <2>4, <3>1, <3>2 DEF RetireStale
  <2>5. CASE ReplaceShadow
    <3>1. hist' = hist
      BY <2>5 DEF ReplaceShadow
    <3>2. \A i \in Ids : rows'[i] # NoRow /\ rows'[i] # rows[i] =>
            ~rows'[i].formal /\ rows'[i].run = NoRun
      BY <2>5 DEF ReplaceShadow, ShadowReplaced, LegacyRow
    <3>3. QED BY <3>1, <3>2 DEF HistoryExact, FormalPassed, RunRowsPassed
  <2>6. CASE RestoreProtected
    <3>1. PICK D \in SUBSET Ids, fp \in [Ids -> Fps], txt \in [Ids -> Txts],
               kind \in [Ids -> SidecarImports] :
            LET es == [i \in Ids |->
                         IF i \in D THEN SidecarRow(kind[i], fp[i], txt[i]) ELSE NoRow] IN
            /\ rows' = Upserted(rows, es)
            /\ hist' = Archived(rows, hist, ReplacedFormal(rows, es))
      BY <2>6 DEF RestoreProtected
    <3> DEFINE es == [i \in Ids |->
                         IF i \in D THEN SidecarRow(kind[i], fp[i], txt[i]) ELSE NoRow]
    <3>2. \A i \in Ids : /\ SidecarRow(kind[i], fp[i], txt[i]) \in Rows
                         /\ SidecarRow(kind[i], fp[i], txt[i]).run = NoRun
                         /\ SidecarRow(kind[i], fp[i], txt[i]).formal =>
                              SidecarRow(kind[i], fp[i], txt[i]).quality = "passed"
      BY SidecarType
    <3>3. es \in Tables /\ \A i \in Ids :
            es[i] # NoRow /\ (es[i].formal \/ es[i].run # NoRun) => es[i].quality = "passed"
      BY <3>2 DEF Tables
    <3>4. rows' = Upserted(rows, es) /\ hist' = Archived(rows, hist, ReplacedFormal(rows, es))
      BY <3>1
    <3>5. ReplacedFormal(rows, es) \in SUBSET Ids
          /\ \A i \in ReplacedFormal(rows, es) : rows[i] # NoRow /\ rows[i].formal
      BY DEF ReplacedFormal
    <3> HIDE DEF es
    <3>6. \A i \in Ids : rows'[i] # NoRow /\ (rows'[i].formal \/ rows'[i].run # NoRun)
                            => rows'[i].quality = "passed"
      BY <3>3, <3>4, UpsertKeeps
    <3>7. \A i \in Ids, f \in Fps : hist'[i][f] # NoRow =>
            hist'[i][f].fp = f /\ hist'[i][f].formal /\ hist'[i][f].quality = "passed"
      BY <3>4, <3>5, ArchiveKeeps
    <3>8. QED BY <3>6, <3>7 DEF HistoryExact, FormalPassed, RunRowsPassed
  <2>7. QED BY <2>1, <2>2, <2>3, <2>4, <2>5, <2>6
<1>4. QED BY <1>1, <1>2, <1>3

\* Legacy rows only come from the shadow import; everyone else writes other origins.
LEMMA StepKeepsLegacy ==
    ASSUME Inductive, Next
    PROVE  LegacyNotHuman'
<1> USE DEF Inductive
<1>1. ASSUME NEW r \in Runs, RunStep(r) PROVE LegacyNotHuman'
  <2>1. CASE StageWrite(r)
    BY <2>1 DEF StageWrite, Upserted, StagedShape, LegacyNotHuman
  <2>2. CASE PromoteWrite(r)
    <3>1. \A i \in Ids : rows[i] # NoRow => rows[i] \in Rows
      BY DEF TypeOK, Tables
    <3>2. QED BY <2>2, <3>1 DEF PromoteWrite, Promoted, Rows, LegacyNotHuman
  <2>3. CASE ~StageWrite(r) /\ ~PromoteWrite(r)
    BY <1>1, <2>3 DEF RunStep, Plan, StageRead, Kill, StageReport, StopAtGate, Validate,
           BuildArtifact, PromoteRead, LegacyNotHuman
  <2>4. QED BY <2>1, <2>2, <2>3
<1>2. CASE HumanRead \/ Preflight
  BY <1>2 DEF HumanRead, Preflight, LegacyNotHuman
<1>3. CASE HumanWrite
  BY <1>3 DEF HumanWrite, Upserted, PanelShape, LegacyNotHuman
<1>4. CASE RetireHuman
  BY <1>4 DEF RetireHuman, Deleted, LegacyNotHuman
<1>5. CASE RetireStale
  BY <1>5 DEF RetireStale, Deleted, LegacyNotHuman
<1>6. CASE ReplaceShadow
  BY <1>6 DEF ReplaceShadow, ShadowReplaced, LegacyRow, LegacyNotHuman
<1>7. CASE RestoreProtected
  <2>1. \A k \in SidecarImports, f \in Fps, t \in Txts :
          SidecarRow(k, f, t).origin # "legacy"
    BY SidecarType
  <2>2. QED BY <1>7, <2>1 DEF RestoreProtected, Upserted, LegacyNotHuman
<1>8. QED BY <1>1, <1>2, <1>3, <1>4, <1>5, <1>6, <1>7 DEF Next

LEMMA NextInductive == Inductive /\ [Next]_vars => Inductive'
<1> SUFFICES ASSUME Inductive, [Next]_vars PROVE Inductive'
  OBVIOUS
<1>1. TypeOK'
  BY NextType DEF Inductive
<1>2. ASSUME NEW r \in Runs, RunStep(r) PROVE Inductive'
  BY <1>1, <1>2, RunKeepsShapes, RunKeepsRows, StepKeepsLegacy DEF Inductive, Next
<1>3. CASE \/ HumanRead \/ HumanWrite \/ RetireHuman
           \/ Preflight \/ RetireStale
           \/ ReplaceShadow \/ RestoreProtected
  BY <1>1, <1>3, WritersKeep, StepKeepsLegacy DEF Inductive, Next
<1>4. CASE UNCHANGED vars
  BY <1>1, <1>4 DEF vars, Inductive, HistoryExact, FormalPassed, RunRowsPassed,
         StagedShape, PanelShape, LegacyNotHuman
<1>5. QED BY <1>2, <1>3, <1>4 DEF Next

\* The source history only ever holds what was formal at exactly that source, and
\* nothing is formal that did not pass the quality checks.
THEOREM HistoryAndFormal == Spec => [](HistoryExact /\ FormalPassed)
<1>1. Init => Inductive                        BY InitInductive
<1>2. Inductive /\ [Next]_vars => Inductive'   BY NextInductive
<1>3. Inductive => HistoryExact /\ FormalPassed  BY DEF Inductive
<1>4. QED BY <1>1, <1>2, <1>3, PTL DEF Spec

------------------------------------------------------------------------------
(* What one step may never do.                                              *)

LEMMA UpsertKeepsHuman ==
    ASSUME TypeOK, NEW es \in Tables,
           \A i \in Ids : es[i] # NoRow => es[i].human \/ es[i].origin = "machine",
           rows' = Upserted(rows, es), NEW i \in Ids,
           rows[i] # NoRow, rows[i].human, rows'[i] # NoRow
    PROVE  rows'[i].human
BY DEF Upserted, Admitted, Gate, TypeOK, Tables, Rows

\* The guarded upsert never loses what was formal at some source.
LEMMA UpsertKeepsFormal ==
    ASSUME TypeOK, NEW es \in Tables,
           rows' = Upserted(rows, es),
           hist' = Archived(rows, hist, ReplacedFormal(rows, es)),
           NEW i \in Ids, NEW f \in Fps, FormalAt(i, f)
    PROVE  FormalAt(i, f)'
<1>1. ReplacedFormal(rows, es) \in SUBSET Ids
  BY DEF ReplacedFormal
<1>2. hist'[i][f] = IF i \in ReplacedFormal(rows, es) /\ rows[i].fp = f
                    THEN rows[i] ELSE hist[i][f]
  BY DEF Archived
<1>3. rows'[i] = IF es[i] # NoRow /\ Admitted(rows, i, es[i]) THEN es[i] ELSE rows[i]
  BY DEF Upserted
<1>4. CASE hist[i][f] # NoRow
  BY <1>2, <1>4 DEF FormalAt, ReplacedFormal
<1>5. CASE rows[i] # NoRow /\ rows[i].formal /\ rows[i].fp = f
  BY <1>2, <1>3, <1>5 DEF FormalAt, ReplacedFormal, Admitted, Gate
<1>6. QED BY <1>4, <1>5 DEF FormalAt

LEMMA StepKeepsHuman ==
    ASSUME Inductive, Next, NEW i \in Ids,
           rows[i] # NoRow, rows[i].human, rows'[i] # NoRow
    PROVE  rows'[i].human
<1> USE DEF Inductive
<1>1. ASSUME NEW r \in Runs, RunStep(r) PROVE rows'[i].human
  <2>1. CASE StageWrite(r)
    <3>1. run[r].es \in Tables
      BY DEF TypeOK, RunStates
    <3>2. QED BY <2>1, <3>1, UpsertKeepsHuman DEF StageWrite, StagedShape
  <2>2. CASE PromoteWrite(r)
    <3>1. rows[i] \in Rows
      BY DEF TypeOK, Tables
    <3>2. QED BY <2>2, <3>1 DEF PromoteWrite, Promoted, Rows
  <2>3. CASE ~StageWrite(r) /\ ~PromoteWrite(r)
    BY <1>1, <2>3 DEF RunStep, Plan, StageRead, Kill, StageReport, StopAtGate, Validate,
           BuildArtifact, PromoteRead
  <2>4. QED BY <2>1, <2>2, <2>3
<1>2. CASE HumanRead \/ Preflight
  BY <1>2 DEF HumanRead, Preflight
<1>3. CASE HumanWrite
  <2>1. panel.es \in Tables
    BY <1>3 DEF HumanWrite, TypeOK, Calls
  <2>2. CASE rows' = Upserted(rows, panel.es)
    BY <1>3, <2>1, <2>2, UpsertKeepsHuman DEF HumanWrite, PanelShape
  <2>3. QED BY <1>3, <2>2 DEF HumanWrite
<1>4. CASE RetireHuman
  BY <1>4 DEF RetireHuman, Deleted
<1>5. CASE RetireStale
  BY <1>5 DEF RetireStale, Deleted
<1>6. CASE ReplaceShadow
  BY <1>6 DEF ReplaceShadow, ShadowReplaced, IsShadow, LegacyNotHuman
<1>7. CASE RestoreProtected
  <2>1. PICK D \in SUBSET Ids, fp \in [Ids -> Fps], txt \in [Ids -> Txts],
             kind \in [Ids -> SidecarImports] :
          rows' = Upserted(rows, [j \in Ids |->
                     IF j \in D THEN SidecarRow(kind[j], fp[j], txt[j]) ELSE NoRow])
    BY <1>7 DEF RestoreProtected
  <2> DEFINE es == [j \in Ids |->
                     IF j \in D THEN SidecarRow(kind[j], fp[j], txt[j]) ELSE NoRow]
  <2>2. es \in Tables /\ \A j \in Ids : es[j] # NoRow => es[j].human \/ es[j].origin = "machine"
    BY SidecarType DEF Tables
  <2>3. rows' = Upserted(rows, es)
    BY <2>1
  <2> HIDE DEF es
  <2>4. QED BY <2>2, <2>3, UpsertKeepsHuman
<1>8. QED BY <1>1, <1>2, <1>3, <1>4, <1>5, <1>6, <1>7 DEF Next

LEMMA StepKeepsFormal ==
    ASSUME Inductive, Next, NEW i \in Ids, NEW f \in Fps, FormalAt(i, f)
    PROVE  FormalAt(i, f)' \/ HumanRetired(i, f)
<1> USE DEF Inductive
<1>1. ASSUME NEW r \in Runs, RunStep(r) PROVE FormalAt(i, f)'
  <2>1. CASE StageWrite(r)
    <3>1. run[r].es \in Tables
      BY DEF TypeOK, RunStates
    <3>2. QED BY <2>1, <3>1, UpsertKeepsFormal DEF StageWrite
  <2>2. CASE PromoteWrite(r)
    <3>1. rows[i] # NoRow => rows[i] \in Rows
      BY DEF TypeOK, Tables
    <3>2. QED BY <2>2, <3>1, NoRowIsNotARow DEF PromoteWrite, Promoted, Rows, FormalAt
  <2>3. CASE ~StageWrite(r) /\ ~PromoteWrite(r)
    BY <1>1, <2>3 DEF RunStep, Plan, StageRead, Kill, StageReport, StopAtGate, Validate,
           BuildArtifact, PromoteRead, FormalAt
  <2>4. QED BY <2>1, <2>2, <2>3
<1>2. CASE HumanRead \/ Preflight
  BY <1>2 DEF HumanRead, Preflight, FormalAt
<1>3. CASE HumanWrite
  <2>1. panel.es \in Tables
    BY <1>3 DEF HumanWrite, TypeOK, Calls
  <2>2. CASE UNCHANGED <<rows, hist>>
    BY <2>2 DEF FormalAt
  <2>3. CASE /\ rows' = Upserted(rows, panel.es)
             /\ hist' = Archived(rows, hist, ReplacedFormal(rows, panel.es))
    BY <2>1, <2>3, UpsertKeepsFormal
  <2>4. QED BY <1>3, <2>2, <2>3 DEF HumanWrite
<1>4. CASE RetireHuman
  BY <1>4 DEF RetireHuman, Deleted, Present, FormalAt, HumanRetired
<1>5. CASE RetireStale
  BY <1>5 DEF RetireStale, Deleted, Archived, ApprovalHolds, StaleFormal, FormalAt
<1>6. CASE ReplaceShadow
  BY <1>6 DEF ReplaceShadow, ShadowReplaced, IsShadow, FormalAt
<1>7. CASE RestoreProtected
  <2>1. PICK D \in SUBSET Ids, fp \in [Ids -> Fps], txt \in [Ids -> Txts],
             kind \in [Ids -> SidecarImports] :
          LET es == [j \in Ids |->
                       IF j \in D THEN SidecarRow(kind[j], fp[j], txt[j]) ELSE NoRow] IN
          /\ rows' = Upserted(rows, es)
          /\ hist' = Archived(rows, hist, ReplacedFormal(rows, es))
    BY <1>7 DEF RestoreProtected
  <2> DEFINE es == [j \in Ids |->
                       IF j \in D THEN SidecarRow(kind[j], fp[j], txt[j]) ELSE NoRow]
  <2>2. es \in Tables
    BY SidecarType DEF Tables
  <2>3. rows' = Upserted(rows, es) /\ hist' = Archived(rows, hist, ReplacedFormal(rows, es))
    BY <2>1
  <2> HIDE DEF es
  <2>4. QED BY <2>2, <2>3, UpsertKeepsFormal
<1>8. QED BY <1>1, <1>2, <1>3, <1>4, <1>5, <1>6, <1>7 DEF Next

\* No step puts a machine or legacy row where a person's row is, under any
\* interleaving of runs, panel, imports and retirements.
THEOREM HumanIsKept == Spec => HumanKept
<1>1. Inductive /\ [Next]_vars =>
        [\A i \in Ids : rows[i] # NoRow /\ rows[i].human /\ rows'[i] # NoRow
           => rows'[i].human]_vars
  BY StepKeepsHuman
<1>2. QED BY <1>1, InitInductive, NextInductive, PTL DEF Spec, HumanKept

\* What was formal for a source stays reachable for that source until a person
\* retires it.
THEOREM FormalIsKept == Spec => FormalKept
<1>1. Inductive /\ [Next]_vars =>
        [\A i \in Ids, f \in Fps :
           FormalAt(i, f) => FormalAt(i, f)' \/ HumanRetired(i, f)]_vars
  BY StepKeepsFormal
<1>2. QED BY <1>1, InitInductive, NextInductive, PTL DEF Spec, FormalKept

------------------------------------------------------------------------------
(* What one dashboard gives: a run, or a human write, has the memory to      *)
(* itself from its first read to its last write.                             *)

SoleTask ==
    /\ \A r, q \in Runs : Active(r) /\ Active(q) => r = q
    /\ panel # Nothing => \A r \in Runs : ~Active(r)

\* What a run has read and staged is what the memory holds: no row carries the
\* run before it writes, the rows it read have not moved, what the upsert refused
\* is as it was, and what it wrote is there until it is promoted.
Staging(r) ==
    LET s == run[r] IN
    /\ s.pc \notin {"writing", "written", "staged", "validated", "built", "promoting"}
           => s.es = Empty
    /\ \A i \in Present(s.es) : s.es[i] = MachineRow(s.src[i], s.es[i].txt, r)
    /\ s.pc \in {"idle", "planned", "writing"} => \A i \in Present(rows) : rows[i].run # r
    /\ s.pc = "writing" => \A i \in Present(s.es) : s.before[i] = rows[i]
    /\ s.pc = "written" => \A i \in Present(s.es) :
           \/ i \notin s.refused /\ rows[i] = s.es[i]
           \/ rows[i] # NoRow /\ rows[i] = s.before[i] /\ rows[i].run # r
    /\ s.pc = "written" => s.refused \subseteq Present(s.es)
    /\ s.pc \in {"staged", "validated", "built", "promoting"} =>
           s.refused = {} /\ \A i \in Present(s.es) : rows[i] = s.es[i]

\* The guard of a human write still holds for the rows it is about to replace.
PanelGuard ==
    panel # Nothing => \A i \in Present(panel.es) :
        panel.es[i].run = NoRun /\ (panel.override \/ ~RemoteGuarded(rows[i]))

Disciplined == SoleTask /\ (\A r \in Runs : Staging(r)) /\ PanelGuard

\* Where no run is active, a run only asks that no row begins to carry it.
LEMMA RestingStaging ==
    ASSUME NEW r \in Runs, Staging(r), ~Active(r), run'[r] = run[r],
           \A i \in Present(rows') : \/ rows'[i].run # r
                                     \/ i \in Present(rows) /\ rows'[i].run = rows[i].run
    PROVE  Staging(r)'
BY DEF Staging, Active

LEMMA EmptyHasNone == Present(Empty) = {}
BY DEF Present, Empty

LEMMA AtRestFields ==
    ASSUME NEW pc
    PROVE  /\ AtRest(pc).pc = pc /\ AtRest(pc).es = Empty /\ AtRest(pc).refused = {}
BY DEF AtRest

\* A run that is over holds nothing.
LEMMA OverStaging ==
    ASSUME NEW r \in Runs, NEW pc \in {"done", "halted", "failed", "stopped", "killed"},
           run'[r] = AtRest(pc)
    PROVE  Staging(r)' /\ ~Active(r)'
<1>1. run'[r].pc = pc /\ run'[r].es = Empty /\ Present(Empty) = {}
  BY AtRestFields, EmptyHasNone
<1>2. QED
  BY <1>1 DEF Staging, Active

LEMMA MachineFields ==
    ASSUME NEW f, NEW t, NEW r
    PROVE  /\ MachineRow(f, t, r).fp = f /\ MachineRow(f, t, r).txt = t
           /\ MachineRow(f, t, r).run = r /\ MachineRow(f, t, r).origin = "machine"
           /\ MachineRow(f, t, r).quality = "passed" /\ MachineRow(f, t, r).review = "unreviewed"
           /\ ~MachineRow(f, t, r).formal /\ ~MachineRow(f, t, r).human
BY DEF MachineRow

LEMMA PlanStages ==
    ASSUME SingleProcess, Inductive, Disciplined, NEW r \in Runs, Plan(r)
    PROVE  Staging(r)' /\ (\A q \in Runs : ~Active(q)) /\ panel = Nothing /\ UNCHANGED <<rows, panel>>
<1>1. PICK src \in [Ids -> Fps], pending \in SUBSET Ids :
          run' = [run EXCEPT ![r].pc = "planned", ![r].src = src, ![r].pending = pending]
  BY DEF Plan
<1>2. run[r] \in RunStates /\ run[r].pc = "idle"
  BY DEF Plan, Inductive, TypeOK
<1>3. run'[r].pc = "planned" /\ run'[r].es = run[r].es
  BY <1>1, <1>2 DEF Inductive, TypeOK, RunStates
<1>4. Staging(r) /\ run[r].es = Empty
  BY <1>2 DEF Disciplined, Staging
<1>5. UNCHANGED <<rows, panel>> /\ panel = Nothing /\ \A q \in Runs : ~Active(q)
  BY DEF Plan, Quiet
<1>6. Staging(r)'
  BY <1>2, <1>3, <1>4, <1>5, EmptyHasNone DEF Staging
<1>7. QED
  BY <1>5, <1>6

LEMMA StageReadStages ==
    ASSUME Inductive, Disciplined, NEW r \in Runs, StageRead(r)
    PROVE  Staging(r)' /\ UNCHANGED <<rows, panel>> /\ Active(r)
<1>1. PICK D \in SUBSET run[r].pending, txt \in [Ids -> Txts] :
          run' = [run EXCEPT
              ![r].pc = "writing",
              ![r].es = [i \in Ids |->
                  IF i \in D THEN MachineRow(run[r].src[i], txt[i], r) ELSE NoRow],
              ![r].before = Restricted(rows, D)]
  BY DEF StageRead
<1> DEFINE es == [i \in Ids |-> IF i \in D THEN MachineRow(run[r].src[i], txt[i], r) ELSE NoRow]
<1>2. run[r] \in RunStates /\ run[r].pc = "planned" /\ run \in [Runs -> RunStates]
  BY DEF StageRead, Inductive, TypeOK
<1>3. run'[r] = [run[r] EXCEPT !.pc = "writing", !.es = es, !.before = Restricted(rows, D)]
  BY <1>1, <1>2
<1>4. \A i \in D : es[i] = MachineRow(run[r].src[i], es[i].txt, r) /\ i \in Ids
  BY <1>2, MachineFields DEF RunStates
<1>5. \A i \in Ids : es[i] # NoRow => i \in D
  OBVIOUS
<1> HIDE DEF es
<1>6. run'[r].pc = "writing" /\ run'[r].es = es /\ run'[r].src = run[r].src
      /\ run'[r].before = Restricted(rows, D)
  BY <1>2, <1>3 DEF RunStates
<1>7. \A i \in Present(es) : /\ i \in D
                             /\ es[i] = MachineRow(run[r].src[i], es[i].txt, r)
                             /\ Restricted(rows, D)[i] = rows[i]
  BY <1>4, <1>5 DEF Present, Restricted
<1>8. rows' = rows /\ panel' = panel /\ Active(r)
  BY <1>2 DEF StageRead, Active
<1>9. \A i \in Present(rows) : rows[i].run # r
  BY <1>2 DEF Disciplined, Staging
<1>10. Staging(r)'
  BY <1>6, <1>7, <1>8, <1>9 DEF Staging
<1>11. QED
  BY <1>8, <1>10

LEMMA StageWriteStages ==
    ASSUME Inductive, Disciplined, NEW r \in Runs, StageWrite(r)
    PROVE  /\ Staging(r)' /\ panel' = panel /\ Active(r)
           /\ \A i \in Present(rows') : rows'[i].run = r \/ (i \in Present(rows) /\ rows'[i] = rows[i])
<1> DEFINE es == run[r].es
           refused == {i \in Present(es) : ~Admitted(rows, i, es[i])}
<1>1. run[r] \in RunStates /\ run[r].pc = "writing" /\ run \in [Runs -> RunStates]
      /\ rows \in Tables
  BY DEF StageWrite, Inductive, TypeOK
<1>2. run'[r] = [run[r] EXCEPT !.pc = "written", !.refused = refused]
  BY <1>1 DEF StageWrite
<1>3. run'[r].pc = "written" /\ run'[r].refused = refused /\ run'[r].es = es
      /\ run'[r].src = run[r].src /\ run'[r].before = run[r].before
  BY <1>1, <1>2 DEF RunStates
<1>4. Staging(r)
  BY DEF Disciplined
<1>5. /\ \A i \in Present(es) : es[i] = MachineRow(run[r].src[i], es[i].txt, r)
                                /\ run[r].before[i] = rows[i]
      /\ \A i \in Present(rows) : rows[i].run # r
  BY <1>1, <1>4 DEF Staging
<1>6. rows' = Upserted(rows, es) /\ panel' = panel
  BY DEF StageWrite
<1>7. \A i \in Ids : rows'[i] = IF es[i] # NoRow /\ Admitted(rows, i, es[i]) THEN es[i] ELSE rows[i]
  BY <1>6 DEF Upserted
<1>8. \A i \in Present(es) : \/ i \notin refused /\ rows'[i] = es[i]
                             \/ rows'[i] # NoRow /\ rows'[i] = run[r].before[i] /\ rows'[i].run # r
  BY <1>5, <1>7 DEF Present, Admitted
<1>9. refused \subseteq Present(es)
  OBVIOUS
<1>10. \A i \in Present(es) : es[i].run = r
  BY <1>5, MachineFields
<1>11. \A i \in Present(rows') : rows'[i].run = r \/ (i \in Present(rows) /\ rows'[i] = rows[i])
  BY <1>7, <1>10 DEF Present
<1> HIDE DEF refused, es
<1>12. Staging(r)'
  BY <1>3, <1>5, <1>8, <1>9 DEF Staging
<1>13. Active(r)
  BY <1>1 DEF Active
<1>14. QED
  BY <1>6, <1>11, <1>12, <1>13

\* What the guarded upsert refused is among what upsert_many reports.
LEMMA ReportComplete ==
    ASSUME Inductive, Disciplined, NEW r \in Runs, run[r].pc = "written", Rejected(r) = {}
    PROVE  run[r].refused = {} /\ \A i \in Present(run[r].es) : rows[i] = run[r].es[i]
<1>1. \A i \in Present(run[r].es) :
          \/ i \notin run[r].refused /\ rows[i] = run[r].es[i]
          \/ rows[i] # NoRow /\ rows[i] = run[r].before[i] /\ rows[i].run # r
  BY DEF Disciplined, Staging
<1>2. \A i \in Present(run[r].es) : run[r].es[i].run = r
  BY MachineFields DEF Disciplined, Staging
<1>3. \A i \in Present(run[r].es) : i \notin run[r].refused /\ rows[i] = run[r].es[i]
  BY <1>1, <1>2 DEF Rejected
<1>4. run[r].refused \subseteq Present(run[r].es)
  BY DEF Disciplined, Staging
<1>5. QED
  BY <1>3, <1>4

LEMMA StageReportStages ==
    ASSUME Inductive, Disciplined, NEW r \in Runs, StageReport(r)
    PROVE  Staging(r)' /\ Active(r) /\ UNCHANGED <<rows, panel>>
<1>1. run[r] \in RunStates /\ run[r].pc = "written" /\ run \in [Runs -> RunStates]
  BY DEF StageReport, Inductive, TypeOK
<1>2. Active(r) /\ UNCHANGED <<rows, panel>>
  BY <1>1 DEF Active, StageReport
<1>3. CASE Rejected(r) # {}
  <2>1. run'[r] = AtRest("failed")
    BY <1>1, <1>3 DEF StageReport
  <2>2. QED
    BY <1>2, <2>1, OverStaging
<1>4. CASE Rejected(r) = {}
  <2>1. run'[r] = [run[r] EXCEPT !.pc = "staged", !.before = Empty]
    BY <1>1, <1>4 DEF StageReport
  <2>2. run'[r].pc = "staged" /\ run'[r].refused = run[r].refused /\ run'[r].es = run[r].es
        /\ run'[r].src = run[r].src
    BY <1>1, <2>1 DEF RunStates
  <2>3. run[r].refused = {} /\ \A i \in Present(run[r].es) : rows[i] = run[r].es[i]
    BY <1>1, <1>4, ReportComplete
  <2>4. \A i \in Present(run[r].es) : run[r].es[i] = MachineRow(run[r].src[i], run[r].es[i].txt, r)
    BY DEF Disciplined, Staging
  <2>5. Staging(r)'
    BY <1>2, <2>2, <2>3, <2>4 DEF Staging
  <2>6. QED
    BY <1>2, <2>5
<1>5. QED
  BY <1>3, <1>4

\* A step from one of the later stages to the next one.
LEMMA LaterStages ==
    ASSUME Inductive, Disciplined, NEW r \in Runs,
           run[r].pc \in {"staged", "validated", "built"},
           NEW pc \in {"validated", "built", "promoting"},
           run'[r] = [run[r] EXCEPT !.pc = pc], rows' = rows
    PROVE  Staging(r)'
<1>1. run[r] \in RunStates
  BY DEF Inductive, TypeOK
<1>2. run'[r].pc = pc /\ run'[r].refused = run[r].refused /\ run'[r].es = run[r].es
      /\ run'[r].src = run[r].src
  BY <1>1 DEF RunStates
<1>3. Staging(r)
  BY DEF Disciplined
<1>4. QED
  BY <1>2, <1>3 DEF Staging

\* What a release has staged passes each validation, up to the promotion.
LEMMA StagedPromotable ==
    ASSUME Inductive, Disciplined, NEW r \in Runs,
           run[r].pc \in {"staged", "validated", "built", "promoting"}
    PROVE  Promotable(rows, r, Present(run[r].es))
<1>1. \A i \in Present(run[r].es) :
          rows[i] = run[r].es[i] /\ run[r].es[i] = MachineRow(run[r].src[i], run[r].es[i].txt, r)
  BY DEF Disciplined, Staging
<1>2. \A i \in Present(run[r].es) : run[r].es[i] # NoRow
  BY DEF Present
<1>3. QED
  BY <1>1, <1>2, MachineFields DEF Promotable

LEMMA LateStages ==
    ASSUME Inductive, Disciplined, NEW r \in Runs,
           \/ StopAtGate(r) \/ Validate(r) \/ BuildArtifact(r) \/ PromoteRead(r)
           \/ Kill(r)
    PROVE  Staging(r)' /\ Active(r) /\ UNCHANGED <<rows, panel>>
<1>1. UNCHANGED <<rows, panel>> /\ Active(r)
  BY DEF StopAtGate, Validate, BuildArtifact, PromoteRead, Kill, Active
<1>2. run \in [Runs -> RunStates]
  BY DEF Inductive, TypeOK
<1>3. \/ \E pc \in {"failed", "stopped", "halted", "killed"} : run'[r] = AtRest(pc)
      \/ /\ run[r].pc \in {"staged", "validated", "built"}
         /\ \E pc \in {"validated", "built", "promoting"} : run'[r] = [run[r] EXCEPT !.pc = pc]
  BY <1>2 DEF StopAtGate, Validate, BuildArtifact, PromoteRead, Kill
<1>4. QED
  BY <1>1, <1>3, OverStaging, LaterStages

LEMMA PromoteWriteStages ==
    ASSUME Inductive, Disciplined, NEW r \in Runs, PromoteWrite(r)
    PROVE  /\ Staging(r)' /\ Active(r) /\ panel' = panel
           /\ \A i \in Present(rows') : i \in Present(rows) /\ rows'[i].run = rows[i].run
<1>1. run[r].pc = "promoting" /\ run'[r] = AtRest("done") /\ panel' = panel
      /\ rows' = Promoted(rows, r, Present(run[r].es))
  BY DEF PromoteWrite, Inductive, TypeOK
<1>2. \A i \in Ids : rows[i] # NoRow => rows[i] \in Rows
  BY DEF Inductive, TypeOK, Tables
<1>3. \A i \in Present(rows') : i \in Present(rows) /\ rows'[i].run = rows[i].run
  BY <1>1, <1>2 DEF Promoted, Present, Rows
<1>4. Active(r)
  BY <1>1 DEF Active
<1>5. QED
  BY <1>1, <1>3, <1>4, OverStaging

LEMMA RunLeavesOthers ==
    ASSUME Inductive, NEW r \in Runs, RunStep(r), NEW q \in Runs, q # r
    PROVE  run'[q] = run[q]
BY DEF RunStep, Plan, StageRead, Kill, StageWrite, StageReport, StopAtGate, Validate, BuildArtifact,
       PromoteRead, PromoteWrite, Inductive, TypeOK

\* A step of a run finds no other run and no human write under way.
LEMMA RunStages ==
    ASSUME SingleProcess, Inductive, Disciplined, NEW r \in Runs, RunStep(r)
    PROVE  /\ Staging(r)' /\ panel' = panel /\ panel = Nothing
           /\ \A q \in Runs : q # r => ~Active(q)
           /\ \A i \in Present(rows') : \/ rows'[i].run = r
                                        \/ i \in Present(rows) /\ rows'[i].run = rows[i].run
<1>1. CASE Plan(r)
  BY <1>1, PlanStages
<1>2. ASSUME Active(r) PROVE panel = Nothing /\ \A q \in Runs : q # r => ~Active(q)
  BY <1>2 DEF Disciplined, SoleTask
<1>3. CASE StageRead(r)
  BY <1>2, <1>3, StageReadStages
<1>4. CASE StageWrite(r)
  BY <1>2, <1>4, StageWriteStages
<1>5. CASE StageReport(r)
  BY <1>2, <1>5, StageReportStages
<1>6. CASE StopAtGate(r) \/ Validate(r) \/ BuildArtifact(r) \/ PromoteRead(r) \/ Kill(r)
  BY <1>2, <1>6, LateStages
<1>7. CASE PromoteWrite(r)
  BY <1>2, <1>7, PromoteWriteStages
<1>8. QED
  BY <1>1, <1>3, <1>4, <1>5, <1>6, <1>7 DEF RunStep

LEMMA RunDisciplined ==
    ASSUME SingleProcess, Inductive, Disciplined, NEW r \in Runs, RunStep(r)
    PROVE  Disciplined'
<1>1. /\ Staging(r)' /\ panel' = Nothing
      /\ \A q \in Runs : q # r => ~Active(q)
      /\ \A i \in Present(rows') : \/ rows'[i].run = r
                                   \/ i \in Present(rows) /\ rows'[i].run = rows[i].run
  BY RunStages
<1>2. \A q \in Runs : q # r => run'[q] = run[q]
  BY RunLeavesOthers
<1>3. \A q \in Runs : q # r => ~Active(q)'
  BY <1>1, <1>2 DEF Active
<1>4. SoleTask'
  BY <1>1, <1>3 DEF SoleTask
<1>5. ASSUME NEW q \in Runs, q # r PROVE Staging(q)'
  <2>1. Staging(q) /\ ~Active(q) /\ run'[q] = run[q]
    BY <1>1, <1>2, <1>5 DEF Disciplined
  <2>2. \A i \in Present(rows') : \/ rows'[i].run # q
                                  \/ i \in Present(rows) /\ rows'[i].run = rows[i].run
    BY <1>1, <1>5
  <2>3. QED
    BY <2>1, <2>2, RestingStaging
<1>6. PanelGuard'
  BY <1>1 DEF PanelGuard
<1>7. QED
  BY <1>1, <1>4, <1>5, <1>6 DEF Disciplined

\* A writer other than a run finds none under way, and the rows it adds carry none.
LEMMA WriterStages ==
    ASSUME SingleProcess, Inductive, Disciplined, run' = run,
           rows' = rows \/ (\A r \in Runs : ~Active(r)),
           \A i \in Present(rows') : rows'[i].run = NoRun \/ (i \in Present(rows) /\ rows'[i] = rows[i])
    PROVE  \A r \in Runs : Staging(r)'
<1>1. CASE rows' = rows
  BY <1>1 DEF Disciplined, Staging
<1>2. CASE \A r \in Runs : ~Active(r)
  <2>1. TAKE r \in Runs
  <2>2. Staging(r) /\ ~Active(r) /\ run'[r] = run[r] /\ r # NoRun
    BY <1>2, NoRunIsNotARun DEF Disciplined
  <2>3. \A i \in Present(rows') : \/ rows'[i].run # r
                                  \/ i \in Present(rows) /\ rows'[i].run = rows[i].run
    BY <2>2
  <2>4. QED
    BY <2>2, <2>3, RestingStaging
<1>3. QED
  BY <1>1, <1>2

LEMMA UpsertAdds ==
    ASSUME NEW t, NEW es, \A i \in Ids : es[i] # NoRow => es[i].run = NoRun
    PROVE  \A i \in Present(Upserted(t, es)) :
               \/ Upserted(t, es)[i].run = NoRun
               \/ i \in Present(t) /\ Upserted(t, es)[i] = t[i]
BY DEF Upserted, Present

LEMMA WriterDisciplined ==
    ASSUME SingleProcess, Inductive, Disciplined,
           \/ HumanRead \/ HumanWrite \/ RetireHuman
           \/ Preflight \/ RetireStale
           \/ ReplaceShadow \/ RestoreProtected
    PROVE  Disciplined'
<1>1. CASE HumanRead
  <2>1. PICK D \in SUBSET Ids, fp \in [Ids -> Fps], txt \in [Ids -> Txts], override \in BOOLEAN :
            panel' = [es |-> [i \in Ids |->
                                 IF i \in {j \in D : override \/ ~RemoteGuarded(rows[j])}
                                 THEN HumanRow(fp[i], txt[i]) ELSE NoRow],
                      override |-> override]
    BY <1>1 DEF HumanRead
  <2>2. UNCHANGED <<rows, run>> /\ \A r \in Runs : ~Active(r)
    BY <1>1 DEF HumanRead, Quiet
  <2>3. \A f, t : HumanRow(f, t).run = NoRun
    BY DEF HumanRow
  <2>4. PanelGuard'
    BY <2>1, <2>2, <2>3 DEF PanelGuard, Present
  <2>5. SoleTask' /\ \A r \in Runs : Staging(r)'
    BY <2>2 DEF Disciplined, SoleTask, Active, Staging
  <2>6. QED
    BY <2>4, <2>5 DEF Disciplined
<1>2. CASE HumanWrite
  <2>1. run' = run /\ panel' = Nothing /\ panel # Nothing /\ \A r \in Runs : ~Active(r)
    BY <1>2 DEF HumanWrite, Disciplined, SoleTask
  <2>2. \A i \in Ids : panel.es[i] # NoRow => panel.es[i].run = NoRun
    BY <2>1 DEF Disciplined, PanelGuard, Present
  <2>3. \A i \in Present(rows') : rows'[i].run = NoRun \/ (i \in Present(rows) /\ rows'[i] = rows[i])
    <3>1. rows' = rows \/ rows' = Upserted(rows, panel.es)
      BY <1>2 DEF HumanWrite
    <3>2. QED
      BY <2>2, <3>1, UpsertAdds
  <2>4. QED
    BY <2>1, <2>3, WriterStages DEF Disciplined, SoleTask, Active, PanelGuard
<1>3. CASE Preflight
  BY <1>3 DEF Preflight, Disciplined, SoleTask, Active, Staging, PanelGuard
<1>4. CASE RetireHuman \/ RetireStale \/ ReplaceShadow \/ RestoreProtected
  <2>1. run' = run /\ panel' = panel /\ panel = Nothing /\ \A r \in Runs : ~Active(r)
    BY <1>4 DEF RetireHuman, RetireStale, ReplaceShadow, RestoreProtected, Quiet
  <2>2. \A i \in Present(rows') : rows'[i].run = NoRun \/ (i \in Present(rows) /\ rows'[i] = rows[i])
    <3>1. CASE RetireHuman
      BY <3>1 DEF RetireHuman, Deleted, Present
    <3>2. CASE RetireStale
      BY <3>2 DEF RetireStale, Deleted, Present
    <3>3. CASE ReplaceShadow
      BY <3>3 DEF ReplaceShadow, ShadowReplaced, LegacyRow, Present
    <3>4. CASE RestoreProtected
      <4>1. PICK D \in SUBSET Ids, fp \in [Ids -> Fps], txt \in [Ids -> Txts],
                 kind \in [Ids -> SidecarImports] :
                rows' = Upserted(rows, [i \in Ids |->
                            IF i \in D THEN SidecarRow(kind[i], fp[i], txt[i]) ELSE NoRow])
        BY <3>4 DEF RestoreProtected
      <4> DEFINE es == [i \in Ids |->
                            IF i \in D THEN SidecarRow(kind[i], fp[i], txt[i]) ELSE NoRow]
      <4>2. \A i \in Ids : es[i] # NoRow => es[i].run = NoRun
        BY SidecarType
      <4>3. rows' = Upserted(rows, es)
        BY <4>1
      <4> HIDE DEF es
      <4>4. QED
        BY <4>2, <4>3, UpsertAdds
    <3>5. QED
      BY <1>4, <3>1, <3>2, <3>3, <3>4
  <2>3. QED
    BY <2>1, <2>2, WriterStages DEF Disciplined, SoleTask, Active, PanelGuard
<1>5. QED
  BY <1>1, <1>2, <1>3, <1>4

LEMMA DisciplineInductive ==
    ASSUME SingleProcess
    PROVE  Inductive /\ Disciplined /\ [Next]_vars => Disciplined'
<1> SUFFICES ASSUME Inductive, Disciplined, [Next]_vars PROVE Disciplined'
  OBVIOUS
<1>1. ASSUME NEW r \in Runs, RunStep(r) PROVE Disciplined'
  BY <1>1, RunDisciplined
<1>2. CASE \/ HumanRead \/ HumanWrite \/ RetireHuman
           \/ Preflight \/ RetireStale
           \/ ReplaceShadow \/ RestoreProtected
  BY <1>2, WriterDisciplined
<1>3. CASE UNCHANGED vars
  BY <1>3 DEF vars, Disciplined, SoleTask, Active, Staging, PanelGuard
<1>4. QED
  BY <1>1, <1>2, <1>3 DEF Next

LEMMA InitDisciplined == Init => Disciplined
<1> SUFFICES ASSUME Init PROVE Disciplined
  OBVIOUS
<1>1. \A r \in Runs : run[r].pc = "idle" /\ run[r].es = Empty
  BY AtRestFields DEF Init
<1>2. rows = Empty /\ panel = Nothing
  BY DEF Init
<1>3. QED
  BY <1>1, <1>2, EmptyHasNone DEF Disciplined, SoleTask, Active, Staging, PanelGuard

\* With one dashboard, a run that goes on to render has had every entry it staged
\* written: each refusal of the guarded upsert was reported, whatever rows people,
\* imports and other runs have left.
THEOREM RefusalsAreReported ==
    ASSUME SingleProcess
    PROVE  Spec => []RefusalsReported
<1>1. Init => Inductive /\ Disciplined
  BY InitInductive, InitDisciplined
<1>2. Inductive /\ Disciplined /\ [Next]_vars => (Inductive /\ Disciplined)'
  BY NextInductive, DisciplineInductive
<1>3. Disciplined => RefusalsReported
  BY DEF Disciplined, Staging, RefusalsReported
<1>4. QED
  BY <1>1, <1>2, <1>3, PTL DEF Spec

\* A promoted translation is found by a plan of its source.
LEMMA PromotedFound ==
    ASSUME Inductive, Disciplined, NEW r \in Runs, PromoteWrite(r), NEW i \in Present(run[r].es)
    PROVE  Lookup(rows', hist', i, run[r].src[i]) # NoRow
<1>1. run[r].pc = "promoting" /\ rows' = Promoted(rows, r, Present(run[r].es))
  BY DEF PromoteWrite
<1>2. rows[i] = run[r].es[i] /\ run[r].es[i] = MachineRow(run[r].src[i], run[r].es[i].txt, r)
  BY <1>1 DEF Disciplined, Staging
<1>3. i \in Ids /\ rows[i] # NoRow /\ rows[i] \in Rows
  BY <1>2 DEF Present, Inductive, TypeOK, Tables
<1>4. rows[i].run = r /\ rows[i].fp = run[r].src[i] /\ rows[i].quality = "passed"
      /\ rows[i].review = "unreviewed"
  BY <1>2, MachineFields
<1>5. rows'[i] = [rows[i] EXCEPT !.formal = TRUE]
  BY <1>1, <1>3, <1>4 DEF Promoted
<1>6. [rows[i] EXCEPT !.formal = TRUE] \in Rows
  BY <1>3 DEF Rows
<1>7. /\ rows'[i] # NoRow /\ rows'[i].formal /\ rows'[i].fp = run[r].src[i]
      /\ rows'[i].quality = "passed" /\ rows'[i].review = "unreviewed"
  BY <1>3, <1>4, <1>5, <1>6, NoRowIsNotARow DEF Rows
<1>8. QED
  BY <1>7 DEF Lookup, Usable

LEMMA ReleaseEnds ==
    ASSUME Inductive, Disciplined, [Next]_vars, NEW r \in Runs,
           run[r].pc \in {"built", "promoting"}, run'[r].pc \in {"done", "halted"}
    PROVE  PromoteWrite(r)
<1>1. run' # run
  OBVIOUS
<1>2. PICK q \in Runs : RunStep(q)
  BY <1>1 DEF Next, vars, HumanRead, HumanWrite, RetireHuman, Preflight, RetireStale,
              ReplaceShadow, RestoreProtected
<1>3. q = r
  BY <1>1, <1>2, RunLeavesOthers
<1>4. run \in [Runs -> RunStates]
  BY DEF Inductive, TypeOK
<1>5. ~PromoteRead(r)
  <2>1. SUFFICES ASSUME PromoteRead(r) PROVE FALSE
    OBVIOUS
  <2>2. Promotable(rows, r, Present(run[r].es))
    BY StagedPromotable
  <2>3. run'[r] = [run[r] EXCEPT !.pc = "promoting"]
    BY <1>4, <2>1, <2>2 DEF PromoteRead
  <2>4. run'[r].pc = "promoting"
    BY <1>4, <2>3 DEF RunStates
  <2>5. QED
    BY <2>4
<1>6. ~Kill(r)
  BY <1>4, AtRestFields DEF Kill
<1>7. QED
  BY <1>2, <1>3, <1>5, <1>6 DEF RunStep, Plan, StageRead, StageWrite, StageReport, StopAtGate, Validate,
                          BuildArtifact

\* With one dashboard, a release that has written its artifact promotes all it shipped:
\* a fresh plan of the same source finds every machine translation of it.
THEOREM ReleasesContinue ==
    ASSUME SingleProcess
    PROVE  Spec => ReleaseContinuity
<1>1. Init => Inductive /\ Disciplined
  BY InitInductive, InitDisciplined
<1>2. Inductive /\ Disciplined /\ [Next]_vars => (Inductive /\ Disciplined)'
  BY NextInductive, DisciplineInductive
<1>3. Inductive /\ Disciplined /\ [Next]_vars =>
          [\A r \in Runs :
              run[r].pc \in {"built", "promoting"} /\ run'[r].pc \in {"done", "halted"}
              => \A i \in Present(run[r].es) : Lookup(rows', hist', i, run[r].src[i]) # NoRow]_vars
  BY ReleaseEnds, PromotedFound
<1>4. QED
  BY <1>1, <1>2, <1>3, PTL DEF Spec, ReleaseContinuity

LEMMA StepRetires ==
    ASSUME Inductive, Next, approval # Nothing, approval' = Nothing,
           NEW i \in Ids, rows'[i] # rows[i]
    PROVE  /\ i \in approval.ids /\ rows[i] = approval.rows[i]
           /\ Lookup(rows, hist, i, approval.src[i]) = NoRow
<1>1. RetireStale
  BY DEF Next, RunStep, Plan, StageRead, Kill, StageWrite, StageReport, StopAtGate, Validate,
         BuildArtifact, PromoteRead, PromoteWrite, HumanRead, HumanWrite, RetireHuman,
         Preflight, ReplaceShadow, RestoreProtected
<1>2. ApprovalHolds /\ rows' = Deleted(rows, approval.ids)
  BY <1>1 DEF RetireStale
<1>3. i \in approval.ids
  BY <1>2 DEF Deleted, Inductive, TypeOK, Tables
<1>4. QED
  BY <1>2, <1>3 DEF ApprovalHolds, StaleFormal, Lookup

\* A confirmed retirement removes a row only as its operator was shown it, and only
\* when no plan of that source could reuse it, however long the confirmation took and
\* whoever wrote in between.
THEOREM RetiresAsApproved == Spec => RetiredAsApproved
<1>1. Inductive /\ [Next]_vars =>
          [approval # Nothing /\ approval' = Nothing =>
              \A i \in Ids : rows'[i] # rows[i] =>
                  /\ i \in approval.ids
                  /\ rows[i] = approval.rows[i]
                  /\ Lookup(rows, hist, i, approval.src[i]) = NoRow]_vars
  BY StepRetires
<1>2. QED
  BY <1>1, InitInductive, NextInductive, PTL DEF Spec, RetiredAsApproved

LEMMA StepKeepsRemote ==
    ASSUME SingleProcess, Inductive, Disciplined, Next,
           panel # Nothing, panel' = Nothing, ~panel.override, NEW i \in Ids,
           rows[i] # NoRow, rows[i].origin = "paratranz", rows[i].human
    PROVE  rows'[i] = rows[i]
<1>1. HumanWrite
  BY DEF Next, RunStep, Plan, StageRead, Kill, StageWrite, StageReport, StopAtGate, Validate,
         BuildArtifact, PromoteRead, PromoteWrite, HumanRead, RetireStale, RetireHuman,
         Preflight, ReplaceShadow, RestoreProtected
<1>2. RemoteGuarded(rows[i])
  BY DEF RemoteGuarded
<1>3. panel.es[i] = NoRow
  BY <1>2 DEF Disciplined, PanelGuard, Present
<1>4. QED
  BY <1>1, <1>3 DEF HumanWrite, Upserted, Inductive, TypeOK, Tables

\* With one dashboard, the rows a human write looked at before its transaction are
\* still those it replaces, so that one without an override leaves what ParaTranz protects.
THEOREM RemoteIsKept ==
    ASSUME SingleProcess
    PROVE  Spec => RemoteKept
<1>1. Init => Inductive /\ Disciplined
  BY InitInductive, InitDisciplined
<1>2. Inductive /\ Disciplined /\ [Next]_vars => (Inductive /\ Disciplined)'
  BY NextInductive, DisciplineInductive
<1>3. Inductive /\ Disciplined /\ [Next]_vars =>
          [panel # Nothing /\ panel' = Nothing /\ ~panel.override =>
              \A i \in Ids : rows[i] # NoRow /\ rows[i].origin = "paratranz" /\ rows[i].human
                               => rows'[i] = rows[i]]_vars
  BY StepKeepsRemote
<1>4. QED
  BY <1>1, <1>2, <1>3, PTL DEF Spec, RemoteKept
==============================================================================
