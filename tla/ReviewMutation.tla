--------------------------- MODULE ReviewMutation ---------------------------
(****************************************************************************)
(* The review panel's writes: one translation memory, one append-only       *)
(* decision log, one ledger derived from it (web/review.py,                 *)
(* review_coordinator.py, review_recovery.py, application/review_log.py).   *)
(*                                                                          *)
(* No transaction spans the three. A dashboard handles one mutation at a    *)
(* time under its maintenance lock; another dashboard, or a CLI import,     *)
(* is not held by that lock. Each step between two stores is an action.     *)
(*                                                                          *)
(* One run, whose review index gives every coordinate one source. The       *)
(* events of one commit are one entry of the log, with one image per        *)
(* coordinate; a decision is an entry and a coordinate.                     *)
(****************************************************************************)
EXTENDS TMStore, Naturals, Sequences

CONSTANTS
    Procs,       \* dashboard processes
    Kinds,       \* the panel operations explored
    CliWriters,  \* a CLI import may write: never, between mutations, at any time
    FailIn,      \* the operations whose log append may fail, once
    MayCrash,    \* a dashboard may be killed, once
    MaxLog,      \* bound on the log
    NoRevision   \* no expected revision

Mutations == {"commit", "unify", "revert"}

Marks == {"draft", "skip", "defer"}

ASSUME KindsAreKnown == Kinds \cup FailIn \subseteq Mutations \cup Marks

ASSUME FlagsAndBounds ==
    CliWriters \in {"never", "between", "any"} /\ MayCrash \in BOOLEAN /\ MaxLog \in Nat

ASSUME NoRevisionIsNone == NoRevision \notin Nat

ASSUME SomeSourceAndText == Fps # {} /\ Txts # {}

VARIABLES
    rows,    \* tm_entries
    log,     \* the decision log, in file order
    ledger,  \* ledger.json of the run
    op,      \* the mutation each dashboard is handling
    broken,  \* the one failure or crash has happened
    base     \* the rows before the first decision; never changes

vars == <<rows, log, ledger, op, broken, base>>

LedgerStates == {"pending", "skipped", "deferred", "draft", "committed", "reverted"}

PCs == {"idle", "before", "write", "after", "append", "file", "ledger",
        "undo", "restore", "revert"}

None == [i \in Ids |-> NoRow]

Entries == [kind : Mutations \cup Marks, ids : SUBSET Ids, before : Tables, after : Tables]

\* before: the image the log will hold; outer: the coordinator's own image.
Ops == [pc : PCs, kind : Mutations \cup Marks, ids : SUBSET Ids, txt : [Ids -> Txts],
        override : BOOLEAN, expect : Nat \cup {NoRevision},
        outer : Tables, before : Tables, after : Tables]

TypeOK ==
    /\ rows \in Tables /\ base \in Tables
    /\ log \in Seq(Entries)
    /\ ledger \in [Ids -> LedgerStates]
    /\ op \in [Procs -> Ops]
    /\ broken \in BOOLEAN

Rest == [pc |-> "idle", kind |-> "commit", ids |-> {},
         txt |-> [i \in Ids |-> CHOOSE t \in Txts : TRUE],
         override |-> FALSE, expect |-> NoRevision,
         outer |-> None, before |-> None, after |-> None]

TheSource == CHOOSE f \in Fps : TRUE

\* What a run leaves behind: nothing, a model translation, a locked remote one,
\* or a human one that was imported.
Left == {NoRow, RemoteRow(TheSource, CHOOSE t \in Txts : TRUE, "locked")} \cup
        {HumanRow(TheSource, t) : t \in Txts} \cup
        {[MachineRow(TheSource, t, r) EXCEPT !.formal = TRUE] : t \in Txts, r \in Runs}

Init ==
    /\ rows \in [Ids -> Left]
    /\ base = rows
    /\ log = <<>>
    /\ ledger = [i \in Ids |-> "pending"]
    /\ op = [p \in Procs |-> Rest]
    /\ broken = FALSE

------------------------------------------------------------------------------
\* log.revision(): the number of lines and the digest of the last one.
Revision == Len(log)

Finish(p) == op' = [op EXCEPT ![p] = Rest]

\* One slip: only locked rows diverge.
DivergentLocked(D, txt) ==
    {i \in D : /\ rows[i] # NoRow /\ rows[i].origin = "human"
               /\ rows[i].review = "locked" /\ rows[i].txt # txt[i]}

\* The divergence guard of unify, as the coordinator sees the rows.
Divergent(D, txt) ==
    {i \in D : /\ rows[i] # NoRow /\ rows[i].origin = "human"
               /\ rows[i].review = "reviewed" /\ rows[i].formal
               /\ rows[i].txt # txt[i]}

\* CoordinatedReviewService.commit, up to super().commit.
Begin(p) ==
    /\ op[p].pc = "idle"
    /\ \E kind \in Kinds \cap {"commit", "unify"}, D \in (SUBSET Ids) \ {{}},
          txt \in [Ids -> Txts], override \in BOOLEAN,
          expect \in 0..Revision \cup {NoRevision} :
           /\ kind = "unify" => /\ \A i, j \in D : txt[i] = txt[j]
                                /\ Divergent(D, txt) = {}
           /\ op' = [op EXCEPT ![p] =
                 [Rest EXCEPT !.pc = "before", !.kind = kind, !.ids = D, !.txt = txt,
                              !.override = override, !.expect = expect,
                              !.outer = Restricted(rows, D)]]
    /\ UNCHANGED <<rows, log, ledger, broken, base>>

\* ReviewService.commit reads the before-image, and apply_human_review the
\* guarded rows; a commit with nothing to write appends nothing.
ReadBefore(p) ==
    /\ op[p].pc = "before"
    /\ LET writable == {i \in op[p].ids : op[p].override \/ ~RemoteGuarded(rows[i])} IN
       IF writable = {} THEN Finish(p)
       ELSE op' = [op EXCEPT ![p].pc = "write", ![p].ids = writable,
                             ![p].before = Restricted(rows, writable)]
    /\ UNCHANGED <<rows, log, ledger, broken, base>>

\* A human row passes both conditions of the guarded upsert.
Write(p) ==
    /\ op[p].pc = "write"
    /\ rows' = Upserted(rows, [i \in Ids |-> IF i \in op[p].ids
                                  THEN HumanRow(TheSource, op[p].txt[i]) ELSE NoRow])
    /\ op' = [op EXCEPT ![p].pc = "after"]
    /\ UNCHANGED <<log, ledger, broken, base>>

------------------------------------------------------------------------------
\* The latest entry of the log that changed i, or 0.
LatestMutation(i) ==
    LET N == {n \in 1..Len(log) : log[n].kind \in Mutations /\ i \in log[n].ids}
    IN  IF N = {} THEN 0 ELSE CHOOSE n \in N : \A m \in N : m <= n

\* One slip: freshness is not tested against the after-image.
RevertibleByLog(n, i) ==
    /\ log[n].kind \in {"commit", "unify"} /\ i \in log[n].ids
    /\ LatestMutation(i) = n

\* _revertibility: a commit or unify, the latest mutation of its coordinate, and
\* the row still is what it wrote.
Revertible(n, i) ==
    /\ log[n].kind \in {"commit", "unify"} /\ i \in log[n].ids
    /\ LatestMutation(i) = n
    /\ rows[i] = log[n].after[i]

\* safe_revert up to the restore. The current rows are kept for the event and for
\* compensation; `after' holds the images to restore until they are.
BeginRevert(p) ==
    /\ op[p].pc = "idle" /\ "revert" \in Kinds
    /\ \E D \in (SUBSET Ids) \ {{}} :
       \E n \in [D -> 1..Len(log)] :
           /\ \A i \in D : Revertible(n[i], i)
           /\ op' = [op EXCEPT ![p] =
                 [Rest EXCEPT !.pc = "revert", !.kind = "revert", !.ids = D,
                              !.expect = Revision,
                              !.outer = Restricted(rows, D),
                              !.before = Restricted(rows, D),
                              !.after = [i \in Ids |-> IF i \in D THEN log[n[i]].before[i]
                                                       ELSE NoRow]]]
    /\ UNCHANGED <<rows, log, ledger, broken, base>>

\* restore_rows refuses the whole batch when a row was not written by a person.
Restorable(D) == \A i \in D : rows[i] # NoRow => rows[i].origin = "human"

Restored(D, image) == [i \in Ids |-> IF i \in D THEN image[i] ELSE rows[i]]

Revert(p) ==
    /\ op[p].pc = "revert"
    /\ IF Restorable(op[p].ids)
       THEN /\ rows' = Restored(op[p].ids, op[p].after)
            /\ op' = [op EXCEPT ![p].pc = "after"]
       ELSE rows' = rows /\ Finish(p)
    /\ UNCHANGED <<log, ledger, broken, base>>

------------------------------------------------------------------------------
\* SnapshottingReviewDecisionLog.append, and the restored rows of safe_revert.
ReadAfter(p) ==
    /\ op[p].pc = "after"
    /\ op' = [op EXCEPT ![p].pc = "append", ![p].after = Restricted(rows, op[p].ids)]
    /\ UNCHANGED <<rows, log, ledger, broken, base>>

\* draft, skip and defer go to the log and the ledger only.
BeginMark(p) ==
    /\ op[p].pc = "idle"
    /\ \E kind \in Kinds \cap Marks, i \in Ids, expect \in 0..Revision \cup {NoRevision} :
           op' = [op EXCEPT ![p] = [Rest EXCEPT !.pc = "append", !.kind = kind,
                                                !.ids = {i}, !.expect = expect]]
    /\ UNCHANGED <<rows, log, ledger, broken, base>>

\* One slip: a mismatch is only reported.
NotCompensated(p) == op' = [op EXCEPT ![p] = Rest]

\* LogRevisionMismatch: nothing is appended and a mutation is compensated.
CompensatedFrom(p) ==
    op' = CASE op[p].kind \in {"commit", "unify"} -> [op EXCEPT ![p].pc = "undo"]
            [] op[p].kind = "revert"              -> [op EXCEPT ![p].pc = "restore"]
            [] OTHER                              -> [op EXCEPT ![p] = Rest]

\* One slip: the expected revision is ignored.
CheckNothing(p) ==
    /\ op[p].pc = "append"
    /\ op' = [op EXCEPT ![p].pc = "file"]
    /\ UNCHANGED <<rows, log, ledger, broken, base>>

CheckRevision(p) ==
    /\ op[p].pc = "append"
    /\ IF op[p].expect \in {NoRevision, Revision}
       THEN op' = [op EXCEPT ![p].pc = "file"]
       ELSE CompensatedFrom(p)
    /\ UNCHANGED <<rows, log, ledger, broken, base>>

\* One slip: any later error is taken for a mismatch.
AppendLogThenUndo(p) ==
    /\ op[p].pc = "file"
    /\ Revision < MaxLog
    /\ log' = Append(log, [kind |-> op[p].kind, ids |-> op[p].ids,
                           before |-> op[p].before, after |-> op[p].after])
    /\ \E pc \in {"ledger", "undo"} : op' = [op EXCEPT ![p].pc = pc]
    /\ UNCHANGED <<rows, ledger, broken, base>>

AppendLog(p) ==
    /\ op[p].pc = "file"
    /\ Revision < MaxLog
    /\ log' = Append(log, [kind |-> op[p].kind, ids |-> op[p].ids,
                           before |-> op[p].before, after |-> op[p].after])
    /\ op' = [op EXCEPT ![p].pc = "ledger"]
    /\ UNCHANGED <<rows, ledger, broken, base>>

\* The file cannot be written. Only safe_revert handles anything but a mismatch.
FailAppend(p) ==
    /\ op[p].pc = "file"
    /\ op[p].kind \in FailIn /\ ~broken
    /\ broken' = TRUE
    /\ IF op[p].kind = "revert" THEN CompensatedFrom(p) ELSE Finish(p)
    /\ UNCHANGED <<rows, log, ledger, base>>

\* Two slips: a reverted coordinate is pending again; the state is the action.
MarkedPending(kind) ==
    CASE kind \in {"commit", "unify"} -> "committed"
      [] kind = "revert" -> "pending"
      [] kind = "draft"  -> "draft"
      [] kind = "skip"   -> "skipped"
      [] kind = "defer"  -> "deferred"

Marked(kind) ==
    CASE kind \in {"commit", "unify"} -> "committed"
      [] kind = "revert" -> "reverted"
      [] kind = "draft"  -> "draft"
      [] kind = "skip"   -> "skipped"
      [] kind = "defer"  -> "deferred"

SaveLedger(p) ==
    /\ op[p].pc = "ledger"
    /\ ledger' = [i \in Ids |-> IF i \in op[p].ids THEN Marked(op[p].kind) ELSE ledger[i]]
    /\ Finish(p)
    /\ UNCHANGED <<rows, log, broken, base>>

------------------------------------------------------------------------------
Requested(p) == {i \in Ids : op[p].outer[i] # NoRow} \cup op[p].ids

\* The compensation of a commit: every coordinate that is no longer what the
\* coordinator read must be exactly what this commit meant to write.
ReadUndo(p) ==
    /\ op[p].pc = "undo"
    /\ LET moved == {i \in Requested(p) : rows[i] # op[p].outer[i]} IN
       IF \A i \in moved : rows[i] = HumanRow(TheSource, op[p].txt[i])
       THEN op' = [op EXCEPT ![p].pc = "restore", ![p].ids = moved]
       ELSE Finish(p)
    /\ UNCHANGED <<rows, log, ledger, broken, base>>

Restore(p) ==
    /\ op[p].pc = "restore"
    /\ rows' = IF Restorable(op[p].ids) THEN Restored(op[p].ids, op[p].outer) ELSE rows
    /\ Finish(p)
    /\ UNCHANGED <<log, ledger, broken, base>>

------------------------------------------------------------------------------
(* Outside of the dashboard.                                                 *)
Settled == \A p \in Procs : op[p].pc = "idle"

\* What a provenance sidecar restores: human, locked remote and formal model rows.
Restorations == UNION {{HumanRow(TheSource, t), RemoteRow(TheSource, t, "locked"),
                        [MachineRow(TheSource, t, NoRun) EXCEPT !.formal = TRUE]} : t \in Txts}

\* tm-sync-legacy: the rows its sidecar restores take the guarded upsert.
CliWrite ==
    /\ CliWriters # "never"
    /\ CliWriters = "between" => Settled
    /\ \E i \in Ids, new \in Restorations :
           /\ rows' = Upserted(rows, [None EXCEPT ![i] = new])
    /\ UNCHANGED <<log, ledger, op, broken, base>>

Crash(p) ==
    /\ MayCrash /\ ~broken
    /\ op[p].pc # "idle"
    /\ broken' = TRUE
    /\ Finish(p)
    /\ UNCHANGED <<rows, log, ledger, base>>

Next ==
    \/ \E p \in Procs :
           \/ Begin(p) \/ ReadBefore(p) \/ Write(p) \/ ReadAfter(p)
           \/ BeginRevert(p) \/ Revert(p) \/ BeginMark(p)
           \/ CheckRevision(p) \/ AppendLog(p) \/ FailAppend(p) \/ SaveLedger(p)
           \/ ReadUndo(p) \/ Restore(p) \/ Crash(p)
    \/ CliWrite

Spec == Init /\ [][Next]_vars

------------------------------------------------------------------------------
\* rebuild_from_log: the state an entry of the log gives its coordinates.
Rebuilt(kind) ==
    CASE kind = "draft" -> "draft"
      [] kind \in {"commit", "unify"} -> "committed"
      [] kind = "revert" -> "reverted"
      [] kind = "skip"   -> "skipped"
      [] kind = "defer"  -> "deferred"

\* What the log says a coordinate holds.
Replayed(i) == IF LatestMutation(i) = 0 THEN base[i] ELSE log[LatestMutation(i)].after[i]

\* The log is the authority and the translation memory its replayable projection:
\* whenever no mutation is under way, replaying the log gives the rows.
Projection == Settled => \A i \in Ids : rows[i] = Replayed(i)

\* The same with kills and failed appends. The store may then be ahead of the log: by
\* a decision that was written and not logged, or by a revert that was not logged and
\* left the image the latest decision started from. It is never behind the log, and
\* holds nothing else.
StoreLeads ==
    Settled => \A i \in Ids :
        \/ rows[i] = Replayed(i)
        \/ /\ broken
           /\ \/ rows[i] # NoRow /\ rows[i].origin = "human"
              \/ LatestMutation(i) # 0 /\ rows[i] = log[LatestMutation(i)].before[i]

\* Each decision starts where the one before it on that coordinate ended, so
\* that reverting the latest one gives back what the log says was there.
Chained ==
    \A n \in 1..Len(log), i \in Ids : log[n].kind \in Mutations /\ i \in log[n].ids =>
        LET N == {m \in 1..(n - 1) : log[m].kind \in Mutations /\ i \in log[m].ids}
            last == CHOOSE m \in N : \A k \in N : k <= m
        IN  log[n].before[i] = IF N = {} THEN base[i] ELSE log[last].after[i]

Touching(i) == {n \in 1..Len(log) : i \in log[n].ids}

\* The state the first m entries of the log give a coordinate.
StateAt(i, m) ==
    LET N == {n \in Touching(i) : n <= m} IN
    IF N = {} THEN "pending" ELSE Rebuilt(log[CHOOSE n \in N : \A k \in N : k <= n].kind)

\* The ledger is what rebuilding it from the log would give.
LedgerDerived == Settled => \A i \in Ids : ledger[i] = StateAt(i, Revision)

\* After a crash or a failed append it lags behind the log by one entry at the
\* most, and never claims a state the log does not hold.
LedgerLags ==
    Settled => \A i \in Ids :
        \/ ledger[i] = StateAt(i, Revision)
        \/ broken /\ \E n \in Touching(i) : /\ \A m \in Touching(i) : m <= n
                                            /\ ledger[i] = StateAt(i, n - 1)

\* The after-image of a decision is what the decision wrote.
AfterIsWritten ==
    [][\A p \in Procs : op[p].kind \in {"commit", "unify"} /\ op[p].pc = "file"
                        /\ op'[p].pc = "ledger" =>
          \A i \in op[p].ids : op[p].after[i] = HumanRow(TheSource, op[p].txt[i])]_vars

\* What a revert discards is the after-image of the decision it undoes, unless the row
\* was written since that was tested; then it is a human row, for restore_rows refuses
\* any other.
RevertIsFresh ==
    [][\A p \in Procs : op[p].pc = "revert" /\ op'[p].pc = "after" =>
          \A i \in op[p].ids :
              \/ rows[i] = log[LatestMutation(i)].after[i]
              \/ /\ rows[i] # op[p].before[i]
                 /\ (rows[i] = NoRow \/ rows[i].origin = "human")]_vars

\* A revert never discards a row that somebody wrote since.
RevertIsAtomic ==
    [][\A p \in Procs : op[p].pc = "revert" /\ op'[p].pc = "after" =>
          \A i \in op[p].ids : rows[i] = log[LatestMutation(i)].after[i]]_vars

\* A writer that passed the revision it read appends directly after that revision.
RevisionHonoured ==
    [][\A p \in Procs : op[p].pc = "file" /\ op'[p].pc = "ledger" /\ op[p].expect # NoRevision
          => op[p].expect = Revision]_vars

\* As long as nothing failed, the compensation of a commit takes back only what the
\* log does not account for.
CompensationSparesLogged ==
    [][\A p \in Procs :
          ~broken /\ op[p].kind \in {"commit", "unify"}
                  /\ op[p].pc = "restore" /\ op'[p].pc = "idle" =>
          \A i \in op[p].ids : rows'[i] # rows[i] => rows[i] # Replayed(i)]_vars

\* The human decisions of another text that the write of a unify replaces.
Overruled(p) ==
    {i \in op[p].ids : /\ op[p].kind = "unify" /\ op[p].pc = "write" /\ op'[p].pc = "after"
                       /\ rows[i] # NoRow /\ rows[i].origin = "human"
                       /\ rows'[i].txt # rows[i].txt}

\* A unify replaces a different human decision only when that decision came after the
\* guard: what the coordinator saw stays, however many dashboards and imports write.
UnifyKeepsDecisions ==
    [][\A p \in Procs : \A i \in Overruled(p) : rows[i] # op[p].outer[i]]_vars

\* A unify never replaces a different human decision.
UnifyIsAtomic == [][\A p \in Procs : Overruled(p) = {}]_vars
=============================================================================
