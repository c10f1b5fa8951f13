----------------------------- MODULE TMAuthority -----------------------------
(***************************************************************************)
(* How a project moves from the old history_tm.json to the SQLite memory:  *)
(* the shadow synchronisation and its provenance sidecar, the export back, *)
(* seeds and accepted artifacts, the one-way switch of authority, and the  *)
(* facade in front of the old program (migrations/, compat/legacy.py, the  *)
(* authority part of adapters/storage/sqlite_tm.py).                       *)
(*                                                                         *)
(* The commands work on the database, on the JSON file and on the sidecar  *)
(* beside it; each has the steps between which another command can run or  *)
(* the process can be killed.  A digest is the content it is taken of.  A  *)
(* coordinate has one row: the rows of two adapters at one coordinate,     *)
(* which the export must choose between, are left out.                     *)
(***************************************************************************)
EXTENDS TMStore, FiniteSets, Naturals

LOCAL INSTANCE FiniteSetsExt

CONSTANTS Paths,   \* legacy JSON files
          Procs,   \* commands that run at the same time
          Bad,     \* <<id, text>>: fails the checks of import (placeholders,
                   \* validation, glossary, empty, untranslated)
          Source,  \* identity -> fingerprint of the game resource now
          Current, \* the identities the game's resources have now
          Old,     \* what the old program's file may hold at the beginning
          Nothing, \* no file, no sidecar, no record
          Remote,  \* the review states a row from the remote project may have
          Overlap, \* TRUE: a command may start while another one runs
          MaxCommands, MaxFaults  \* bounds of a behaviour

ASSUME AuthorityAssumption ==
  /\ Bad \subseteq Ids \X Txts /\ Current \subseteq Ids /\ Source \in [Ids -> Fps]
  /\ Old \subseteq [Ids -> [fp : Fps, txt : Txts] \cup {Nothing}] \cup {Nothing}
  /\ Remote \subseteq RemoteReviews
  /\ Overlap \in BOOLEAN /\ MaxCommands \in Nat /\ MaxFaults \in Nat /\ Nothing \notin Rows

ASSUME FinitelyManyIds == IsFiniteSet(Ids)

VARIABLES rows, hist,  \* tm_entries and tm_source_history
          syncs,       \* path -> its row of legacy_sync, or Nothing
          authority,   \* the evidence beside authoritative=true, or Nothing
          files,       \* path -> the JSON file, or Nothing
          sidecars,    \* path -> its .provenance.json, or Nothing
          baselines,   \* the baseline reports that exist with status passed
          procs,       \* process -> where its command is
          attested,    \* history: <<id, fingerprint, text>> a human vouched for
          commands, faults

store == <<rows, hist, syncs, authority>>
disk == <<files, sidecars, baselines>>
vars == <<store, disk, procs, attested, commands, faults>>

(********************************** values *********************************)
Entries == [fp : Fps, txt : Txts]
Snapshots == [Ids -> Entries \cup {Nothing}]
Listed(file) == {i \in Ids : file[i] # Nothing}
Idle == [pc |-> "idle"]
NoEntries == [i \in Ids |-> NoRow]

Init == /\ rows = NoEntries
        /\ hist = [i \in Ids |-> [f \in Fps |-> NoRow]]
        /\ syncs = [p \in Paths |-> Nothing] /\ authority = Nothing
        /\ files \in [Paths -> Old]
        /\ sidecars = [p \in Paths |-> Nothing]
        /\ baselines = {} /\ procs = [x \in Procs |-> Idle]
        /\ attested = {} /\ commands = 0 /\ faults = 0

Counted == commands < MaxCommands /\ commands' = commands + 1
Start(x) == /\ procs[x].pc = "idle"
            /\ ~Overlap => \A y \in Procs : procs[y].pc = "idle"
            /\ Counted
Step(x, state) == procs' = [procs EXCEPT ![x] = state]
Fault == faults < MaxFaults /\ faults' = faults + 1

(************************** tm-sync-legacy *********************************)
(* _classify and the demotion of sources with several clean translations.  *)
Clean(file, i) == <<i, file[i].txt>> \notin Bad
Conflict(file, i) ==
  \E j \in Listed(file) : /\ file[j].fp = file[i].fp /\ file[j].txt # file[i].txt
                          /\ Clean(file, j)
Classified(file, i) ==
  LET row == LegacyRow(file[i].fp, file[i].txt, Clean(file, i) /\ ~Conflict(file, i)) IN
  IF Clean(file, i) /\ Conflict(file, i) THEN [row EXCEPT !.review = "suspect"] ELSE row

(* _to_tm_entry: the marks of the sidecar, or the classification.          *)
Imported(file, marks) ==
  [i \in Ids |-> IF file[i] = Nothing THEN NoRow
                 ELSE IF marks[i] = NoRow THEN Classified(file, i)
                 ELSE [marks[i] EXCEPT !.fp = file[i].fp, !.txt = file[i].txt]]

(* Mutant: the sidecar's digest is not compared. *)
ProvenanceUnbound(p, file) == IF sidecars[p] = Nothing THEN NoEntries ELSE sidecars[p].marks

(* _load_provenance: a sidecar of another export ends the command.         *)
Provenance(p, file) ==
  IF sidecars[p] = Nothing THEN NoEntries
  ELSE IF sidecars[p].export = file THEN sidecars[p].marks ELSE Nothing

(* The file is read; a digest that is recorded already ends the command,   *)
(* unless it is forced.                                                    *)
SyncRead(x, p, force) ==
  /\ Start(x) /\ files[p] # Nothing
  /\ ~force /\ syncs[p] # Nothing => syncs[p].file # files[p]
  /\ Step(x, [pc |-> "check", path |-> p, file |-> files[p]])
  /\ UNCHANGED <<store, disk, attested, faults>>

(* Mutant: the shadow is rebuilt whoever has the authority. *)
SyncCheckOpen(x) ==
  /\ procs[x].pc = "check"
  /\ LET marks == Provenance(procs[x].path, procs[x].file) IN
     IF marks = Nothing THEN Step(x, Idle)
     ELSE Step(x, [pc |-> "shadow", path |-> procs[x].path, file |-> procs[x].file,
                   entries |-> Imported(procs[x].file, marks)])
  /\ UNCHANGED <<store, disk, attested, commands, faults>>

(* The sidecar is read, the entries are made, and replace_legacy_shadow    *)
(* asks for the authority before it begins its transaction.                *)
SyncCheck(x) ==
  LET me == procs[x]
      marks == Provenance(me.path, me.file) IN
  /\ me.pc = "check"
  /\ Step(x, IF marks = Nothing \/ authority # Nothing THEN Idle
             ELSE [pc |-> "shadow", path |-> me.path, file |-> me.file,
                   entries |-> Imported(me.file, marks)])
  /\ UNCHANGED <<store, disk, attested, commands, faults>>

Legacy(es) == {i \in Present(es) : es[i].origin = "legacy"}

SyncShadow(x) ==
  LET me == procs[x] IN
  /\ me.pc = "shadow"
  /\ rows' = ShadowReplaced(rows, Restricted(me.entries, Legacy(me.entries)))
  /\ Step(x, [me EXCEPT !.pc = "restore"])
  /\ UNCHANGED <<hist, syncs, authority, disk, attested, commands, faults>>

(* Mutant: what the sidecar restores is written over whatever is there. *)
SyncRestoreForced(x) ==
  LET me == procs[x]
      es == Restricted(me.entries, Present(me.entries) \ Legacy(me.entries)) IN
  /\ me.pc = "restore"
  /\ rows' = [i \in Ids |-> IF es[i] # NoRow THEN es[i] ELSE rows[i]]
  /\ Step(x, [me EXCEPT !.pc = "record"])
  /\ UNCHANGED <<hist, syncs, authority, disk, attested, commands, faults>>

(* What the sidecar restored takes the guarded upsert, in a transaction of *)
(* its own.                                                                *)
SyncRestore(x) ==
  LET me == procs[x]
      es == Restricted(me.entries, Present(me.entries) \ Legacy(me.entries)) IN
  /\ me.pc = "restore"
  /\ hist' = Archived(rows, hist, ReplacedFormal(rows, es))
  /\ rows' = Upserted(rows, es)
  /\ Step(x, [me EXCEPT !.pc = "record"])
  /\ UNCHANGED <<syncs, authority, disk, attested, commands, faults>>

(* record_sync: the digest read first and the number of entries; then the  *)
(* file must not have changed meanwhile, which is too late to undo.        *)
SyncRecord(x) ==
  LET me == procs[x] IN
  /\ me.pc = "record"
  /\ syncs' = [syncs EXCEPT ![me.path] = [file |-> me.file,
                                          count |-> Cardinality(Listed(me.file))]]
  /\ Step(x, Idle)
  /\ UNCHANGED <<rows, hist, authority, disk, attested, commands, faults>>

(************************** tm-export-legacy *******************************)
(* Quarantined rows stay behind unless they are asked for.                 *)
Exported(include) ==
  {i \in Present(rows) : include \/ rows[i].origin # "legacy" \/ rows[i].review # "quarantined"}

(* Mutant: the mark of a suspect row is left behind. *)
ProtectedDecided(row) == \/ row.human \/ row.formal \/ row.origin \in {"human", "paratranz"}
                         \/ row.review \in {"reviewed", "locked"}

(* What the old format has no field for.                                   *)
Protected(row) == \/ row.human \/ row.formal \/ row.origin \in {"human", "paratranz"}
                  \/ row.review \in {"reviewed", "locked", "suspect"}

(* The file is replaced first; a sidecar is only written when a row needs  *)
(* one, and one that is there already stays.                               *)
Export(x, p, include, overwrite) ==
  LET file == [i \in Ids |-> IF i \in Exported(include)
                             THEN [fp |-> rows[i].fp, txt |-> rows[i].txt] ELSE Nothing]
      kept == {i \in Exported(include) : Protected(rows[i])}
  IN  /\ Start(x) /\ (files[p] = Nothing \/ overwrite)
      /\ files' = [files EXCEPT ![p] = file]
      /\ Step(x, IF kept = {} THEN Idle
                 ELSE [pc |-> "sidecar", path |-> p, export |-> file,
                       marks |-> [i \in Ids |-> IF i \in kept
                                    THEN [rows[i] EXCEPT !.run = NoRun] ELSE NoRow]])
      /\ UNCHANGED <<store, sidecars, baselines, attested, faults>>

ExportSidecar(x) ==
  LET me == procs[x] IN
  /\ me.pc = "sidecar"
  /\ sidecars' = [sidecars EXCEPT ![me.path] = [export |-> me.export, marks |-> me.marks]]
  /\ Step(x, Idle)
  /\ UNCHANGED <<store, files, baselines, attested, commands, faults>>

(****************** seeds, accepted artifacts, the dashboard ***************)
(* The guarded upsert; a human vouched for what it lets in.                *)
Attest(es) ==
  /\ hist' = Archived(rows, hist, ReplacedFormal(rows, es))
  /\ rows' = Upserted(rows, es)
  /\ attested' = attested \cup {<<i, es[i].fp, es[i].txt>> :
                            i \in {j \in Present(es) : Admitted(rows, j, es[j])}}

Guarded(es) == \E i \in Present(es) : RemoteGuarded(rows[i])

(* tm-import-seed and tm-bootstrap-resources: every unit is valid, no      *)
(* coordinate is protected by a remote decision; the authority is not      *)
(* asked for.                                                              *)
Seed(x, texts) ==
  LET es == [i \in Ids |-> IF texts[i] = Nothing THEN NoRow ELSE HumanRow(Source[i], texts[i])] IN
  /\ Start(x) /\ Present(es) # {}
  /\ \A i \in Present(es) : <<i, texts[i]>> \notin Bad
  /\ ~Guarded(es)
  /\ Attest(es)
  /\ UNCHANGED <<syncs, authority, disk, procs, faults>>

(* tm-adopt-artifact: every coordinate of the artifact; refused once       *)
(* SQLite is authoritative.  The report is the data baseline.              *)
AdoptCheck(x, texts, override) ==
  LET es == [i \in Ids |-> IF i \in Current THEN HumanRow(Source[i], texts[i]) ELSE NoRow] IN
  /\ Start(x) /\ authority = Nothing
  /\ (~Guarded(es) \/ override)
  /\ Step(x, [pc |-> "adopt", entries |-> es, override |-> override])
  /\ UNCHANGED <<store, disk, attested, faults>>

(* The guard is asked again by the write, which ends the command.          *)
AdoptWrite(x) ==
  LET me == procs[x] IN
  /\ me.pc = "adopt"
  /\ IF Guarded(me.entries) /\ ~me.override
       THEN Step(x, Idle) /\ UNCHANGED <<rows, hist, attested>>
       ELSE Attest(me.entries) /\ Step(x, [pc |-> "report"])
  /\ UNCHANGED <<syncs, authority, disk, commands, faults>>

AdoptReport(x) ==
  /\ procs[x].pc = "report"
  /\ baselines' = baselines \cup {"data_baseline"}
  /\ Step(x, Idle)
  /\ UNCHANGED <<store, files, sidecars, attested, commands, faults>>

(* tm-verify-artifact: the plan has nothing left for the provider and the  *)
(* offline build has the artifact's bytes.                                 *)
Verify(x, texts) ==
  /\ Start(x)
  /\ \A i \in Current : LET hit == Lookup(rows, hist, i, Source[i]) IN
                        hit # NoRow /\ hit.txt = texts[i]
  /\ baselines' = baselines \cup {"behavior_baseline"}
  /\ UNCHANGED <<store, files, sidecars, procs, attested, faults>>

(* A row pulled from the remote project. Nothing in src writes the entry    *)
(* ParaTranzStagePolicy.to_tm_entry makes: the upsert is its caller's.       *)
PullRemote(x, i, t, review) ==
  LET es == Restricted([j \in Ids |-> RemoteRow(Source[j], t, review)], {i}) IN
  /\ Start(x)
  /\ Attest(es)
  /\ UNCHANGED <<syncs, authority, disk, procs, faults>>

(************************** tm-switch-authority ****************************)
LegacyCount == Cardinality({i \in Present(rows) : rows[i].origin = "legacy"})
Declared == MapThenSumSet(LAMBDA p : syncs[p].count, {p \in Paths : syncs[p] # Nothing})

(* Every precondition is read outside the transaction: not authoritative,  *)
(* both baselines, a synchronised source whose file still has the recorded *)
(* digest, and as many legacy rows as the records declare or the operator  *)
(* expects.                                                                *)
Switch(x, p, expected) ==
  /\ Start(x) /\ authority = Nothing
  /\ baselines = {"data_baseline", "behavior_baseline"}
  /\ syncs[p] # Nothing /\ files[p] = syncs[p].file
  /\ Declared > 0
  /\ LegacyCount = IF expected = Nothing THEN Declared ELSE expected
  /\ Step(x, [pc |-> "switch", evidence |-> [path |-> p, legacy |-> LegacyCount,
                                             declared |-> Declared]])
  /\ UNCHANGED <<store, disk, attested, faults>>

(* INSERT OR REPLACE of the evidence and of authoritative=true.            *)
SwitchCommit(x) ==
  /\ procs[x].pc = "switch"
  /\ authority' = procs[x].evidence
  /\ Step(x, Idle)
  /\ UNCHANGED <<rows, hist, syncs, disk, attested, commands, faults>>

(****************************** the old program ****************************)
(* phase_for_tm: what the store says bounds what the old program may do.   *)
Phase == IF authority # Nothing THEN "sqlite_authority"
         ELSE IF \E p \in Paths : syncs[p] # Nothing THEN "m3_shadow" ELSE "m1_m2"

(* legacy --save-tm passes the facade only in the first phase (a phase     *)
(* asked for can only be stricter); the program runs on its own from there.*)
LegacyStart(x, p) ==
  /\ Start(x) /\ Phase = "m1_m2"
  /\ Step(x, [pc |-> "legacy", path |-> p])
  /\ UNCHANGED <<store, disk, attested, faults>>

(* It replaces the whole file when it ends.                                *)
LegacySave(x, file) ==
  /\ procs[x].pc = "legacy"
  /\ files' = [files EXCEPT ![procs[x].path] = file]
  /\ Step(x, Idle)
  /\ UNCHANGED <<store, sidecars, baselines, attested, commands, faults>>

(******************************** environment ******************************)
(* Somebody edits the file by hand, or puts an older one back.             *)
EditFile(p, file) ==
  /\ Counted
  /\ files' = [files EXCEPT ![p] = file]
  /\ UNCHANGED <<store, sidecars, baselines, procs, attested, faults>>

(* The way back from authority: the database is deleted and made anew.     *)
NewStore ==
  /\ Counted
  /\ \A x \in Procs : procs[x].pc = "idle"
  /\ rows' = NoEntries /\ hist' = [i \in Ids |-> [f \in Fps |-> NoRow]]
  /\ syncs' = [p \in Paths |-> Nothing] /\ authority' = Nothing
  /\ UNCHANGED <<disk, procs, attested, faults>>

(* A command is killed, or fails, between two of its steps.                *)
Kill(x) == /\ procs[x].pc # "idle" /\ Fault
           /\ Step(x, Idle)
           /\ UNCHANGED <<store, disk, attested, commands>>

Commands(x) ==
  \/ \E p \in Paths :
       \/ \E force \in BOOLEAN : SyncRead(x, p, force)
       \/ \E include, overwrite \in BOOLEAN : Export(x, p, include, overwrite)
       \/ \E expected \in {Nothing} \cup 0..Cardinality(Ids) : Switch(x, p, expected)
       \/ LegacyStart(x, p)
  \/ \E texts \in [Ids -> Txts \cup {Nothing}] : Seed(x, texts)
  \/ \E texts \in [Current -> Txts] :
       Verify(x, texts) \/ \E override \in BOOLEAN : AdoptCheck(x, texts, override)
  \/ \E i \in Ids, t \in Txts, review \in Remote : PullRemote(x, i, t, review)

Steps(x) ==
  \/ SyncCheck(x) \/ SyncShadow(x) \/ SyncRestore(x) \/ SyncRecord(x)
  \/ ExportSidecar(x) \/ AdoptWrite(x) \/ AdoptReport(x) \/ SwitchCommit(x)
  \/ \E file \in Snapshots : LegacySave(x, file)

Next == \/ \E x \in Procs : Commands(x) \/ Steps(x) \/ Kill(x)
        \/ \E p \in Paths, file \in Snapshots : EditFile(p, file)
        \/ NewStore

Spec == Init /\ [][Next]_vars

(******************************** properties *******************************)
(* Every table, file and command is of the kind its code keeps.            *)
TypeOK ==
  /\ rows \in Tables /\ hist \in Histories
  /\ \A p \in Paths :
       /\ syncs[p] # Nothing => /\ syncs[p].file \in Snapshots
                                /\ syncs[p].count \in 0..Cardinality(Ids)
       /\ files[p] \in Snapshots \cup {Nothing}
       /\ sidecars[p] # Nothing => /\ sidecars[p].export \in Snapshots
                                   /\ sidecars[p].marks \in Tables
  /\ baselines \subseteq {"data_baseline", "behavior_baseline"}
  /\ attested \subseteq Ids \X Fps \X Txts
  /\ commands \in 0..MaxCommands /\ faults \in 0..MaxFaults
  /\ \A x \in Procs : procs[x].pc \in {"idle", "check", "shadow", "restore", "record",
                                        "sidecar", "adopt", "report", "switch", "legacy"}

(* A row that is formal or human holds a text a human vouched for at that  *)
(* coordinate: no export, hand edit and import puts the mark on another.   *)
MarksAreEarned ==
  \A i \in Present(rows) :
    rows[i].formal \/ rows[i].human => <<i, rows[i].fp, rows[i].txt>> \in attested

(* Nothing but a new database takes the marks of a row: neither a shadow   *)
(* nor what a sidecar restores displaces a formal or human row by less.    *)
ProtectionKept ==
  [][rows' = NoEntries \/
     \A i \in Present(rows) :
       /\ rows[i].formal => rows'[i] # NoRow /\ rows'[i].formal
       /\ rows[i].human => rows'[i] # NoRow /\ rows'[i].human]_vars

(* A file whose digest is recorded needs no synchronisation (tm-sync-legacy*)
(* skips it, the switch takes it for the final one): between commands the  *)
(* shadow rows are that file's.                                            *)
SkippedIsCurrent ==
  (\A x \in Procs : procs[x].pc = "idle") =>
    \A p \in Paths : syncs[p] # Nothing /\ files[p] = syncs[p].file =>
      \A i \in Ids : IsShadow(rows[i]) => files[p][i] = [fp |-> rows[i].fp, txt |-> rows[i].txt]

(* The same as long as no command was killed between its transactions.     *)
SkippedIsCurrentUnlessKilled == faults = 0 => SkippedIsCurrent

(* The switch is one-way: from then on, until the database is made anew,   *)
(* its evidence stands and a legacy row only gives way to a human's.       *)
AuthorityHolds ==
  [][authority # Nothing =>
       \/ rows' = NoEntries /\ authority' = Nothing
       \/ /\ authority' = authority
          /\ \A i \in Ids : IsShadow(rows[i]) /\ rows'[i] # rows[i] =>
                rows'[i] # NoRow /\ rows'[i].human]_vars

(* An export and its sidecar, read back, protect as before: the marks of   *)
(* human and formal rows return, and what lookup would not use (suspect,   *)
(* quarantined) does not come back usable.                                 *)
RoundTrip ==
  [][\A p \in Paths :
       sidecars'[p] # sidecars[p] /\ files[p] = sidecars'[p].export =>
         LET back == Imported(files[p], sidecars'[p].marks) IN
         \A i \in Listed(files[p]) :
           /\ back[i].human = rows[i].human /\ back[i].formal = rows[i].formal
           /\ Usable(back[i]) => Usable(rows[i])]_vars
==============================================================================
