------------------------- MODULE TMAuthorityProofs -------------------------
(***************************************************************************)
(* What the way from history_tm.json to SQLite keeps, for any coordinates, *)
(* texts, files, commands, kills and hand edits.                           *)
(*                                                                         *)
(* Marks: the only rows that are human or formal are written by Attest, or *)
(* come back from a sidecar, whose digest binds it to the file it was      *)
(* exported with (GoodSidecar).  Without overlapping commands nothing can  *)
(* happen between two steps of one command but kills and hand edits        *)
(* (AloneInv).                                                             *)
(*                                                                         *)
(* Digests: with one file and no overlap, the entries a synchronisation    *)
(* carries are of the file it read (TakenInv), and the shadow rows are of  *)
(* that file or, between synchronisations, of the recorded one             *)
(* (CurrentInv).                                                           *)
(***************************************************************************)
EXTENDS TMAuthority, FiniteSetTheorems, TLAPS

(******************************** invariant ********************************)
\* A row, with A what humans vouched for.
GoodRow(i, row, A) ==
  /\ row.human <=> row.origin # "legacy"
  /\ row.formal => row.human
  /\ row.human => <<i, row.fp, row.txt>> \in A
  /\ row.origin = "legacy" => row.review \notin {"checked", "hidden"}
  /\ row.origin = "legacy" /\ row.review = "unreviewed" => row.quality = "passed"
  /\ row.origin = "legacy" /\ row.review = "quarantined" => <<i, row.txt>> \in Bad

GoodTable(t, A) == t \in Tables /\ \A i \in Ids : t[i] # NoRow => GoodRow(i, t[i], A)

\* Entries that Attest may write: decisions of humans.
Attestable(es) ==
  es \in Tables /\ \A i \in Ids : es[i] # NoRow => es[i].human /\ es[i].origin # "legacy"

\* The marks of a sidecar are of the texts of its export.
GoodSidecar(export, marks, A) ==
  /\ export \in Snapshots /\ GoodTable(marks, A)
  /\ \A i \in Ids : marks[i] # NoRow => export[i] = [fp |-> marks[i].fp, txt |-> marks[i].txt]

Sidecars == [export : Snapshots, marks : Tables]
SyncStates == [pc : {"shadow", "restore", "record"}, path : Paths, file : Snapshots, entries : Tables]

GoodState(s, A) ==
  /\ s.pc = "check" => s.path \in Paths /\ s.file \in Snapshots
  /\ s.pc \in {"shadow", "restore", "record"} => s \in SyncStates /\ GoodTable(s.entries, A)
  /\ s.pc = "sidecar" => s.path \in Paths /\ GoodSidecar(s.export, s.marks, A)
  /\ s.pc = "adopt" => Attestable(s.entries)
  /\ s.pc = "legacy" => s.path \in Paths

Inv ==
  /\ GoodTable(rows, attested)
  /\ files \in [Paths -> Snapshots \cup {Nothing}]
  /\ sidecars \in [Paths -> Sidecars \cup {Nothing}]
  /\ \A p \in Paths : sidecars[p] # Nothing => GoodSidecar(sidecars[p].export, sidecars[p].marks, attested)
  /\ procs = [x \in Procs |-> procs[x]]
  /\ \A x \in Procs : GoodState(procs[x], attested)

\* What an export without overlap knows of the rows until its sidecar is written.
Faithful(t, export, marks) ==
  \A i \in Ids : export[i] # Nothing =>
    /\ t[i] # NoRow /\ export[i] = [fp |-> t[i].fp, txt |-> t[i].txt]
    /\ marks[i] = IF Protected(t[i]) THEN [t[i] EXCEPT !.run = NoRun] ELSE NoRow

AloneInv ==
  /\ \A x, y \in Procs : procs[x].pc # "idle" /\ procs[y].pc # "idle" => x = y
  /\ \A x \in Procs : procs[x].pc \in {"shadow", "restore", "switch"} => authority = Nothing
  /\ \A x \in Procs : procs[x].pc = "sidecar" => Faithful(rows, procs[x].export, procs[x].marks)
------------------------------------------------------------------------------
(* Tables.                                                                   *)

LEMMA RowShapes ==
  ASSUME NEW f \in Fps, NEW t \in Txts
  PROVE  /\ HumanRow(f, t) \in Rows /\ HumanRow(f, t).human /\ HumanRow(f, t).origin = "human"
         /\ \A l \in RemoteReviews :
              /\ RemoteRow(f, t, l) \in Rows /\ RemoteRow(f, t, l).human
              /\ RemoteRow(f, t, l).origin = "paratranz"
         /\ \A c \in BOOLEAN :
              /\ LegacyRow(f, t, c) \in Rows
              /\ [LegacyRow(f, t, c) EXCEPT !.review = "suspect"] \in Rows
<1>1. HumanRow(f, t) \in Rows /\ HumanRow(f, t).human /\ HumanRow(f, t).origin = "human"
  BY NoRunIsNotARun DEF HumanRow, Rows, Origins, Reviews, RemoteReviews
<1>2. ASSUME NEW l \in RemoteReviews
      PROVE  /\ RemoteRow(f, t, l) \in Rows /\ RemoteRow(f, t, l).human
             /\ RemoteRow(f, t, l).origin = "paratranz"
  <2>1. CASE l \in {"checked", "reviewed", "locked"}
    BY <2>1 DEF RemoteRow, Rows, Origins, Reviews
  <2>2. CASE l \notin {"checked", "reviewed", "locked"}
    BY <2>2 DEF RemoteRow, Rows, Origins, Reviews
  <2>. QED  BY <2>1, <2>2
<1>3. ASSUME NEW c \in BOOLEAN
      PROVE  /\ LegacyRow(f, t, c) \in Rows
             /\ [LegacyRow(f, t, c) EXCEPT !.review = "suspect"] \in Rows
  BY DEF LegacyRow, Rows, Origins, Reviews, RemoteReviews
<1>. QED  BY <1>1, <1>2, <1>3

LEMMA TableFacts ==
  ASSUME NEW t \in Tables
  PROVE  /\ \A i \in Ids : t[i] # NoRow => t[i] \in Rows /\ t[i].fp \in Fps /\ t[i].txt \in Txts
         /\ Present(t) = {i \in Ids : t[i] # NoRow}
BY DEF Tables, Rows, Present

\* What humans vouch for later spoils nothing.
LEMMA MoreAttested ==
  ASSUME NEW A, NEW B, A \subseteq B
  PROVE  /\ \A t : GoodTable(t, A) => GoodTable(t, B)
         /\ \A e, m : GoodSidecar(e, m, A) => GoodSidecar(e, m, B)
         /\ \A s : GoodState(s, A) => GoodState(s, B)
<1>1. \A i, row : GoodRow(i, row, A) => GoodRow(i, row, B)
  BY DEF GoodRow
<1>2. \A t : GoodTable(t, A) => GoodTable(t, B)
  BY <1>1 DEF GoodTable
<1>3. \A e, m : GoodSidecar(e, m, A) => GoodSidecar(e, m, B)
  BY <1>2 DEF GoodSidecar
<1>. QED  BY <1>2, <1>3 DEF GoodState

LEMMA NoEntriesGood ==
  ASSUME NEW A
  PROVE  GoodTable(NoEntries, A) /\ \A i \in Ids : NoEntries[i] = NoRow
BY DEF GoodTable, NoEntries, Tables

LEMMA RestrictedGood ==
  ASSUME NEW A, NEW t, NEW D, GoodTable(t, A) PROVE GoodTable(Restricted(t, D), A)
BY DEF GoodTable, Restricted, Tables

LEMMA UpsertedGood ==
  ASSUME NEW A, NEW t, NEW es, GoodTable(t, A), GoodTable(es, A) PROVE GoodTable(Upserted(t, es), A)
BY DEF GoodTable, Upserted, Tables

LEMMA ShadowGood ==
  ASSUME NEW A, NEW t, NEW es, GoodTable(t, A), GoodTable(es, A) PROVE GoodTable(ShadowReplaced(t, es), A)
BY DEF GoodTable, ShadowReplaced, Tables

\* What a human vouches for is written where the guard lets it pass.
LEMMA AttestGood ==
  ASSUME GoodTable(rows, attested), NEW es, Attestable(es), Attest(es)
  PROVE  GoodTable(rows', attested') /\ attested \subseteq attested'
<1>1. attested \subseteq attested'
  BY DEF Attest
<1>2. GoodTable(rows, attested')
  BY <1>1, MoreAttested
<1>3. ASSUME NEW i \in Ids, Upserted(rows, es)[i] # NoRow
      PROVE  GoodRow(i, Upserted(rows, es)[i], attested')
  <2>1. CASE es[i] # NoRow /\ Admitted(rows, i, es[i])
    <3>1. <<i, es[i].fp, es[i].txt>> \in attested'
      BY <2>1 DEF Attest, Present
    <3>2. GoodRow(i, es[i], attested')
      BY <2>1, <3>1 DEF GoodRow, Attestable
    <3>. QED  BY <2>1, <3>2 DEF Upserted
  <2>2. CASE ~(es[i] # NoRow /\ Admitted(rows, i, es[i]))
    BY <1>2, <1>3, <2>2 DEF GoodTable, Upserted
  <2>. QED  BY <2>1, <2>2
<1>4. Upserted(rows, es) \in Tables
  BY DEF GoodTable, Attestable, Upserted, Tables
<1>. QED  BY <1>1, <1>3, <1>4 DEF GoodTable, Attest

LEMMA ClassifiedGood ==
  ASSUME NEW A, NEW file \in Snapshots, NEW i \in Ids, file[i] # Nothing
  PROVE  /\ Classified(file, i) \in Rows /\ GoodRow(i, Classified(file, i), A)
         /\ Classified(file, i).origin = "legacy" /\ ~Classified(file, i).human
         /\ ~Classified(file, i).formal
         /\ Usable(Classified(file, i)) => Clean(file, i)
<1>. DEFINE c == Clean(file, i) /\ ~Conflict(file, i)
            row == LegacyRow(file[i].fp, file[i].txt, c)
<1>1. file[i].fp \in Fps /\ file[i].txt \in Txts
  BY DEF Snapshots, Entries
<1>2. c \in BOOLEAN
  BY DEF Clean, Conflict
<1>3. row \in Rows /\ [row EXCEPT !.review = "suspect"] \in Rows
  BY <1>1, <1>2, RowShapes
<1>4. /\ row.fp = file[i].fp /\ row.txt = file[i].txt /\ row.origin = "legacy" /\ ~row.human /\ ~row.formal
      /\ row.review = (IF c THEN "unreviewed" ELSE "quarantined")
      /\ row.quality = (IF c THEN "passed" ELSE "failed")
  BY DEF LegacyRow
<1>. HIDE DEF row
<1>5. CASE Clean(file, i) /\ Conflict(file, i)
  <2>1. Classified(file, i) = [row EXCEPT !.review = "suspect"]
    BY <1>5 DEF Classified, row
  <2>2. /\ [row EXCEPT !.review = "suspect"].origin = "legacy"
        /\ ~[row EXCEPT !.review = "suspect"].human /\ ~[row EXCEPT !.review = "suspect"].formal
        /\ [row EXCEPT !.review = "suspect"].review = "suspect"
    BY <1>3, <1>4 DEF Rows
  <2>. QED  BY <1>3, <2>1, <2>2, <1>5 DEF GoodRow
<1>6. CASE ~(Clean(file, i) /\ Conflict(file, i))
  <2>1. Classified(file, i) = row
    BY <1>6 DEF Classified, row
  <2>2. ~c => <<i, row.txt>> \in Bad
    BY <1>4, <1>6 DEF Clean
  <2>3. GoodRow(i, row, A)
    BY <1>4, <2>2 DEF GoodRow
  <2>4. Usable(row) => Clean(file, i)
    BY <1>4 DEF Usable
  <2>. QED  BY <1>3, <1>4, <2>1, <2>3, <2>4
<1>. QED  BY <1>5, <1>6

\* A mark of a bound sidecar comes back as it was.
LEMMA BoundMark ==
  ASSUME NEW row \in Rows, NEW e, e = [fp |-> row.fp, txt |-> row.txt]
  PROVE  [row EXCEPT !.fp = e.fp, !.txt = e.txt] = row
<1>1. e.fp = row.fp /\ e.txt = row.txt
  OBVIOUS
<1>2. [row EXCEPT !.fp = row.fp, !.txt = row.txt] = row
  BY DEF Rows
<1>. QED  BY <1>1, <1>2

LEMMA ImportedGood ==
  ASSUME NEW A, NEW file, NEW marks, GoodSidecar(file, marks, A)
  PROVE  /\ GoodTable(Imported(file, marks), A)
         /\ \A i \in Ids : file[i] # Nothing =>
              Imported(file, marks)[i] = IF marks[i] = NoRow THEN Classified(file, i) ELSE marks[i]
<1>1. file \in Snapshots /\ marks \in Tables /\ GoodTable(marks, A)
  BY DEF GoodSidecar, GoodTable
<1>2. ASSUME NEW i \in Ids, file[i] # Nothing
      PROVE  Imported(file, marks)[i] = IF marks[i] = NoRow THEN Classified(file, i) ELSE marks[i]
  <2>1. CASE marks[i] = NoRow
    BY <1>2, <2>1 DEF Imported
  <2>2. CASE marks[i] # NoRow
    <3>1. Imported(file, marks)[i] = [marks[i] EXCEPT !.fp = file[i].fp, !.txt = file[i].txt]
      BY <1>2, <2>2 DEF Imported
    <3>2. marks[i] \in Rows /\ file[i] = [fp |-> marks[i].fp, txt |-> marks[i].txt]
      BY <1>1, <2>2, TableFacts DEF GoodSidecar
    <3>. QED  BY <2>2, <3>1, <3>2, BoundMark
  <2>. QED  BY <2>1, <2>2
<1>3. ASSUME NEW i \in Ids
      PROVE  /\ Imported(file, marks)[i] \in Rows \cup {NoRow}
             /\ Imported(file, marks)[i] # NoRow => GoodRow(i, Imported(file, marks)[i], A)
  <2>1. CASE file[i] = Nothing
    BY <2>1 DEF Imported
  <2>2. CASE file[i] # Nothing /\ marks[i] = NoRow
    BY <1>1, <1>2, <2>2, ClassifiedGood
  <2>3. CASE file[i] # Nothing /\ marks[i] # NoRow
    BY <1>1, <1>2, <2>3, TableFacts DEF GoodTable
  <2>. QED  BY <2>1, <2>2, <2>3
<1>4. Imported(file, marks) \in Tables
  BY <1>3 DEF Imported, Tables
<1>. QED  BY <1>2, <1>3, <1>4 DEF GoodTable

(********************************* each step *******************************)
LEMMA IdleState == ASSUME NEW A PROVE GoodState(Idle, A) /\ Idle.pc = "idle"
BY DEF GoodState, Idle

LEMMA StepFacts ==
  ASSUME Inv, NEW x \in Procs, NEW s, Step(x, s)
  PROVE  /\ procs' = [y \in Procs |-> procs'[y]] /\ procs'[x] = s
         /\ \A y \in Procs \ {x} : procs'[y] = procs[y]
<1>. DEFINE Q == {procs[y] : y \in Procs} \cup {s}
<1>1. procs \in [Procs -> Q] /\ s \in Q
  BY DEF Inv
<1>. HIDE DEF Q
<1>. QED  BY <1>1 DEF Step

\* The rows stay good, and the files as they are.
Keeps ==
  /\ GoodTable(rows', attested') /\ attested \subseteq attested'
  /\ UNCHANGED <<files, sidecars>>

LEMMA KeepsSidecars ==
  ASSUME Inv, Keeps
  PROVE  /\ files' \in [Paths -> Snapshots \cup {Nothing}]
         /\ sidecars' \in [Paths -> Sidecars \cup {Nothing}]
         /\ \A p \in Paths : sidecars'[p] # Nothing =>
              GoodSidecar(sidecars'[p].export, sidecars'[p].marks, attested')
BY MoreAttested DEF Inv, Keeps

LEMMA StepKeeps ==
  ASSUME Inv, NEW x \in Procs, NEW s, Step(x, s), GoodState(s, attested'), Keeps
  PROVE  Inv'
<1>1. \A y \in Procs : GoodState(procs'[y], attested')
  BY StepFacts, MoreAttested DEF Inv, Keeps
<1>. QED  BY <1>1, StepFacts, KeepsSidecars DEF Inv, Keeps

LEMMA AtRestKeeps == ASSUME Inv, UNCHANGED procs, Keeps PROVE Inv'
<1>1. \A y \in Procs : GoodState(procs[y], attested')
  BY MoreAttested DEF Inv, Keeps
<1>. QED  BY <1>1, KeepsSidecars DEF Inv, Keeps

LEMMA RowsSame == ASSUME Inv, UNCHANGED <<rows, attested, files, sidecars>> PROVE Keeps
BY DEF Inv, Keeps

LEMMA SyncReadKeeps ==
  ASSUME Inv, NEW x \in Procs, NEW p \in Paths, NEW force \in BOOLEAN, SyncRead(x, p, force) PROVE Inv'
<1>. DEFINE s == [pc |-> "check", path |-> p, file |-> files[p]]
<1>1. files[p] \in Snapshots
  BY DEF Inv, SyncRead
<1>2. GoodState(s, attested')
  BY <1>1 DEF GoodState
<1>. QED  BY <1>2, RowsSame, StepKeeps DEF SyncRead, store, disk

\* The marks the sidecar gives a file, when it gives any, are bound to it.
LEMMA ProvenanceGood ==
  ASSUME Inv, NEW p \in Paths, NEW file \in Snapshots, Provenance(p, file) # Nothing
  PROVE  GoodSidecar(file, Provenance(p, file), attested)
<1>1. CASE sidecars[p] = Nothing
  BY <1>1, NoEntriesGood DEF Provenance, GoodSidecar
<1>2. CASE sidecars[p] # Nothing
  BY <1>2 DEF Provenance, Inv
<1>. QED  BY <1>1, <1>2

LEMMA SyncCheckKeeps == ASSUME Inv, NEW x \in Procs, SyncCheck(x) PROVE Inv'
<1>. DEFINE me == procs[x]
            marks == Provenance(me.path, me.file)
            s == [pc |-> "shadow", path |-> me.path, file |-> me.file, entries |-> Imported(me.file, marks)]
<1>1. me.path \in Paths /\ me.file \in Snapshots
  BY DEF SyncCheck, Inv, GoodState
<1>2. Keeps /\ attested' = attested
  BY RowsSame DEF SyncCheck, store, disk
<1>3. CASE Step(x, Idle)
  BY <1>2, <1>3, IdleState, StepKeeps
<1>4. CASE marks # Nothing /\ Step(x, s)
  <2>1. GoodTable(Imported(me.file, marks), attested)
    BY <1>1, <1>4, ProvenanceGood, ImportedGood
  <2>2. s \in SyncStates /\ s.pc = "shadow" /\ s.entries = Imported(me.file, marks)
    BY <1>1, <2>1 DEF SyncStates, GoodTable
  <2>. HIDE DEF s
  <2>3. GoodState(s, attested')
    BY <1>2, <2>1, <2>2 DEF GoodState
  <2>. QED  BY <1>2, <1>4, <2>3, StepKeeps
<1>. QED  BY <1>3, <1>4 DEF SyncCheck

LEMMA SyncFacts ==
  ASSUME Inv, NEW x \in Procs, procs[x].pc \in {"shadow", "restore", "record"}
  PROVE  /\ procs[x] \in SyncStates /\ GoodTable(procs[x].entries, attested)
         /\ \A D : GoodTable(Restricted(procs[x].entries, D), attested)
BY RestrictedGood DEF Inv, GoodState

LEMMA NextSyncState ==
  ASSUME Inv, NEW x \in Procs, procs[x].pc \in {"shadow", "restore", "record"},
         NEW pc \in {"restore", "record"}
  PROVE  GoodState([procs[x] EXCEPT !.pc = pc], attested)
<1>. DEFINE s == [procs[x] EXCEPT !.pc = pc]
<1>1. procs[x] \in SyncStates /\ GoodTable(procs[x].entries, attested)
  BY SyncFacts
<1>2. s \in SyncStates /\ s.pc = pc /\ s.entries = procs[x].entries
  BY <1>1 DEF SyncStates
<1>. HIDE DEF s
<1>3. GoodState(s, attested)
  BY <1>1, <1>2 DEF GoodState
<1>. QED  BY <1>3 DEF s

LEMMA SyncShadowKeeps == ASSUME Inv, NEW x \in Procs, SyncShadow(x) PROVE Inv'
<1>1. procs[x].pc = "shadow" /\ Step(x, [procs[x] EXCEPT !.pc = "restore"])
      /\ UNCHANGED <<files, sidecars, attested>>
  BY DEF SyncShadow, disk
<1>2. GoodTable(rows', attested)
  BY <1>1, SyncFacts, ShadowGood DEF SyncShadow, Inv
<1>3. GoodState([procs[x] EXCEPT !.pc = "restore"], attested')
  BY <1>1, NextSyncState
<1>4. Keeps
  BY <1>1, <1>2 DEF Keeps
<1>. QED  BY <1>1, <1>3, <1>4, StepKeeps

LEMMA SyncRestoreKeeps == ASSUME Inv, NEW x \in Procs, SyncRestore(x) PROVE Inv'
<1>1. procs[x].pc = "restore" /\ Step(x, [procs[x] EXCEPT !.pc = "record"])
      /\ UNCHANGED <<files, sidecars, attested>>
  BY DEF SyncRestore, disk
<1>2. GoodTable(rows', attested)
  BY <1>1, SyncFacts, UpsertedGood DEF SyncRestore, Inv
<1>3. GoodState([procs[x] EXCEPT !.pc = "record"], attested')
  BY <1>1, NextSyncState
<1>4. Keeps
  BY <1>1, <1>2 DEF Keeps
<1>. QED  BY <1>1, <1>3, <1>4, StepKeeps
\* A step that ends a command, or starts one without entries.
LEMMA EndKeeps ==
  ASSUME Inv, NEW x \in Procs, NEW s, Step(x, s), s.pc \in {"idle", "report", "switch"},
         UNCHANGED <<rows, attested, files, sidecars>>
  PROVE  Inv'
<1>1. GoodState(s, attested')
  BY DEF GoodState
<1>. QED  BY <1>1, RowsSame, StepKeeps

LEMMA OtherKeeps ==
  ASSUME Inv, NEW x \in Procs,
         \/ SyncRecord(x) \/ AdoptReport(x) \/ SwitchCommit(x) \/ Kill(x)
         \/ \E p \in Paths, e \in {Nothing} \cup 0..Cardinality(Ids) : Switch(x, p, e)
  PROVE  Inv'
<1>1. Idle.pc = "idle"
  BY DEF Idle
<1>2. CASE SyncRecord(x) \/ AdoptReport(x) \/ SwitchCommit(x) \/ Kill(x)
  BY <1>1, <1>2, EndKeeps DEF SyncRecord, AdoptReport, SwitchCommit, Kill, store, disk
<1>3. ASSUME NEW p \in Paths, NEW e, Switch(x, p, e) PROVE Inv'
  <2>. DEFINE s == [pc |-> "switch", evidence |-> [path |-> p, legacy |-> LegacyCount, declared |-> Declared]]
  <2>1. s.pc = "switch"
    OBVIOUS
  <2>2. Step(x, s) /\ UNCHANGED <<rows, attested, files, sidecars>>
    BY <1>3 DEF Switch, store, disk
  <2>. HIDE DEF s
  <2>. QED  BY <2>1, <2>2, EndKeeps
<1>. QED  BY <1>2, <1>3

------------------------------------------------------------------------------
(* Exports.                                                                  *)
ExportFile(include) ==
  [i \in Ids |-> IF i \in Exported(include) THEN [fp |-> rows[i].fp, txt |-> rows[i].txt] ELSE Nothing]
ExportKept(include) == {i \in Exported(include) : Protected(rows[i])}
ExportMarks(include) ==
  [i \in Ids |-> IF i \in ExportKept(include) THEN [rows[i] EXCEPT !.run = NoRun] ELSE NoRow]

LEMMA ExportGood ==
  ASSUME Inv, NEW include \in BOOLEAN
  PROVE  /\ GoodSidecar(ExportFile(include), ExportMarks(include), attested)
         /\ Faithful(rows, ExportFile(include), ExportMarks(include))
<1>. DEFINE file == ExportFile(include)
            marks == ExportMarks(include)
<1>1. rows \in Tables /\ \A i \in Ids : rows[i] # NoRow => GoodRow(i, rows[i], attested)
  BY DEF Inv, GoodTable
<1>2. Exported(include) \subseteq {i \in Ids : rows[i] # NoRow}
  BY DEF Exported, Present
<1>3. ASSUME NEW i \in Ids
      PROVE  /\ i \in Exported(include) => file[i] = [fp |-> rows[i].fp, txt |-> rows[i].txt]
             /\ i \notin Exported(include) => file[i] = Nothing
  BY DEF ExportFile
<1>4. file \in Snapshots
  <2>1. \A i \in Exported(include) : [fp |-> rows[i].fp, txt |-> rows[i].txt] \in Entries
    BY <1>1, <1>2, TableFacts DEF Entries
  <2>. QED  BY <2>1 DEF ExportFile, Snapshots
<1>5. ASSUME NEW row \in Rows
      PROVE  LET m == [row EXCEPT !.run = NoRun] IN
             /\ m \in Rows /\ m.fp = row.fp /\ m.txt = row.txt /\ m.human = row.human /\ m.formal = row.formal
             /\ m.origin = row.origin /\ m.review = row.review /\ m.quality = row.quality
  BY DEF Rows
<1>6. ASSUME NEW i \in Ids
      PROVE  /\ i \in ExportKept(include) => marks[i] = [rows[i] EXCEPT !.run = NoRun]
             /\ i \notin ExportKept(include) => marks[i] = NoRow
  BY DEF ExportMarks
<1>7. ExportKept(include) \subseteq Exported(include)
  BY DEF ExportKept
<1>8. ASSUME NEW i \in ExportKept(include)
      PROVE  /\ i \in Ids /\ marks[i] \in Rows /\ GoodRow(i, marks[i], attested)
             /\ marks[i].fp = rows[i].fp /\ marks[i].txt = rows[i].txt
  <2>1. i \in Ids /\ rows[i] # NoRow /\ rows[i] \in Rows
    BY <1>1, <1>2, <1>7, TableFacts
  <2>2. GoodRow(i, rows[i], attested)
    BY <1>1, <2>1
  <2>. QED  BY <1>5, <1>6, <2>1, <2>2 DEF GoodRow
<1>9. GoodTable(marks, attested)
  <2>1. \A i \in Ids : marks[i] \in Rows \cup {NoRow}
    BY <1>6, <1>8
  <2>2. marks = [i \in Ids |-> marks[i]]
    BY DEF ExportMarks
  <2>3. marks \in Tables
    <3>. HIDE DEF marks
    <3>. QED  BY <2>1, <2>2 DEF Tables
  <2>. QED  BY <1>6, <1>8, <2>3 DEF GoodTable
<1>10. \A i \in Ids : marks[i] # NoRow => file[i] = [fp |-> marks[i].fp, txt |-> marks[i].txt]
  BY <1>3, <1>6, <1>7, <1>8
<1>11. Faithful(rows, file, marks)
  <2>1. \A i \in Exported(include) : i \in ExportKept(include) <=> Protected(rows[i])
    BY DEF ExportKept
  <2>. QED  BY <1>2, <1>3, <1>6, <2>1 DEF Faithful
<1>. QED  BY <1>4, <1>9, <1>10, <1>11 DEF GoodSidecar

SidecarState(p, include) ==
  [pc |-> "sidecar", path |-> p, export |-> ExportFile(include), marks |-> ExportMarks(include)]

LEMMA ExportStep ==
  ASSUME NEW x \in Procs, NEW p \in Paths, NEW include \in BOOLEAN, NEW overwrite \in BOOLEAN,
         Export(x, p, include, overwrite)
  PROVE  /\ files' = [files EXCEPT ![p] = ExportFile(include)]
         /\ Step(x, Idle) \/ Step(x, SidecarState(p, include))
         /\ UNCHANGED <<rows, hist, syncs, authority, sidecars, baselines, attested>> /\ Start(x)
BY DEF Export, ExportFile, ExportKept, ExportMarks, SidecarState, store

\* The files change, nothing else that Inv speaks of does.
LEMMA FilesKeep ==
  ASSUME Inv, NEW p \in Paths, NEW file \in Snapshots, files' = [files EXCEPT ![p] = file],
         UNCHANGED <<rows, attested, sidecars>>, procs' = [y \in Procs |-> procs'[y]],
         \A y \in Procs : GoodState(procs'[y], attested)
  PROVE  Inv'
<1>1. files' \in [Paths -> Snapshots \cup {Nothing}]
  BY DEF Inv
<1>. QED  BY <1>1 DEF Inv

LEMMA ExportKeeps ==
  ASSUME Inv, NEW x \in Procs, NEW p \in Paths, NEW include \in BOOLEAN, NEW overwrite \in BOOLEAN,
         Export(x, p, include, overwrite)
  PROVE  Inv'
<1>1. GoodSidecar(ExportFile(include), ExportMarks(include), attested)
  BY ExportGood
<1>2. GoodState(SidecarState(p, include), attested) /\ GoodState(Idle, attested)
  BY <1>1, IdleState DEF GoodState, SidecarState
<1>3. \A y \in Procs : GoodState(procs'[y], attested)
  BY <1>2, ExportStep, StepFacts DEF Inv
<1>4. procs' = [y \in Procs |-> procs'[y]]
  BY ExportStep, StepFacts
<1>5. ExportFile(include) \in Snapshots
  BY <1>1 DEF GoodSidecar
<1>. QED  BY <1>3, <1>4, <1>5, ExportStep, FilesKeep

LEMMA ExportSidecarKeeps == ASSUME Inv, NEW x \in Procs, ExportSidecar(x) PROVE Inv'
<1>. DEFINE me == procs[x]
<1>1. /\ me.path \in Paths /\ GoodSidecar(me.export, me.marks, attested)
      /\ sidecars' = [sidecars EXCEPT ![me.path] = [export |-> me.export, marks |-> me.marks]]
      /\ Step(x, Idle) /\ UNCHANGED <<rows, attested, files>>
  BY DEF ExportSidecar, Inv, GoodState, store
<1>2. [export |-> me.export, marks |-> me.marks] \in Sidecars
  BY <1>1 DEF GoodSidecar, GoodTable, Sidecars
<1>. HIDE DEF me
<1>3. sidecars' \in [Paths -> Sidecars \cup {Nothing}]
  BY <1>1, <1>2 DEF Inv
<1>4. \A p \in Paths : sidecars'[p] # Nothing =>
       GoodSidecar(sidecars'[p].export, sidecars'[p].marks, attested)
  BY <1>1, <1>2 DEF Inv
<1>5. procs' = [y \in Procs |-> procs'[y]] /\ \A y \in Procs : GoodState(procs'[y], attested)
  BY <1>1, StepFacts, IdleState DEF Inv
<1>. QED  BY <1>1, <1>3, <1>4, <1>5 DEF Inv

LEMMA LegacyKeeps ==
  ASSUME Inv, NEW x \in Procs,
         (\E p \in Paths : LegacyStart(x, p)) \/ (\E file \in Snapshots : LegacySave(x, file))
  PROVE  Inv'
<1>1. ASSUME NEW p \in Paths, LegacyStart(x, p) PROVE Inv'
  <2>1. GoodState([pc |-> "legacy", path |-> p], attested)
    BY DEF GoodState
  <2>. QED  BY <1>1, <2>1, RowsSame, StepKeeps DEF LegacyStart, store, disk
<1>2. ASSUME NEW file \in Snapshots, LegacySave(x, file) PROVE Inv'
  <2>1. procs[x].path \in Paths /\ files' = [files EXCEPT ![procs[x].path] = file]
        /\ Step(x, Idle) /\ UNCHANGED <<rows, attested, sidecars>>
    BY <1>2 DEF LegacySave, Inv, GoodState, store
  <2>2. procs' = [y \in Procs |-> procs'[y]] /\ \A y \in Procs : GoodState(procs'[y], attested)
    BY <2>1, StepFacts, IdleState DEF Inv
  <2>. QED  BY <2>1, <2>2, FilesKeep
<1>. QED  BY <1>1, <1>2

LEMMA EnvironmentKeeps ==
  ASSUME Inv, NewStore \/ \E p \in Paths, file \in Snapshots : EditFile(p, file) PROVE Inv'
<1>1. CASE NewStore
  <2>1. rows' = NoEntries /\ UNCHANGED <<attested, files, sidecars, procs>>
    BY <1>1 DEF NewStore, disk
  <2>2. GoodTable(NoEntries, attested)
    BY NoEntriesGood
  <2>. QED  BY <2>1, <2>2, AtRestKeeps DEF Keeps
<1>2. ASSUME NEW p \in Paths, NEW file \in Snapshots, EditFile(p, file) PROVE Inv'
  BY <1>2, FilesKeep DEF EditFile, store, Inv
<1>. QED  BY <1>1, <1>2

------------------------------------------------------------------------------
(* What humans decide.                                                       *)
SeedEntries(texts) ==
  [i \in Ids |-> IF texts[i] = Nothing THEN NoRow ELSE HumanRow(Source[i], texts[i])]
AdoptEntries(texts) ==
  [i \in Ids |-> IF i \in Current THEN HumanRow(Source[i], texts[i]) ELSE NoRow]
RemoteEntries(i, t, review) == Restricted([j \in Ids |-> RemoteRow(Source[j], t, review)], {i})

LEMMA DecisionsAttestable ==
  /\ \A texts \in [Ids -> Txts \cup {Nothing}] : Attestable(SeedEntries(texts))
  /\ \A texts \in [Current -> Txts] : Attestable(AdoptEntries(texts))
  /\ \A i \in Ids, t \in Txts, review \in Remote : Attestable(RemoteEntries(i, t, review))
<1>0. (\A i \in Ids : Source[i] \in Fps) /\ Remote \subseteq RemoteReviews
  BY AuthorityAssumption
<1>1. ASSUME NEW texts \in [Ids -> Txts \cup {Nothing}] PROVE Attestable(SeedEntries(texts))
  <2>1. ASSUME NEW i \in Ids
        PROVE  SeedEntries(texts)[i] = NoRow \/
               /\ SeedEntries(texts)[i] \in Rows /\ SeedEntries(texts)[i].human
               /\ SeedEntries(texts)[i].origin # "legacy"
    <3>1. texts[i] = Nothing \/ texts[i] \in Txts
      OBVIOUS
    <3>2. SeedEntries(texts)[i] = IF texts[i] = Nothing THEN NoRow ELSE HumanRow(Source[i], texts[i])
      BY DEF SeedEntries
    <3>. QED  BY <1>0, <3>1, <3>2, RowShapes
  <2>2. SeedEntries(texts) \in Tables
    BY <2>1 DEF SeedEntries, Tables
  <2>. QED  BY <2>1, <2>2 DEF Attestable
<1>2. ASSUME NEW texts \in [Current -> Txts] PROVE Attestable(AdoptEntries(texts))
  <2>1. ASSUME NEW i \in Ids
        PROVE  AdoptEntries(texts)[i] = NoRow \/
               /\ AdoptEntries(texts)[i] \in Rows /\ AdoptEntries(texts)[i].human
               /\ AdoptEntries(texts)[i].origin # "legacy"
    <3>1. AdoptEntries(texts)[i] = IF i \in Current THEN HumanRow(Source[i], texts[i]) ELSE NoRow
      BY DEF AdoptEntries
    <3>. QED  BY <1>0, <3>1, RowShapes
  <2>2. AdoptEntries(texts) \in Tables
    BY <2>1 DEF AdoptEntries, Tables
  <2>. QED  BY <2>1, <2>2 DEF Attestable
<1>3. ASSUME NEW i \in Ids, NEW t \in Txts, NEW review \in Remote PROVE Attestable(RemoteEntries(i, t, review))
  <2>1. ASSUME NEW j \in Ids
        PROVE  RemoteEntries(i, t, review)[j] = NoRow \/
               /\ RemoteEntries(i, t, review)[j] \in Rows /\ RemoteEntries(i, t, review)[j].human
               /\ RemoteEntries(i, t, review)[j].origin # "legacy"
    <3>1. RemoteEntries(i, t, review)[j] = IF j \in {i} THEN RemoteRow(Source[j], t, review) ELSE NoRow
      BY DEF RemoteEntries, Restricted
    <3>. QED  BY <1>0, <3>1, RowShapes
  <2>2. RemoteEntries(i, t, review) \in Tables
    BY <2>1 DEF RemoteEntries, Restricted, Tables
  <2>. QED  BY <2>1, <2>2 DEF Attestable
<1>. QED  BY <1>1, <1>2, <1>3

\* A step that writes decisions of humans.
Decides == \E es : Attestable(es) /\ Attest(es)

LEMMA DecisionSteps ==
  ASSUME Inv, NEW x \in Procs,
         \/ \E texts \in [Ids -> Txts \cup {Nothing}] : Seed(x, texts)
         \/ \E i \in Ids, t \in Txts, review \in Remote : PullRemote(x, i, t, review)
  PROVE  Decides /\ UNCHANGED <<procs, files, sidecars, authority>>
<1>1. ASSUME NEW texts \in [Ids -> Txts \cup {Nothing}], Seed(x, texts)
      PROVE  Attest(SeedEntries(texts)) /\ UNCHANGED <<procs, files, sidecars, authority>>
  BY <1>1 DEF Seed, SeedEntries, disk
<1>2. ASSUME NEW i \in Ids, NEW t \in Txts, NEW review \in Remote, PullRemote(x, i, t, review)
      PROVE  Attest(RemoteEntries(i, t, review)) /\ UNCHANGED <<procs, files, sidecars, authority>>
  BY <1>2 DEF PullRemote, RemoteEntries, disk
<1>. QED  BY <1>1, <1>2, DecisionsAttestable DEF Decides

LEMMA DecisionKeeps == ASSUME Inv, Decides, UNCHANGED <<files, sidecars>> PROVE Keeps
BY AttestGood DEF Inv, Decides, Keeps

LEMMA AdoptKeeps ==
  ASSUME Inv, NEW x \in Procs,
         \/ \E texts \in [Current -> Txts], override \in BOOLEAN : AdoptCheck(x, texts, override)
         \/ AdoptWrite(x)
         \/ \E texts \in [Current -> Txts] : Verify(x, texts)
  PROVE  Inv'
<1>1. ASSUME NEW texts \in [Current -> Txts], NEW override \in BOOLEAN, AdoptCheck(x, texts, override)
      PROVE  Inv'
  <2>. DEFINE s == [pc |-> "adopt", entries |-> AdoptEntries(texts), override |-> override]
  <2>1. Step(x, s) /\ UNCHANGED <<rows, attested, files, sidecars>>
    BY <1>1 DEF AdoptCheck, AdoptEntries, store, disk
  <2>2. GoodState(s, attested')
    BY DecisionsAttestable DEF GoodState
  <2>. QED  BY <2>1, <2>2, RowsSame, StepKeeps
<1>2. CASE AdoptWrite(x)
  <2>1. Attestable(procs[x].entries) /\ UNCHANGED <<files, sidecars>>
    BY <1>2 DEF AdoptWrite, Inv, GoodState, disk
  <2>2. CASE Step(x, Idle) /\ UNCHANGED <<rows, hist, attested>>
    BY <2>1, <2>2, RowsSame, IdleState, StepKeeps
  <2>3. CASE Attest(procs[x].entries) /\ Step(x, [pc |-> "report"])
    <3>1. Keeps
      BY <2>1, <2>3, DecisionKeeps DEF Decides
    <3>2. GoodState([pc |-> "report"], attested')
      BY DEF GoodState
    <3>. QED  BY <2>3, <3>1, <3>2, StepKeeps
  <2>. QED  BY <1>2, <2>2, <2>3 DEF AdoptWrite
<1>3. ASSUME NEW texts \in [Current -> Txts], Verify(x, texts) PROVE Inv'
  BY <1>3, RowsSame, AtRestKeeps DEF Verify, store
<1>. QED  BY <1>1, <1>2, <1>3

------------------------------------------------------------------------------
(* The whole.                                                                *)

LEMMA InvInit == Init => Inv
<1>. SUFFICES ASSUME Init PROVE Inv
  OBVIOUS
<1>1. GoodTable(rows, attested)
  BY NoEntriesGood DEF Init
<1>2. files \in [Paths -> Snapshots \cup {Nothing}]
  BY AuthorityAssumption DEF Init, Snapshots, Entries
<1>3. sidecars \in [Paths -> Sidecars \cup {Nothing}] /\ \A p \in Paths : sidecars[p] = Nothing
  BY DEF Init
<1>4. procs = [x \in Procs |-> procs[x]] /\ \A x \in Procs : GoodState(procs[x], attested)
  BY IdleState DEF Init
<1>. QED  BY <1>1, <1>2, <1>3, <1>4 DEF Inv

LEMMA InvNext == Inv /\ [Next]_vars => Inv'
<1>. SUFFICES ASSUME Inv, [Next]_vars PROVE Inv'
  OBVIOUS
<1>1. ASSUME NEW x \in Procs, Commands(x) PROVE Inv'
  <2>1. ASSUME NEW p \in Paths, NEW force \in BOOLEAN, SyncRead(x, p, force) PROVE Inv'
    BY <2>1, SyncReadKeeps
  <2>2. ASSUME NEW p \in Paths, NEW include \in BOOLEAN, NEW overwrite \in BOOLEAN,
               Export(x, p, include, overwrite)
        PROVE  Inv'
    BY <2>2, ExportKeeps
  <2>3. ASSUME \E p \in Paths, e \in {Nothing} \cup 0..Cardinality(Ids) : Switch(x, p, e) PROVE Inv'
    BY <2>3, OtherKeeps
  <2>4. ASSUME \E p \in Paths : LegacyStart(x, p) PROVE Inv'
    BY <2>4, LegacyKeeps
  <2>5. ASSUME \/ \E texts \in [Ids -> Txts \cup {Nothing}] : Seed(x, texts)
               \/ \E i \in Ids, t \in Txts, review \in Remote : PullRemote(x, i, t, review)
        PROVE  Inv'
    BY <2>5, DecisionSteps, DecisionKeeps, AtRestKeeps
  <2>6. ASSUME \/ \E texts \in [Current -> Txts], override \in BOOLEAN : AdoptCheck(x, texts, override)
               \/ \E texts \in [Current -> Txts] : Verify(x, texts)
        PROVE  Inv'
    BY <2>6, AdoptKeeps
  <2>. QED  BY <1>1, <2>1, <2>2, <2>3, <2>4, <2>5, <2>6 DEF Commands
<1>2. ASSUME NEW x \in Procs, Steps(x) PROVE Inv'
  BY <1>2, SyncCheckKeeps, SyncShadowKeeps, SyncRestoreKeeps, OtherKeeps, ExportSidecarKeeps,
     AdoptKeeps, LegacyKeeps DEF Steps
<1>3. ASSUME NEW x \in Procs, Kill(x) PROVE Inv'
  BY <1>3, OtherKeeps
<1>4. CASE NewStore \/ \E p \in Paths, file \in Snapshots : EditFile(p, file)
  BY <1>4, EnvironmentKeeps
<1>5. CASE UNCHANGED vars
  BY <1>5 DEF vars, store, disk, Inv, GoodTable, GoodState
<1>. QED  BY <1>1, <1>2, <1>3, <1>4, <1>5 DEF Next

LEMMA Invariance == Spec => []Inv
BY InvInit, InvNext, PTL DEF Spec

\* What a human did not vouch for is neither human nor formal, whatever exports,
\* edits of the file, imports, kills and concurrent commands happen between.
THEOREM Earned == Spec => []MarksAreEarned
<1>1. Inv => MarksAreEarned
  BY DEF Inv, GoodTable, GoodRow, MarksAreEarned, Present
<1>. QED  BY <1>1, Invariance, PTL

------------------------------------------------------------------------------
(* What a step may do to the rows.                                           *)

\* Rows only give way to rows of humans, formal ones to formal ones.
Overwrites ==
  \A i \in Ids : rows'[i] # rows[i] =>
    /\ rows'[i] # NoRow /\ rows'[i].human
    /\ rows[i] # NoRow /\ rows[i].formal => rows'[i].formal

LEMMA UpsertOverwrites ==
  ASSUME NEW es, rows' = Upserted(rows, es), \A i \in Ids : es[i] # NoRow => es[i].human
  PROVE  Overwrites
BY DEF Upserted, Admitted, Gate, Overwrites

LEMMA RestoreOverwrites == ASSUME Inv, NEW x \in Procs, SyncRestore(x) PROVE Overwrites
<1>. DEFINE all == procs[x].entries
            es == Restricted(all, Present(all) \ Legacy(all))
<1>1. GoodTable(all, attested)
  BY SyncFacts DEF SyncRestore
<1>2. rows' = Upserted(rows, es)
  BY DEF SyncRestore
<1>. HIDE DEF all
<1>3. \A i \in Ids : es[i] # NoRow => es[i].human
  BY <1>1 DEF GoodTable, GoodRow, Restricted, Legacy, Present
<1>. HIDE DEF es
<1>. QED  BY <1>2, <1>3, UpsertOverwrites

LEMMA DecidesOverwrites == ASSUME Decides PROVE Overwrites
<1>1. PICK es : Attestable(es) /\ Attest(es)
  BY DEF Decides
<1>2. rows' = Upserted(rows, es) /\ \A i \in Ids : es[i] # NoRow => es[i].human
  BY <1>1 DEF Attest, Attestable
<1>. QED  BY <1>2, UpsertOverwrites

LEMMA RowSteps ==
  ASSUME Inv, [Next]_vars
  PROVE  NewStore \/ (\E x \in Procs : SyncShadow(x)) \/ Overwrites
<1>0. ASSUME rows' = rows PROVE Overwrites
  BY <1>0 DEF Overwrites
<1>1. ASSUME NEW x \in Procs, Commands(x) PROVE Overwrites
  <2>1. CASE \/ \E texts \in [Ids -> Txts \cup {Nothing}] : Seed(x, texts)
             \/ \E i \in Ids, t \in Txts, review \in Remote : PullRemote(x, i, t, review)
    BY <2>1, DecisionSteps, DecidesOverwrites
  <2>2. CASE \/ \E p \in Paths :
                  \/ \E force \in BOOLEAN : SyncRead(x, p, force)
                  \/ \E include, overwrite \in BOOLEAN : Export(x, p, include, overwrite)
                  \/ \E expected \in {Nothing} \cup 0..Cardinality(Ids) : Switch(x, p, expected)
                  \/ LegacyStart(x, p)
             \/ \E texts \in [Current -> Txts] :
                  Verify(x, texts) \/ \E override \in BOOLEAN : AdoptCheck(x, texts, override)
    BY <1>0, <2>2 DEF SyncRead, Export, Switch, LegacyStart, Verify, AdoptCheck, store
  <2>. QED  BY <1>1, <2>1, <2>2 DEF Commands
<1>2. ASSUME NEW x \in Procs, AdoptWrite(x) PROVE Overwrites
  <2>1. procs[x].pc = "adopt" /\ Attestable(procs[x].entries)
    BY <1>2 DEF AdoptWrite, Inv, GoodState
  <2>. QED  BY <1>0, <1>2, <2>1, DecidesOverwrites DEF AdoptWrite, Decides
<1>3. ASSUME NEW x \in Procs, Steps(x), ~SyncShadow(x) PROVE Overwrites
  <2>1. CASE SyncRestore(x) \/ AdoptWrite(x)
    BY <1>2, <2>1, RestoreOverwrites
  <2>2. CASE SyncCheck(x) \/ SyncRecord(x) \/ ExportSidecar(x) \/ AdoptReport(x) \/ SwitchCommit(x)
    BY <1>0, <2>2 DEF SyncCheck, SyncRecord, ExportSidecar, AdoptReport, SwitchCommit, store
  <2>3. CASE \E file \in Snapshots : LegacySave(x, file)
    BY <1>0, <2>3 DEF LegacySave, store
  <2>. QED  BY <1>3, <2>1, <2>2, <2>3 DEF Steps
<1>4. ASSUME NEW x \in Procs, Kill(x) PROVE Overwrites
  BY <1>0, <1>4 DEF Kill, store
<1>5. ASSUME NEW p \in Paths, NEW file \in Snapshots, EditFile(p, file) PROVE Overwrites
  BY <1>0, <1>5 DEF EditFile, store
<1>6. CASE UNCHANGED vars
  BY <1>0, <1>6 DEF vars, store
<1>. QED  BY <1>1, <1>3, <1>4, <1>5, <1>6 DEF Next

\* The step property of ProtectionKept.
ProtectionStep ==
  rows' = NoEntries \/
  \A i \in Present(rows) :
    /\ rows[i].formal => rows'[i] # NoRow /\ rows'[i].formal
    /\ rows[i].human => rows'[i] # NoRow /\ rows'[i].human

LEMMA ProtectionSteps == ASSUME Inv, [Next]_vars PROVE ProtectionStep
<1>1. CASE NewStore
  BY <1>1 DEF NewStore, ProtectionStep
<1>2. ASSUME NEW x \in Procs, SyncShadow(x) PROVE ProtectionStep
  <2>1. \A i \in Ids : rows[i] = NoRow \/ IsShadow(rows[i]) \/ rows'[i] = rows[i]
    BY <1>2 DEF SyncShadow, ShadowReplaced
  <2>2. \A i \in Ids : IsShadow(rows[i]) => ~rows[i].human /\ ~rows[i].formal
    BY DEF Inv, GoodTable, GoodRow, IsShadow
  <2>. QED  BY <2>1, <2>2 DEF ProtectionStep, Present
<1>3. CASE Overwrites
  BY <1>3 DEF Overwrites, ProtectionStep, Present
<1>. QED  BY <1>1, <1>2, <1>3, RowSteps

\* No shadow, no restored sidecar and no decision takes the mark of a formal or
\* human row: only a new database does.
THEOREM Kept == Spec => ProtectionKept
<1>1. Inv /\ [Next]_vars => [ProtectionStep]_vars
  BY ProtectionSteps
<1>2. Spec => [][ProtectionStep]_vars
  BY <1>1, Invariance, PTL DEF Spec
<1>. QED  BY <1>2 DEF ProtectionKept, ProtectionStep

------------------------------------------------------------------------------
(* Without overlapping commands.                                             *)

AllIdle == \A y \in Procs : procs[y].pc = "idle"

LEMMA AloneInit == Init => AloneInv
BY IdleState DEF Init, AloneInv

LEMMA StartAlone == ASSUME ~Overlap, NEW x \in Procs, Start(x) PROVE AllIdle
BY DEF Start, AllIdle

\* A command that starts or goes on is the only one.
LEMMA AloneStep ==
  ASSUME Inv, AloneInv, ~Overlap, NEW x \in Procs, NEW s, Step(x, s),
         Start(x) \/ procs[x].pc # "idle",
         s.pc \in {"shadow", "restore", "switch"} => authority' = Nothing,
         s.pc = "sidecar" => Faithful(rows', s.export, s.marks)
  PROVE  AloneInv'
<1>1. \A y \in Procs \ {x} : procs[y].pc = "idle"
  BY StartAlone DEF AllIdle, AloneInv
<1>2. procs'[x] = s /\ \A y \in Procs \ {x} : procs'[y].pc = "idle"
  BY <1>1, StepFacts
<1>. QED  BY <1>2 DEF AloneInv

LEMMA AloneAtRest ==
  ASSUME AloneInv, UNCHANGED procs, UNCHANGED <<rows, authority>> \/ AllIdle PROVE AloneInv'
BY DEF AloneInv, AllIdle

LEMMA AloneCommands ==
  ASSUME Inv, AloneInv, ~Overlap, NEW x \in Procs, Commands(x) PROVE AloneInv'
<1>1. ASSUME NEW p \in Paths, NEW force \in BOOLEAN, SyncRead(x, p, force) PROVE AloneInv'
  <2>. DEFINE s == [pc |-> "check", path |-> p, file |-> files[p]]
  <2>1. Step(x, s) /\ Start(x) /\ s.pc = "check"
    BY <1>1 DEF SyncRead
  <2>. HIDE DEF s
  <2>. QED  BY <2>1, AloneStep
<1>2. ASSUME NEW p \in Paths, NEW include \in BOOLEAN, NEW overwrite \in BOOLEAN,
             Export(x, p, include, overwrite)
      PROVE  AloneInv'
  <2>. DEFINE s == SidecarState(p, include)
  <2>1. Start(x) /\ (Step(x, Idle) \/ Step(x, s)) /\ rows' = rows
    BY <1>2, ExportStep
  <2>2. /\ s.pc = "sidecar" /\ s.export = ExportFile(include) /\ s.marks = ExportMarks(include)
        /\ Faithful(rows, ExportFile(include), ExportMarks(include))
    BY ExportGood DEF SidecarState
  <2>. HIDE DEF s
  <2>. QED  BY <2>1, <2>2, IdleState, AloneStep
<1>3. ASSUME NEW p \in Paths, NEW e, Switch(x, p, e) PROVE AloneInv'
  <2>. DEFINE s == [pc |-> "switch", evidence |-> [path |-> p, legacy |-> LegacyCount, declared |-> Declared]]
  <2>1. s.pc = "switch"
    OBVIOUS
  <2>2. Start(x) /\ Step(x, s) /\ authority' = Nothing
    BY <1>3 DEF Switch, store
  <2>. HIDE DEF s
  <2>. QED  BY <2>1, <2>2, AloneStep
<1>4. ASSUME NEW p \in Paths, LegacyStart(x, p) PROVE AloneInv'
  <2>. DEFINE s == [pc |-> "legacy", path |-> p]
  <2>1. Start(x) /\ Step(x, s) /\ s.pc = "legacy"
    BY <1>4 DEF LegacyStart
  <2>. HIDE DEF s
  <2>. QED  BY <2>1, AloneStep
<1>5. CASE \/ \E texts \in [Ids -> Txts \cup {Nothing}] : Seed(x, texts)
           \/ \E i \in Ids, t \in Txts, review \in Remote : PullRemote(x, i, t, review)
           \/ \E texts \in [Current -> Txts] : Verify(x, texts)
  <2>1. Start(x) /\ UNCHANGED procs
    BY <1>5 DEF Seed, PullRemote, Verify
  <2>. QED  BY <2>1, StartAlone, AloneAtRest
<1>6. ASSUME NEW texts \in [Current -> Txts], NEW override \in BOOLEAN, AdoptCheck(x, texts, override)
      PROVE  AloneInv'
  <2>. DEFINE s == [pc |-> "adopt", entries |-> AdoptEntries(texts), override |-> override]
  <2>1. Start(x) /\ Step(x, s) /\ s.pc = "adopt"
    BY <1>6 DEF AdoptCheck, AdoptEntries
  <2>. HIDE DEF s
  <2>. QED  BY <2>1, AloneStep
<1>. QED  BY <1>1, <1>2, <1>3, <1>4, <1>5, <1>6 DEF Commands

LEMMA AloneSteps ==
  ASSUME Inv, AloneInv, ~Overlap, NEW x \in Procs, Steps(x) \/ Kill(x) PROVE AloneInv'
<1>. DEFINE me == procs[x]
<1>1. CASE SyncCheck(x)
  <2>. DEFINE marks == Provenance(me.path, me.file)
              s == [pc |-> "shadow", path |-> me.path, file |-> me.file, entries |-> Imported(me.file, marks)]
  <2>1. me.pc = "check" /\ UNCHANGED authority /\ (Step(x, Idle) \/ (authority = Nothing /\ Step(x, s)))
    BY <1>1 DEF SyncCheck, store
  <2>2. s.pc = "shadow"
    OBVIOUS
  <2>. HIDE DEF s
  <2>. QED  BY <2>1, <2>2, IdleState, AloneStep
<1>2. CASE SyncShadow(x) \/ SyncRestore(x)
  <2>1. me.pc \in {"shadow", "restore"} /\ authority' = Nothing
    BY <1>2 DEF SyncShadow, SyncRestore, AloneInv
  <2>2. PICK pc \in {"restore", "record"} : Step(x, [me EXCEPT !.pc = pc])
    BY <1>2 DEF SyncShadow, SyncRestore
  <2>. DEFINE s == [me EXCEPT !.pc = pc]
  <2>3. s.pc = pc
    BY <2>1, SyncFacts DEF SyncStates
  <2>. HIDE DEF s
  <2>. QED  BY <2>1, <2>2, <2>3, AloneStep DEF s
<1>3. CASE \/ SyncRecord(x) \/ ExportSidecar(x) \/ AdoptReport(x) \/ SwitchCommit(x) \/ Kill(x)
           \/ \E file \in Snapshots : LegacySave(x, file)
  <2>1. me.pc # "idle" /\ Step(x, Idle)
    BY <1>3 DEF SyncRecord, ExportSidecar, AdoptReport, SwitchCommit, Kill, LegacySave
  <2>. QED  BY <2>1, IdleState, AloneStep
<1>4. CASE AdoptWrite(x)
  <2>. DEFINE s == [pc |-> "report"]
  <2>1. me.pc # "idle" /\ (Step(x, Idle) \/ Step(x, s)) /\ s.pc = "report"
    BY <1>4 DEF AdoptWrite
  <2>. HIDE DEF s
  <2>. QED  BY <2>1, IdleState, AloneStep
<1>. QED  BY <1>1, <1>2, <1>3, <1>4 DEF Steps

LEMMA AloneNext == ASSUME ~Overlap PROVE Inv /\ AloneInv /\ [Next]_vars => AloneInv'
<1>. SUFFICES ASSUME Inv, AloneInv, [Next]_vars PROVE AloneInv'
  OBVIOUS
<1>1. CASE NewStore
  BY <1>1, AloneAtRest DEF NewStore, AllIdle
<1>2. ASSUME NEW p \in Paths, NEW file \in Snapshots, EditFile(p, file) PROVE AloneInv'
  BY <1>2, AloneAtRest DEF EditFile, store
<1>3. CASE UNCHANGED vars
  BY <1>3, AloneAtRest DEF vars, store
<1>. QED  BY <1>1, <1>2, <1>3, AloneCommands, AloneSteps DEF Next

LEMMA AloneInvariance == ASSUME ~Overlap PROVE Spec => [](Inv /\ AloneInv)
BY InvInit, InvNext, AloneInit, AloneNext, PTL DEF Spec

------------------------------------------------------------------------------
(* The one-way switch.                                                       *)

AuthorityStep ==
  authority # Nothing =>
    \/ rows' = NoEntries /\ authority' = Nothing
    \/ /\ authority' = authority
       /\ \A i \in Ids : IsShadow(rows[i]) /\ rows'[i] # rows[i] =>
             rows'[i] # NoRow /\ rows'[i].human

LEMMA AuthoritySame ==
  ASSUME [Next]_vars, authority # Nothing, AloneInv, ~NewStore
  PROVE  authority' = authority /\ ~\E x \in Procs : SyncShadow(x)
<1>1. ASSUME NEW x \in Procs, Commands(x) PROVE authority' = authority
  BY <1>1 DEF Commands, SyncRead, Export, Switch, LegacyStart, Seed, Verify, AdoptCheck, PullRemote, store
<1>2. ASSUME NEW x \in Procs PROVE ~SyncShadow(x) /\ ~SwitchCommit(x)
  BY DEF SyncShadow, SwitchCommit, AloneInv
<1>3. ASSUME NEW x \in Procs, Steps(x) \/ Kill(x) PROVE authority' = authority
  BY <1>2, <1>3 DEF Steps, SyncCheck, SyncRestore, SyncRecord, ExportSidecar, AdoptWrite, AdoptReport,
     LegacySave, Kill, store
<1>4. ASSUME NEW p \in Paths, NEW file \in Snapshots, EditFile(p, file) PROVE authority' = authority
  BY <1>4 DEF EditFile, store
<1>5. ASSUME UNCHANGED vars PROVE authority' = authority
  BY <1>5 DEF vars, store
<1>6. authority' = authority
  BY <1>1, <1>3, <1>4, <1>5 DEF Next
<1>. QED  BY <1>2, <1>6

LEMMA AuthoritySteps == ASSUME Inv, AloneInv, [Next]_vars PROVE AuthorityStep
<1>1. CASE NewStore
  BY <1>1 DEF NewStore, AuthorityStep
<1>2. CASE authority # Nothing /\ ~NewStore
  BY <1>2, AuthoritySame, RowSteps DEF AuthorityStep, Overwrites
<1>. QED  BY <1>1, <1>2 DEF AuthorityStep

\* Without overlapping commands the switch is one-way: nothing but a new database
\* takes its evidence back, and no legacy row gives way to another legacy row.
THEOREM OneWay == ASSUME ~Overlap PROVE Spec => AuthorityHolds
<1>1. Inv /\ AloneInv /\ [Next]_vars => [AuthorityStep]_vars
  BY AuthoritySteps
<1>2. Spec => [][AuthorityStep]_vars
  BY <1>1, AloneInvariance, PTL DEF Spec
<1>. QED  BY <1>2 DEF AuthorityHolds, AuthorityStep

------------------------------------------------------------------------------
(* The round trip.                                                           *)

RoundTripStep ==
  \A p \in Paths :
    sidecars'[p] # sidecars[p] /\ files[p] = sidecars'[p].export =>
      LET back == Imported(files[p], sidecars'[p].marks) IN
      \A i \in Listed(files[p]) :
        /\ back[i].human = rows[i].human /\ back[i].formal = rows[i].formal
        /\ Usable(back[i]) => Usable(rows[i])

\* One row of an export comes back as strong and no more usable than it went.
LEMMA RowReturns ==
  ASSUME NEW file, NEW marks, GoodTable(rows, attested), GoodSidecar(file, marks, attested),
         Faithful(rows, file, marks), NEW i \in Ids, file[i] # Nothing
  PROVE  /\ Imported(file, marks)[i].human = rows[i].human
         /\ Imported(file, marks)[i].formal = rows[i].formal
         /\ Usable(Imported(file, marks)[i]) => Usable(rows[i])
<1>. DEFINE back == Imported(file, marks)[i]
<1>1. back = IF marks[i] = NoRow THEN Classified(file, i) ELSE marks[i]
  BY ImportedGood
<1>2. /\ rows[i] # NoRow /\ rows[i] \in Rows /\ GoodRow(i, rows[i], attested)
      /\ file[i] = [fp |-> rows[i].fp, txt |-> rows[i].txt]
  BY TableFacts DEF Faithful, GoodTable
<1>3. CASE Protected(rows[i])
  <2>1. marks[i] = [rows[i] EXCEPT !.run = NoRun]
    BY <1>3 DEF Faithful
  <2>2. /\ marks[i] \in Rows /\ marks[i].human = rows[i].human /\ marks[i].formal = rows[i].formal
        /\ marks[i].quality = rows[i].quality /\ marks[i].review = rows[i].review
    BY <1>2, <2>1 DEF Rows
  <2>3. back = marks[i]
    BY <1>1, <2>2, NoRowIsNotARow
  <2>. QED  BY <2>2, <2>3 DEF Usable
<1>4. CASE ~Protected(rows[i])
  <2>1. back = Classified(file, i)
    BY <1>1, <1>4 DEF Faithful
  <2>2. ~rows[i].human /\ ~rows[i].formal /\ rows[i].origin = "legacy"
        /\ rows[i].review \in {"unreviewed", "quarantined"}
    BY <1>2, <1>4 DEF Protected, GoodRow, Rows, Reviews, RemoteReviews
  <2>3. file \in Snapshots
    BY DEF GoodSidecar
  <2>4. ~Classified(file, i).human /\ ~Classified(file, i).formal
        /\ (Usable(Classified(file, i)) => Clean(file, i))
    BY <2>3, ClassifiedGood
  <2>5. Classified(file, i).human \in BOOLEAN /\ Classified(file, i).formal \in BOOLEAN
    BY <2>3, ClassifiedGood DEF Rows
  <2>6. Clean(file, i) => Usable(rows[i])
    BY <1>2, <2>2 DEF Clean, Usable, GoodRow
  <2>7. rows[i].human \in BOOLEAN /\ rows[i].formal \in BOOLEAN
    BY <1>2 DEF Rows
  <2>. QED  BY <2>1, <2>2, <2>4, <2>5, <2>6, <2>7
<1>. QED  BY <1>3, <1>4

LEMMA SidecarSteps ==
  ASSUME [Next]_vars, sidecars' # sidecars PROVE \E x \in Procs : ExportSidecar(x)
<1>1. ASSUME NEW x \in Procs, Commands(x) PROVE FALSE
  BY <1>1 DEF Commands, SyncRead, Export, Switch, LegacyStart, Seed, Verify, AdoptCheck, PullRemote, disk
<1>2. ASSUME NEW x \in Procs, Steps(x) \/ Kill(x), ~ExportSidecar(x) PROVE FALSE
  BY <1>2 DEF Steps, SyncCheck, SyncShadow, SyncRestore, SyncRecord, AdoptWrite, AdoptReport,
     SwitchCommit, LegacySave, Kill, disk
<1>3. CASE NewStore \/ \E p \in Paths, file \in Snapshots : EditFile(p, file)
  BY <1>3 DEF NewStore, EditFile, disk
<1>. QED  BY <1>1, <1>2, <1>3 DEF Next, vars, disk

LEMMA RoundTripSteps == ASSUME Inv, AloneInv, [Next]_vars PROVE RoundTripStep
<1>. SUFFICES ASSUME NEW p \in Paths, sidecars'[p] # sidecars[p], files[p] = sidecars'[p].export,
                     NEW i \in Listed(files[p])
              PROVE  LET back == Imported(files[p], sidecars'[p].marks) IN
                     /\ back[i].human = rows[i].human /\ back[i].formal = rows[i].formal
                     /\ Usable(back[i]) => Usable(rows[i])
  BY DEF RoundTripStep
<1>1. PICK x \in Procs : ExportSidecar(x)
  BY SidecarSteps
<1>. DEFINE me == procs[x]
<1>2. /\ GoodSidecar(me.export, me.marks, attested) /\ Faithful(rows, me.export, me.marks)
      /\ sidecars' = [sidecars EXCEPT ![me.path] = [export |-> me.export, marks |-> me.marks]]
  BY <1>1 DEF ExportSidecar, Inv, GoodState, AloneInv
<1>. HIDE DEF me
<1>3. files[p] = me.export /\ sidecars'[p].marks = me.marks
  BY <1>2 DEF Inv
<1>4. i \in Ids /\ me.export[i] # Nothing
  BY <1>3 DEF Listed
<1>. QED  BY <1>2, <1>3, <1>4, RowReturns DEF Inv

\* Without overlapping commands, what an export and its sidecar carry comes back
\* with the same marks, and nothing lookup refused comes back usable.
THEOREM RoundTrips == ASSUME ~Overlap PROVE Spec => RoundTrip
<1>1. Inv /\ AloneInv /\ [Next]_vars => [RoundTripStep]_vars
  BY RoundTripSteps
<1>2. Spec => [][RoundTripStep]_vars
  BY <1>1, AloneInvariance, PTL DEF Spec
<1>. QED  BY <1>2 DEF RoundTrip, RoundTripStep
------------------------------------------------------------------------------
(* Types.                                                                    *)

SyncRecords == [file : Snapshots, count : 0..Cardinality(Ids)]

Pcs == {"idle", "check", "shadow", "restore", "record", "sidecar", "adopt", "report", "switch", "legacy"}

\* What TypeOK says beyond Inv, with the kinds of the functions.
TypeInv ==
  /\ hist \in Histories
  /\ syncs \in [Paths -> SyncRecords \cup {Nothing}]
  /\ baselines \subseteq {"data_baseline", "behavior_baseline"}
  /\ attested \subseteq Ids \X Fps \X Txts
  /\ commands \in 0..MaxCommands /\ faults \in 0..MaxFaults
  /\ \A x \in Procs : procs[x].pc \in Pcs

LEMMA ArchivedType ==
  ASSUME NEW t \in Tables, NEW h \in Histories, NEW D PROVE Archived(t, h, D) \in Histories
<1>1. \A i \in Ids, f \in Fps : (IF i \in D /\ t[i].fp = f THEN t[i] ELSE h[i][f]) \in Rows \cup {NoRow}
  BY DEF Tables, Histories
<1>. QED  BY <1>1 DEF Archived, Histories

LEMMA ListedCount ==
  ASSUME NEW file PROVE Cardinality(Listed(file)) \in 0..Cardinality(Ids)
<1>1. Listed(file) \subseteq Ids
  BY DEF Listed
<1>2. /\ IsFiniteSet(Listed(file)) /\ Cardinality(Listed(file)) <= Cardinality(Ids)
      /\ Cardinality(Ids) \in Nat /\ Cardinality(Listed(file)) \in Nat
  BY <1>1, FinitelyManyIds, FS_Subset, FS_CardinalityType
<1>. QED  BY <1>2

\* The parts of TypeInv that most steps leave alone.
LEMMA AttestTypes ==
  ASSUME Inv, TypeInv, NEW es, Attestable(es), Attest(es)
  PROVE  hist' \in Histories /\ attested' \subseteq Ids \X Fps \X Txts
<1>1. rows \in Tables /\ es \in Tables
  BY DEF Inv, GoodTable, Attestable
<1>2. \A i \in Present(es) : <<i, es[i].fp, es[i].txt>> \in Ids \X Fps \X Txts
  BY <1>1, TableFacts
<1>. QED  BY <1>1, <1>2, ArchivedType DEF Attest, TypeInv

LEMMA CountedTypes == ASSUME TypeInv, Counted PROVE commands' \in 0..MaxCommands
BY AuthorityAssumption DEF TypeInv, Counted

LEMMA PcTypes ==
  ASSUME Inv, TypeInv, NEW x \in Procs, NEW s, Step(x, s), s.pc \in Pcs
  PROVE  \A y \in Procs : procs'[y].pc \in Pcs
BY StepFacts DEF TypeInv

LEMMA CommandTypes == ASSUME Inv, TypeInv, NEW x \in Procs, Commands(x) PROVE TypeInv'
<1>1. Start(x)
  BY DEF Commands, SyncRead, Export, Switch, LegacyStart, Seed, Verify, AdoptCheck, PullRemote
<1>2. commands' \in 0..MaxCommands
  BY <1>1, CountedTypes DEF Start
<1>3. ASSUME UNCHANGED <<hist, syncs, baselines, attested, faults>>, NEW s, Step(x, s), s.pc \in Pcs
      PROVE  TypeInv'
  BY <1>2, <1>3, PcTypes DEF TypeInv
<1>4. ASSUME NEW p \in Paths, NEW force \in BOOLEAN, SyncRead(x, p, force) PROVE TypeInv'
  <2>. DEFINE s == [pc |-> "check", path |-> p, file |-> files[p]]
  <2>1. s.pc \in Pcs
    BY DEF Pcs
  <2>2. Step(x, s) /\ UNCHANGED <<hist, syncs, baselines, attested, faults>>
    BY <1>4 DEF SyncRead, store, disk
  <2>. HIDE DEF s
  <2>. QED  BY <1>3, <2>1, <2>2
<1>5. ASSUME NEW p \in Paths, NEW include \in BOOLEAN, NEW overwrite \in BOOLEAN,
             Export(x, p, include, overwrite)
      PROVE  TypeInv'
  <2>1. Idle.pc \in Pcs /\ SidecarState(p, include).pc \in Pcs
    BY DEF Idle, SidecarState, Pcs
  <2>2. /\ Step(x, Idle) \/ Step(x, SidecarState(p, include))
        /\ UNCHANGED <<hist, syncs, baselines, attested>>
    BY <1>5, ExportStep
  <2>3. UNCHANGED faults
    BY <1>5 DEF Export
  <2>. QED  BY <1>3, <2>1, <2>2, <2>3
<1>6. ASSUME NEW p \in Paths, NEW e, Switch(x, p, e) PROVE TypeInv'
  <2>. DEFINE s == [pc |-> "switch", evidence |-> [path |-> p, legacy |-> LegacyCount, declared |-> Declared]]
  <2>1. s.pc \in Pcs
    BY DEF Pcs
  <2>2. Step(x, s) /\ UNCHANGED <<hist, syncs, baselines, attested, faults>>
    BY <1>6 DEF Switch, store, disk
  <2>. HIDE DEF s
  <2>. QED  BY <1>3, <2>1, <2>2
<1>7. ASSUME NEW p \in Paths, LegacyStart(x, p) PROVE TypeInv'
  <2>. DEFINE s == [pc |-> "legacy", path |-> p]
  <2>1. s.pc \in Pcs
    BY DEF Pcs
  <2>2. Step(x, s) /\ UNCHANGED <<hist, syncs, baselines, attested, faults>>
    BY <1>7 DEF LegacyStart, store, disk
  <2>. HIDE DEF s
  <2>. QED  BY <1>3, <2>1, <2>2
<1>8. ASSUME \/ \E texts \in [Ids -> Txts \cup {Nothing}] : Seed(x, texts)
             \/ \E i \in Ids, t \in Txts, review \in Remote : PullRemote(x, i, t, review)
      PROVE  TypeInv'
  <2>1. UNCHANGED <<syncs, baselines, procs, faults>>
    BY <1>8 DEF Seed, PullRemote, disk
  <2>2. hist' \in Histories /\ attested' \subseteq Ids \X Fps \X Txts
    BY <1>8, DecisionSteps, AttestTypes DEF Decides
  <2>. QED  BY <1>2, <2>1, <2>2 DEF TypeInv
<1>9. ASSUME NEW texts \in [Current -> Txts], Verify(x, texts) PROVE TypeInv'
  BY <1>2, <1>9 DEF Verify, TypeInv, store
<1>10. ASSUME NEW texts \in [Current -> Txts], NEW override \in BOOLEAN, AdoptCheck(x, texts, override)
       PROVE  TypeInv'
  <2>. DEFINE s == [pc |-> "adopt", entries |-> AdoptEntries(texts), override |-> override]
  <2>1. s.pc \in Pcs
    BY DEF Pcs
  <2>2. Step(x, s) /\ UNCHANGED <<hist, syncs, baselines, attested, faults>>
    BY <1>10 DEF AdoptCheck, AdoptEntries, store, disk
  <2>. HIDE DEF s
  <2>. QED  BY <1>3, <2>1, <2>2
<1>. QED  BY <1>4, <1>5, <1>6, <1>7, <1>8, <1>9, <1>10 DEF Commands

LEMMA StepTypes == ASSUME Inv, TypeInv, NEW x \in Procs, Steps(x) \/ Kill(x) PROVE TypeInv'
<1>. DEFINE me == procs[x]
<1>0. /\ [pc |-> "report"].pc \in Pcs
      /\ Idle.pc \in Pcs
  BY DEF Pcs, Idle
<1>1. CASE SyncCheck(x)
  <2>. DEFINE marks == Provenance(me.path, me.file)
              s == [pc |-> "shadow", path |-> me.path, file |-> me.file, entries |-> Imported(me.file, marks)]
  <2>1. /\ Step(x, Idle) \/ Step(x, s)
        /\ UNCHANGED <<hist, syncs, baselines, attested, commands, faults>>
    BY <1>1 DEF SyncCheck, store, disk
  <2>2. s.pc \in Pcs
    BY DEF Pcs
  <2>. HIDE DEF s
  <2>3. \A y \in Procs : procs'[y].pc \in Pcs
    BY <1>0, <2>1, <2>2, PcTypes
  <2>. QED  BY <2>1, <2>3 DEF TypeInv
<1>2. CASE SyncShadow(x) \/ SyncRestore(x)
  <2>1. me.pc \in {"shadow", "restore"} /\ UNCHANGED <<syncs, baselines, attested, commands, faults>>
    BY <1>2 DEF SyncShadow, SyncRestore, disk
  <2>2. PICK pc \in {"restore", "record"} : Step(x, [me EXCEPT !.pc = pc])
    BY <1>2 DEF SyncShadow, SyncRestore
  <2>3. [me EXCEPT !.pc = pc].pc \in Pcs
    BY <2>1, SyncFacts DEF SyncStates, Pcs
  <2>4. \A y \in Procs : procs'[y].pc \in Pcs
    BY <2>2, <2>3, PcTypes
  <2>5. hist' \in Histories
    BY <1>2, ArchivedType DEF SyncShadow, SyncRestore, Inv, GoodTable, TypeInv
  <2>. QED  BY <2>1, <2>4, <2>5 DEF TypeInv
<1>3. CASE SyncRecord(x)
  <2>1. Step(x, Idle) /\ UNCHANGED <<hist, baselines, attested, commands, faults>>
    BY <1>3 DEF SyncRecord, disk
  <2>. DEFINE new == [file |-> me.file, count |-> Cardinality(Listed(me.file))]
  <2>2. me.file \in Snapshots
    BY <1>3, SyncFacts DEF SyncRecord, SyncStates
  <2>3. new \in SyncRecords
    BY <2>2, ListedCount DEF SyncRecords
  <2>4. syncs' = [syncs EXCEPT ![me.path] = new]
    BY <1>3 DEF SyncRecord
  <2>. HIDE DEF new
  <2>5. syncs' \in [Paths -> SyncRecords \cup {Nothing}]
    BY <2>3, <2>4 DEF TypeInv
  <2>6. \A y \in Procs : procs'[y].pc \in Pcs
    BY <1>0, <2>1, PcTypes
  <2>. QED  BY <2>1, <2>5, <2>6 DEF TypeInv
<1>4. CASE \/ ExportSidecar(x) \/ AdoptReport(x) \/ SwitchCommit(x) \/ Kill(x)
           \/ \E file \in Snapshots : LegacySave(x, file)
  <2>1. Step(x, Idle) /\ UNCHANGED <<hist, syncs, attested, commands>>
    BY <1>4 DEF ExportSidecar, AdoptReport, SwitchCommit, Kill, LegacySave, store
  <2>2. baselines' \subseteq {"data_baseline", "behavior_baseline"}
    BY <1>4 DEF ExportSidecar, AdoptReport, SwitchCommit, Kill, LegacySave, disk, TypeInv
  <2>3. faults' \in 0..MaxFaults
    BY <1>4, AuthorityAssumption DEF ExportSidecar, AdoptReport, SwitchCommit, Kill, LegacySave, Fault, TypeInv
  <2>4. \A y \in Procs : procs'[y].pc \in Pcs
    BY <1>0, <2>1, PcTypes
  <2>. QED  BY <2>1, <2>2, <2>3, <2>4 DEF TypeInv
<1>5. CASE AdoptWrite(x)
  <2>1. UNCHANGED <<syncs, baselines, commands, faults>>
    BY <1>5 DEF AdoptWrite, disk
  <2>2. Step(x, Idle) \/ Step(x, [pc |-> "report"])
    BY <1>5 DEF AdoptWrite
  <2>3. \A y \in Procs : procs'[y].pc \in Pcs
    BY <1>0, <2>2, PcTypes
  <2>4. CASE UNCHANGED <<rows, hist, attested>>
    BY <2>1, <2>3, <2>4 DEF TypeInv
  <2>5. CASE Attest(me.entries)
    <3>1. Attestable(me.entries)
      BY <1>5 DEF AdoptWrite, Inv, GoodState
    <3>2. hist' \in Histories /\ attested' \subseteq Ids \X Fps \X Txts
      BY <2>5, <3>1, AttestTypes
    <3>. QED  BY <2>1, <2>3, <3>2 DEF TypeInv
  <2>. QED  BY <1>5, <2>4, <2>5 DEF AdoptWrite
<1>. QED  BY <1>1, <1>2, <1>3, <1>4, <1>5 DEF Steps

LEMMA TypeInit == Init => TypeInv
<1>. SUFFICES ASSUME Init PROVE TypeInv
  OBVIOUS
<1>1. hist \in Histories
  BY DEF Init, Histories
<1>2. \A x \in Procs : procs[x].pc \in Pcs
  BY IdleState DEF Init, Pcs
<1>. QED  BY <1>1, <1>2, AuthorityAssumption DEF Init, TypeInv

LEMMA TypeNext == Inv /\ TypeInv /\ [Next]_vars => TypeInv'
<1>. SUFFICES ASSUME Inv, TypeInv, [Next]_vars PROVE TypeInv'
  OBVIOUS
<1>1. CASE NewStore
  <2>1. hist' \in Histories /\ syncs' \in [Paths -> SyncRecords \cup {Nothing}]
    BY <1>1 DEF NewStore, Histories
  <2>2. UNCHANGED <<baselines, procs, attested, faults>> /\ commands' \in 0..MaxCommands
    BY <1>1, CountedTypes DEF NewStore, disk
  <2>. QED  BY <2>1, <2>2 DEF TypeInv
<1>2. ASSUME NEW p \in Paths, NEW file \in Snapshots, EditFile(p, file) PROVE TypeInv'
  BY <1>2, CountedTypes DEF EditFile, TypeInv, store
<1>3. CASE UNCHANGED vars
  BY <1>3 DEF vars, store, disk, TypeInv
<1>. QED  BY <1>1, <1>2, <1>3, CommandTypes, StepTypes DEF Next

LEMMA TypeInvariance == Spec => [](Inv /\ TypeInv)
BY InvInit, InvNext, TypeInit, TypeNext, PTL DEF Spec

\* Every table, file, record and command keeps the kind its code gives it.
THEOREM TypeCorrect == Spec => []TypeOK
<1>1. Inv /\ TypeInv => TypeOK
  <2>. SUFFICES ASSUME Inv, TypeInv PROVE TypeOK
    OBVIOUS
  <2>1. \A p \in Paths : syncs[p] # Nothing => syncs[p] \in SyncRecords
    BY DEF TypeInv
  <2>2. \A p \in Paths : sidecars[p] # Nothing => sidecars[p] \in Sidecars
    BY DEF Inv
  <2>. QED  BY <2>1, <2>2 DEF Inv, GoodTable, TypeInv, TypeOK, SyncRecords, Sidecars, Pcs
<1>. QED  BY <1>1, TypeInvariance, PTL
------------------------------------------------------------------------------
(* What a recorded digest says.                                              *)

\* The shadow rows of the table t are of the file f.
ShadowOf(t, f) == \A i \in Ids : IsShadow(t[i]) => f[i] = [fp |-> t[i].fp, txt |-> t[i].txt]

TakenFrom(es, f) == \A i \in Ids : es[i] # NoRow => f[i] = [fp |-> es[i].fp, txt |-> es[i].txt]

\* What a synchronisation is about to write, or wrote.
TakenInv ==
  \A x \in Procs : procs[x].pc \in {"shadow", "restore", "record"} =>
    TakenFrom(procs[x].entries, procs[x].file)

\* The shadow rows are of the file a synchronisation works on from the moment it
\* has written them, and of the recorded file when none does.
CurrentInv ==
  faults = 0 =>
    /\ \A x \in Procs : procs[x].pc \in {"restore", "record"} => ShadowOf(rows, procs[x].file)
    /\ (\A x \in Procs : procs[x].pc \notin {"restore", "record"}) =>
         \A p \in Paths : syncs[p] # Nothing => ShadowOf(rows, syncs[p].file)

\* A step that no synchronisation takes after its check.
Quiet ==
  \A y \in Procs :
    /\ procs'[y].pc \in {"shadow", "restore", "record"} => procs'[y] = procs[y]
    /\ procs[y].pc \in {"restore", "record"} => procs'[y] = procs[y]

LEMMA QuietStep ==
  ASSUME Inv, NEW x \in Procs, NEW s, Step(x, s), s.pc \notin {"shadow", "restore", "record"},
         procs[x].pc \notin {"restore", "record"}
  PROVE  Quiet
BY StepFacts DEF Quiet

LEMMA QuietCommands ==
  ASSUME Inv, NEW x \in Procs, Commands(x) PROVE Quiet /\ UNCHANGED <<syncs, faults>>
<1>1. Start(x) /\ UNCHANGED <<syncs, faults>>
  BY DEF Commands, SyncRead, Export, Switch, LegacyStart, Seed, Verify, AdoptCheck, PullRemote, store
<1>2. procs[x].pc \notin {"restore", "record"}
  BY <1>1 DEF Start
<1>3. ASSUME NEW p \in Paths, NEW force \in BOOLEAN, SyncRead(x, p, force) PROVE Quiet
  <2>. DEFINE s == [pc |-> "check", path |-> p, file |-> files[p]]
  <2>1. Step(x, s) /\ s.pc = "check"
    BY <1>3 DEF SyncRead
  <2>. HIDE DEF s
  <2>. QED  BY <1>2, <2>1, QuietStep
<1>4. ASSUME NEW p \in Paths, NEW include \in BOOLEAN, NEW overwrite \in BOOLEAN,
             Export(x, p, include, overwrite)
      PROVE  Quiet
  <2>1. Idle.pc = "idle" /\ SidecarState(p, include).pc = "sidecar"
    BY DEF Idle, SidecarState
  <2>. QED  BY <1>2, <1>4, <2>1, ExportStep, QuietStep
<1>5. ASSUME NEW p \in Paths, NEW e, Switch(x, p, e) PROVE Quiet
  <2>. DEFINE s == [pc |-> "switch", evidence |-> [path |-> p, legacy |-> LegacyCount, declared |-> Declared]]
  <2>1. s.pc = "switch"
    OBVIOUS
  <2>2. Step(x, s)
    BY <1>5 DEF Switch
  <2>. HIDE DEF s
  <2>. QED  BY <1>2, <2>1, <2>2, QuietStep
<1>6. ASSUME NEW p \in Paths, LegacyStart(x, p) PROVE Quiet
  <2>. DEFINE s == [pc |-> "legacy", path |-> p]
  <2>1. Step(x, s) /\ s.pc = "legacy"
    BY <1>6 DEF LegacyStart
  <2>. HIDE DEF s
  <2>. QED  BY <1>2, <2>1, QuietStep
<1>7. ASSUME NEW texts \in [Current -> Txts], NEW override \in BOOLEAN, AdoptCheck(x, texts, override)
      PROVE  Quiet
  <2>. DEFINE s == [pc |-> "adopt", entries |-> AdoptEntries(texts), override |-> override]
  <2>1. Step(x, s) /\ s.pc = "adopt"
    BY <1>7 DEF AdoptCheck, AdoptEntries
  <2>. HIDE DEF s
  <2>. QED  BY <1>2, <2>1, QuietStep
<1>8. CASE \/ \E texts \in [Ids -> Txts \cup {Nothing}] : Seed(x, texts)
           \/ \E i \in Ids, t \in Txts, review \in Remote : PullRemote(x, i, t, review)
           \/ \E texts \in [Current -> Txts] : Verify(x, texts)
  <2>1. UNCHANGED procs
    BY <1>8 DEF Seed, PullRemote, Verify
  <2>. QED  BY <1>1, <2>1 DEF Quiet
<1>. QED  BY <1>1, <1>3, <1>4, <1>5, <1>6, <1>7, <1>8 DEF Commands

LEMMA QuietSteps ==
  ASSUME Inv, NEW x \in Procs,
         \/ ExportSidecar(x) \/ AdoptWrite(x) \/ AdoptReport(x) \/ SwitchCommit(x)
         \/ \E file \in Snapshots : LegacySave(x, file)
  PROVE  Quiet /\ UNCHANGED <<syncs, faults>>
<1>1. Idle.pc = "idle" /\ [pc |-> "report"].pc = "report"
  BY DEF Idle
<1>2. /\ procs[x].pc \notin {"restore", "record"} /\ UNCHANGED <<syncs, faults>>
      /\ Step(x, Idle) \/ Step(x, [pc |-> "report"])
  BY DEF ExportSidecar, AdoptWrite, AdoptReport, SwitchCommit, LegacySave, store
<1>. QED  BY <1>1, <1>2, QuietStep

\* What is imported is of the file; the marks of a sidecar change neither.
LEMMA ImportedTaken ==
  ASSUME NEW A, NEW file, NEW marks, GoodSidecar(file, marks, A)
  PROVE  TakenFrom(Imported(file, marks), file)
<1>. SUFFICES ASSUME NEW i \in Ids, Imported(file, marks)[i] # NoRow
              PROVE  file[i] = [fp |-> Imported(file, marks)[i].fp, txt |-> Imported(file, marks)[i].txt]
  BY DEF TakenFrom
<1>1. file[i] # Nothing /\ file \in Snapshots
  BY DEF Imported, GoodSidecar
<1>2. file[i] = [fp |-> file[i].fp, txt |-> file[i].txt]
  BY <1>1 DEF Snapshots, Entries
<1>3. CASE marks[i] = NoRow
  <2>. DEFINE row == LegacyRow(file[i].fp, file[i].txt, Clean(file, i) /\ ~Conflict(file, i))
  <2>1. Classified(file, i) \in {row, [row EXCEPT !.review = "suspect"]}
    BY DEF Classified
  <2>2. row.fp = file[i].fp /\ row.txt = file[i].txt
    BY DEF LegacyRow
  <2>3. [row EXCEPT !.review = "suspect"].fp = row.fp /\ [row EXCEPT !.review = "suspect"].txt = row.txt
    BY DEF LegacyRow
  <2>. HIDE DEF row
  <2>4. Classified(file, i).fp = file[i].fp /\ Classified(file, i).txt = file[i].txt
    BY <2>1, <2>2, <2>3
  <2>. QED  BY <1>1, <1>2, <1>3, <2>4, ImportedGood
<1>4. CASE marks[i] # NoRow
  <2>1. Imported(file, marks)[i] = marks[i]
    BY <1>1, <1>4, ImportedGood
  <2>2. file[i] = [fp |-> marks[i].fp, txt |-> marks[i].txt]
    BY <1>4 DEF GoodSidecar
  <2>. QED  BY <2>1, <2>2
<1>. QED  BY <1>3, <1>4

LEMMA TakenNext == Inv /\ TakenInv /\ [Next]_vars => TakenInv'
<1>. SUFFICES ASSUME Inv, TakenInv, [Next]_vars PROVE TakenInv'
  OBVIOUS
<1>0. ASSUME Quiet PROVE TakenInv'
  BY <1>0 DEF Quiet, TakenInv
<1>1. ASSUME NEW x \in Procs, SyncCheck(x) PROVE TakenInv'
  <2>. DEFINE me == procs[x]
              marks == Provenance(me.path, me.file)
              s == [pc |-> "shadow", path |-> me.path, file |-> me.file, entries |-> Imported(me.file, marks)]
  <2>1. me.pc = "check" /\ me.path \in Paths /\ me.file \in Snapshots
    BY <1>1 DEF SyncCheck, Inv, GoodState
  <2>2. CASE Step(x, Idle)
    BY <1>0, <2>1, <2>2, IdleState, QuietStep
  <2>3. CASE marks # Nothing /\ Step(x, s)
    <3>1. TakenFrom(Imported(me.file, marks), me.file)
      BY <2>1, <2>3, ProvenanceGood, ImportedTaken
    <3>2. s.file = me.file /\ s.entries = Imported(me.file, marks)
      OBVIOUS
    <3>. HIDE DEF s
    <3>. QED  BY <2>3, <3>1, <3>2, StepFacts DEF TakenInv
  <2>. QED  BY <1>1, <2>2, <2>3 DEF SyncCheck
<1>2. ASSUME NEW x \in Procs, SyncShadow(x) \/ SyncRestore(x) PROVE TakenInv'
  <2>1. procs[x].pc \in {"shadow", "restore"}
    BY <1>2 DEF SyncShadow, SyncRestore
  <2>2. PICK pc \in {"restore", "record"} : Step(x, [procs[x] EXCEPT !.pc = pc])
    BY <1>2 DEF SyncShadow, SyncRestore
  <2>. DEFINE s == [procs[x] EXCEPT !.pc = pc]
  <2>3. Step(x, s) /\ s.file = procs[x].file /\ s.entries = procs[x].entries
    BY <2>1, <2>2, SyncFacts DEF SyncStates
  <2>. HIDE DEF s
  <2>4. procs'[x] = s /\ \A y \in Procs \ {x} : procs'[y] = procs[y]
    BY <2>3, StepFacts
  <2>5. TakenFrom(s.entries, s.file)
    BY <2>1, <2>3 DEF TakenInv
  <2>. QED  BY <2>4, <2>5 DEF TakenInv
<1>3. ASSUME NEW x \in Procs, SyncRecord(x) \/ Kill(x) PROVE TakenInv'
  <2>1. Step(x, Idle)
    BY <1>3 DEF SyncRecord, Kill
  <2>. QED  BY <2>1, IdleState, StepFacts DEF TakenInv
<1>4. CASE \/ NewStore \/ UNCHANGED vars
           \/ \E p \in Paths, file \in Snapshots : EditFile(p, file)
  BY <1>4 DEF NewStore, EditFile, vars, TakenInv
<1>. QED  BY <1>0, <1>1, <1>2, <1>3, <1>4, QuietCommands, QuietSteps DEF Next, Steps

\* Rows of humans in the place of shadow rows leave the others as they are.
LEMMA OverwritesCurrent ==
  ASSUME Inv', Overwrites, NEW f, ShadowOf(rows, f) PROVE ShadowOf(rows', f)
<1>. SUFFICES ASSUME NEW i \in Ids, IsShadow(rows'[i])
              PROVE  f[i] = [fp |-> rows'[i].fp, txt |-> rows'[i].txt]
  BY DEF ShadowOf
<1>1. rows'[i] # NoRow /\ rows'[i].origin = "legacy"
  BY DEF IsShadow
<1>2. GoodRow(i, rows'[i], attested')
  BY <1>1 DEF Inv, GoodTable
<1>3. rows'[i] = rows[i]
  BY <1>1, <1>2 DEF Overwrites, GoodRow
<1>. QED  BY <1>3 DEF ShadowOf

LEMMA ReplacedCurrent ==
  ASSUME NEW es, NEW f, TakenFrom(es, f), NEW D, rows' = ShadowReplaced(rows, Restricted(es, D))
  PROVE  ShadowOf(rows', f)
<1>. SUFFICES ASSUME NEW i \in Ids, IsShadow(rows'[i])
              PROVE  f[i] = [fp |-> rows'[i].fp, txt |-> rows'[i].txt]
  BY DEF ShadowOf
<1>1. rows'[i] # NoRow /\ (rows'[i] = rows[i] => rows[i] = NoRow \/ IsShadow(rows[i]))
  BY DEF IsShadow
<1>2. rows'[i] = es[i]
  BY <1>1 DEF ShadowReplaced, Restricted
<1>. QED  BY <1>1, <1>2 DEF TakenFrom

\* One history_tm.json. A second one replaces the shadow rows of the first, whose
\* record stays.
OneFile == \A p, q \in Paths : p = q

LEMMA CurrentNext ==
  ASSUME ~Overlap, OneFile
  PROVE  Inv /\ Inv' /\ TypeInv /\ AloneInv /\ TakenInv /\ CurrentInv /\ [Next]_vars => CurrentInv'
<1>. SUFFICES ASSUME Inv, Inv', TypeInv, AloneInv, TakenInv, CurrentInv, [Next]_vars PROVE CurrentInv'
  OBVIOUS
<1>1. CASE NewStore
  <2>1. \A f : ShadowOf(NoEntries, f)
    BY NoEntriesGood DEF ShadowOf, IsShadow
  <2>. QED  BY <1>1, <2>1 DEF NewStore, CurrentInv
<1>2. ASSUME NEW x \in Procs, SyncShadow(x) PROVE CurrentInv'
  <2>. DEFINE s == [procs[x] EXCEPT !.pc = "restore"]
  <2>1. procs[x].pc = "shadow" /\ Step(x, s)
    BY <1>2 DEF SyncShadow
  <2>2. s.pc = "restore" /\ s.file = procs[x].file
    BY <2>1, SyncFacts DEF SyncStates
  <2>. HIDE DEF s
  <2>3. ShadowOf(rows', s.file)
    BY <1>2, <2>1, <2>2, ReplacedCurrent DEF SyncShadow, TakenInv
  <2>4. procs'[x] = s /\ \A y \in Procs \ {x} : procs'[y].pc \notin {"restore", "record"}
    BY <2>1, StepFacts DEF AloneInv
  <2>. QED  BY <2>2, <2>3, <2>4 DEF CurrentInv
<1>3. ASSUME NEW x \in Procs, SyncRestore(x) PROVE CurrentInv'
  <2>. DEFINE s == [procs[x] EXCEPT !.pc = "record"]
  <2>1. procs[x].pc = "restore" /\ Step(x, s) /\ UNCHANGED <<syncs, faults>>
    BY <1>3 DEF SyncRestore
  <2>2. s.pc = "record" /\ s.file = procs[x].file
    BY <2>1, SyncFacts DEF SyncStates
  <2>. HIDE DEF s
  <2>3. procs'[x] = s /\ \A y \in Procs \ {x} : procs'[y] = procs[y]
    BY <2>1, StepFacts
  <2>4. \A f : ShadowOf(rows, f) => ShadowOf(rows', f)
    BY <1>3, RestoreOverwrites, OverwritesCurrent
  <2>. QED  BY <2>1, <2>2, <2>3, <2>4 DEF CurrentInv
<1>4. ASSUME NEW x \in Procs, SyncRecord(x) PROVE CurrentInv'
  <2>. DEFINE new == [file |-> procs[x].file, count |-> Cardinality(Listed(procs[x].file))]
  <2>1. /\ procs[x].pc = "record" /\ Step(x, Idle) /\ UNCHANGED <<rows, faults>>
        /\ syncs' = [syncs EXCEPT ![procs[x].path] = new]
    BY <1>4 DEF SyncRecord
  <2>2. new.file = procs[x].file /\ procs[x].path \in Paths
    BY <2>1, SyncFacts DEF SyncStates
  <2>. HIDE DEF new
  <2>3. \A p \in Paths : syncs'[p] = new
    BY <2>1, <2>2 DEF OneFile, TypeInv
  <2>4. \A y \in Procs : procs'[y].pc = "idle"
    BY <2>1, StepFacts, IdleState DEF AloneInv
  <2>. QED  BY <2>1, <2>2, <2>3, <2>4 DEF CurrentInv
<1>5. ASSUME NEW x \in Procs, Kill(x) PROVE CurrentInv'
  <2>1. faults' # 0
    BY <1>5 DEF Kill, Fault, TypeInv
  <2>. QED  BY <2>1 DEF CurrentInv
<1>6. ASSUME Quiet, UNCHANGED <<syncs, faults>>, Overwrites PROVE CurrentInv'
  <2>1. \A f : ShadowOf(rows, f) => ShadowOf(rows', f)
    BY <1>6, OverwritesCurrent
  <2>. QED  BY <1>6, <2>1 DEF CurrentInv, Quiet
<1>7. ASSUME ~NewStore, ~\E x \in Procs : SyncShadow(x) PROVE Overwrites
  BY <1>7, RowSteps
<1>8. ASSUME NEW x \in Procs, SyncCheck(x) PROVE CurrentInv'
  <2>1. procs[x].pc = "check" /\ UNCHANGED <<rows, syncs, faults>>
    BY <1>8 DEF SyncCheck, store
  <2>2. \A y \in Procs \ {x} : procs'[y] = procs[y]
    BY <1>8, StepFacts DEF SyncCheck
  <2>. DEFINE marks == Provenance(procs[x].path, procs[x].file)
              s == [pc |-> "shadow", path |-> procs[x].path, file |-> procs[x].file,
                    entries |-> Imported(procs[x].file, marks)]
  <2>3. (Step(x, Idle) \/ Step(x, s)) /\ s.pc = "shadow"
    BY <1>8 DEF SyncCheck
  <2>. HIDE DEF s
  <2>4. procs'[x].pc \in {"idle", "shadow"}
    BY <2>3, StepFacts, IdleState
  <2>. QED  BY <2>1, <2>2, <2>4 DEF CurrentInv
<1>9. CASE (\E p \in Paths, file \in Snapshots : EditFile(p, file)) \/ UNCHANGED vars
  BY <1>9 DEF EditFile, vars, store, CurrentInv
<1>. QED  BY <1>1, <1>2, <1>3, <1>4, <1>5, <1>6, <1>7, <1>8, <1>9, QuietCommands, QuietSteps DEF Next, Steps

LEMMA CurrentInit == Init => TakenInv /\ CurrentInv
BY IdleState DEF Init, TakenInv, CurrentInv

\* Without overlapping commands, kills and a second JSON file, a file whose digest
\* is recorded is the one the shadow rows are of: skipping it skips nothing.
THEOREM SkipsAreSound ==
  ASSUME ~Overlap, OneFile PROVE Spec => []SkippedIsCurrentUnlessKilled
<1>1. Inv /\ Inv' /\ TypeInv /\ AloneInv /\ TakenInv /\ CurrentInv /\ [Next]_vars => CurrentInv'
  BY CurrentNext
<1>2. Spec => [](TakenInv /\ CurrentInv)
  BY <1>1, AloneInvariance, TypeInvariance, TakenNext, CurrentInit, PTL DEF Spec
<1>3. TakenInv /\ CurrentInv => SkippedIsCurrentUnlessKilled
  BY DEF CurrentInv, ShadowOf, SkippedIsCurrentUnlessKilled, SkippedIsCurrent
<1>. QED  BY <1>2, <1>3, PTL
==============================================================================
