------------------------ MODULE ReviewMutationProofs ------------------------
(****************************************************************************)
(* What the panel's decisions, their log and their ledger keep of each      *)
(* other, for any coordinates, texts, log length and operations.            *)
(*                                                                          *)
(* The types and what a unify replaces hold with any number of dashboards.  *)
(* Every other theorem is about one (OneDashboard): its mutation is the     *)
(* only one under way. What the store and the log keep of each other also   *)
(* needs that nothing else writes (Alone): then everything that was read    *)
(* before a step is still so at the next (OpOK).                            *)
(****************************************************************************)
EXTENDS ReviewMutation, SequenceTheorems, WellFoundedInduction, TLAPS

(******************************** the types ********************************)
LEMMA Givens ==
    /\ TheSource \in Fps /\ (CHOOSE t \in Txts : TRUE) \in Txts
    /\ \A txt \in [Ids -> Txts], i \in Ids : HumanRow(TheSource, txt[i]) \in Rows
    /\ \A t \in Txts : HumanRow(TheSource, t) \in Rows
    /\ None \in Tables /\ Rest \in Ops /\ Rest.pc = "idle" /\ Rest.ids = {}
    /\ Left \subseteq Rows \cup {NoRow} /\ Restorations \subseteq Rows
<1>1. TheSource \in Fps /\ (CHOOSE t \in Txts : TRUE) \in Txts
  BY SomeSourceAndText DEF TheSource
<1>2. \A t \in Txts : HumanRow(TheSource, t) \in Rows
  BY <1>1 DEF HumanRow, Rows, Origins, Reviews, RemoteReviews
<1>3. None \in Tables
  BY DEF None, Tables
<1>4. Rest \in Ops /\ Rest.pc = "idle" /\ Rest.ids = {}
  BY <1>1, <1>3 DEF Rest, Ops, PCs, Mutations
<1>5. \A t \in Txts : RemoteRow(TheSource, t, "locked") \in Rows
  BY <1>1 DEF RemoteRow, Rows, Origins, Reviews, RemoteReviews
<1>6. ASSUME NEW t \in Txts, NEW r \in Runs \cup {NoRun}
      PROVE  [MachineRow(TheSource, t, r) EXCEPT !.formal = TRUE] \in Rows
  BY <1>1 DEF MachineRow, Rows, Origins, Reviews, RemoteReviews
<1>7. Left \subseteq Rows \cup {NoRow}
  <2> DEFINE R == RemoteRow(TheSource, CHOOSE t \in Txts : TRUE, "locked")
             H == {HumanRow(TheSource, t) : t \in Txts}
             M == {[MachineRow(TheSource, t, r) EXCEPT !.formal = TRUE] : t \in Txts, r \in Runs}
  <2>3. R \in Rows
    BY <1>1, <1>5
  <2>4. H \subseteq Rows
    BY <1>2
  <2>5. M \subseteq Rows
    BY <1>6
  <2>6. Left = {NoRow, R} \cup H \cup M
    BY DEF Left
  <2>. HIDE DEF R, H, M
  <2>. QED  BY <2>3, <2>4, <2>5, <2>6
<1>8. Restorations \subseteq Rows
  <2>. SUFFICES ASSUME NEW t \in Txts
                PROVE  {HumanRow(TheSource, t), RemoteRow(TheSource, t, "locked"),
                        [MachineRow(TheSource, t, NoRun) EXCEPT !.formal = TRUE]} \subseteq Rows
    BY DEF Restorations
  <2>. QED  BY <1>2, <1>5, <1>6
<1>. QED  BY <1>1, <1>2, <1>3, <1>4, <1>7, <1>8

LEMMA TableTypes ==
    ASSUME NEW t \in Tables, NEW es \in Tables, NEW D \in SUBSET Ids
    PROVE  /\ Restricted(t, D) \in Tables /\ Upserted(t, es) \in Tables
           /\ [i \in Ids |-> IF i \in D THEN es[i] ELSE t[i]] \in Tables
BY DEF Tables, Restricted, Upserted

LEMMA OpTypes ==
    ASSUME NEW o \in Ops
    PROVE  /\ o.ids \in SUBSET Ids /\ o.txt \in [Ids -> Txts] /\ o.kind \in Mutations \cup Marks
           /\ o.before \in Tables /\ o.after \in Tables /\ o.outer \in Tables /\ o.pc \in PCs
           /\ o.expect \in Nat \cup {NoRevision}
           /\ [kind |-> o.kind, ids |-> o.ids, before |-> o.before, after |-> o.after] \in Entries
BY DEF Ops, Entries

\* Only p is served.
Serves(p, o) == op' = [op EXCEPT ![p] = o]

LEMMA Served ==
    ASSUME op \in [Procs -> Ops], NEW p \in Procs, NEW o \in Ops, Serves(p, o)
    PROVE  op' \in [Procs -> Ops] /\ op'[p] = o /\ \A q \in Procs \ {p} : op'[q] = op[q]
BY DEF Serves

BegunOp(kind, D, txt, override, expect) ==
    [Rest EXCEPT !.pc = "before", !.kind = kind, !.ids = D, !.txt = txt,
                 !.override = override, !.expect = expect, !.outer = Restricted(rows, D)]

RevertOp(D, n) ==
    [Rest EXCEPT !.pc = "revert", !.kind = "revert", !.ids = D, !.expect = Revision,
                 !.outer = Restricted(rows, D), !.before = Restricted(rows, D),
                 !.after = [i \in Ids |-> IF i \in D THEN log[n[i]].before[i] ELSE NoRow]]

MarkOp(kind, i, expect) ==
    [Rest EXCEPT !.pc = "append", !.kind = kind, !.ids = {i}, !.expect = expect]

\* What each step makes of the operation it serves.
LEMMA RevertType ==
    ASSUME TypeOK, NEW D \in SUBSET Ids, NEW n \in [D -> 1..Len(log)]
    PROVE  LET o == RevertOp(D, n) IN
           /\ o \in Ops /\ o.pc = "revert" /\ o.kind = "revert" /\ o.ids = D
           /\ o.expect = Revision /\ o.before = Restricted(rows, D)
           /\ o.outer = Restricted(rows, D)
           /\ o.after = [i \in Ids |-> IF i \in D THEN log[n[i]].before[i] ELSE NoRow]
<1>1. Restricted(rows, D) \in Tables /\ Revision \in Nat
  BY TableTypes, LenProperties DEF TypeOK, Revision
<1>2. [i \in Ids |-> IF i \in D THEN log[n[i]].before[i] ELSE NoRow] \in Tables
  <2>1. \A i \in D : log[n[i]] \in Entries
    BY ElementOfSeq DEF TypeOK
  <2>. QED  BY <2>1 DEF Entries, Tables
<1>. QED  BY <1>1, <1>2, Givens DEF RevertOp, Ops, PCs, Mutations

LEMMA MarkType ==
    ASSUME NEW kind \in Mutations \cup Marks, NEW i \in Ids, NEW expect \in Nat \cup {NoRevision}
    PROVE  LET o == MarkOp(kind, i, expect) IN
           /\ o \in Ops /\ o.pc = "append" /\ o.kind = kind /\ o.ids = {i}
           /\ o.expect = expect /\ o.before = None /\ o.after = None /\ o.outer = None
<1>1. Rest.before = None /\ Rest.after = None /\ Rest.outer = None
  BY DEF Rest
<1>. QED  BY <1>1, Givens DEF MarkOp, Ops, PCs

LEMMA Moved ==
    ASSUME op \in [Procs -> Ops], NEW p \in Procs, NEW pc \in PCs, op' = [op EXCEPT ![p].pc = pc]
    PROVE  /\ op' \in [Procs -> Ops] /\ \A q \in Procs \ {p} : op'[q] = op[q]
           /\ op'[p].pc = pc /\ op'[p].kind = op[p].kind /\ op'[p].ids = op[p].ids
           /\ op'[p].txt = op[p].txt /\ op'[p].expect = op[p].expect
           /\ op'[p].outer = op[p].outer /\ op'[p].before = op[p].before
           /\ op'[p].after = op[p].after
<1>1. op' = [op EXCEPT ![p] = [op[p] EXCEPT !.pc = pc]]
  OBVIOUS
<1>2. [op[p] EXCEPT !.pc = pc] \in Ops
  BY DEF Ops
<1>. QED  BY <1>1, <1>2 DEF Ops

LEMMA Finished ==
    ASSUME op \in [Procs -> Ops], NEW p \in Procs, Finish(p)
    PROVE  /\ op' \in [Procs -> Ops] /\ \A q \in Procs \ {p} : op'[q] = op[q]
           /\ op'[p] = Rest /\ op'[p].pc = "idle" /\ op'[p].ids = {}
BY Givens DEF Finish

\* The steps that give the operation other coordinates or images.
LEMMA ReadBeforeStep ==
    ASSUME TypeOK, NEW p \in Procs, ReadBefore(p)
    PROVE  LET writable == {i \in op[p].ids : op[p].override \/ ~RemoteGuarded(rows[i])} IN
           \/ Finish(p)
           \/ /\ op' \in [Procs -> Ops] /\ \A q \in Procs \ {p} : op'[q] = op[q]
              /\ op'[p].pc = "write" /\ op'[p].ids = writable /\ op'[p].kind = op[p].kind
              /\ op'[p].txt = op[p].txt /\ op'[p].expect = op[p].expect
              /\ op'[p].outer = op[p].outer /\ op'[p].before = Restricted(rows, writable)
              /\ op'[p].after = op[p].after
<1> DEFINE writable == {i \in op[p].ids : op[p].override \/ ~RemoteGuarded(rows[i])}
           o == [op[p] EXCEPT !.pc = "write", !.ids = writable, !.before = Restricted(rows, writable)]
<1>0. op \in [Procs -> Ops] /\ op[p] \in Ops /\ rows \in Tables
  BY DEF TypeOK
<1>1. writable \in SUBSET Ids /\ Restricted(rows, writable) \in Tables
  BY <1>0, OpTypes, TableTypes
<1>2. CASE writable # {}
  <2>1. op' = [op EXCEPT ![p].pc = "write", ![p].ids = writable,
                         ![p].before = Restricted(rows, writable)]
    BY <1>2 DEF ReadBefore
  <2>. HIDE DEF writable
  <2>2. op' = [op EXCEPT ![p] = o]
    BY <2>1, <1>0
  <2>3. o \in Ops
    BY <1>0, <1>1 DEF Ops, PCs
  <2>4. /\ o.pc = "write" /\ o.ids = writable /\ o.kind = op[p].kind
        /\ o.txt = op[p].txt /\ o.expect = op[p].expect
        /\ o.outer = op[p].outer /\ o.before = Restricted(rows, writable)
        /\ o.after = op[p].after
    BY <1>0 DEF Ops
  <2>5. op' \in [Procs -> Ops] /\ op'[p] = o /\ \A q \in Procs \ {p} : op'[q] = op[q]
    BY <1>0, <2>2, <2>3
  <2>. HIDE DEF o
  <2>. QED  BY <2>4, <2>5 DEF writable
<1>3. CASE writable = {}
  BY <1>3 DEF ReadBefore
<1>. QED  BY <1>2, <1>3

LEMMA ReadAfterStep ==
    ASSUME TypeOK, NEW p \in Procs, ReadAfter(p)
    PROVE  /\ op' \in [Procs -> Ops] /\ \A q \in Procs \ {p} : op'[q] = op[q]
           /\ op'[p].pc = "append" /\ op'[p].ids = op[p].ids /\ op'[p].kind = op[p].kind
           /\ op'[p].txt = op[p].txt /\ op'[p].expect = op[p].expect
           /\ op'[p].outer = op[p].outer /\ op'[p].before = op[p].before
           /\ op'[p].after = Restricted(rows, op[p].ids)
<1> DEFINE o == [op[p] EXCEPT !.pc = "append", !.after = Restricted(rows, op[p].ids)]
<1>0. op \in [Procs -> Ops] /\ op[p] \in Ops /\ Restricted(rows, op[p].ids) \in Tables
  BY TableTypes, OpTypes DEF TypeOK
<1>1. op' = [op EXCEPT ![p] = o]
  BY <1>0 DEF ReadAfter
<1>2. o \in Ops
  BY <1>0 DEF Ops, PCs
<1>3. /\ o.pc = "append" /\ o.ids = op[p].ids /\ o.kind = op[p].kind
      /\ o.txt = op[p].txt /\ o.expect = op[p].expect
      /\ o.outer = op[p].outer /\ o.before = op[p].before
      /\ o.after = Restricted(rows, op[p].ids)
  BY <1>0 DEF Ops
<1>. HIDE DEF o
<1>. QED  BY <1>0, <1>1, <1>2, <1>3

LEMMA ReadUndoStep ==
    ASSUME TypeOK, NEW p \in Procs, ReadUndo(p)
    PROVE  LET moved == {i \in Requested(p) : rows[i] # op[p].outer[i]} IN
           \/ Finish(p) /\ \E i \in moved : rows[i] # HumanRow(TheSource, op[p].txt[i])
           \/ /\ op' \in [Procs -> Ops] /\ \A q \in Procs \ {p} : op'[q] = op[q]
              /\ \A i \in moved : rows[i] = HumanRow(TheSource, op[p].txt[i])
              /\ op'[p].pc = "restore" /\ op'[p].ids = moved /\ op'[p].kind = op[p].kind
              /\ op'[p].txt = op[p].txt /\ op'[p].expect = op[p].expect
              /\ op'[p].outer = op[p].outer /\ op'[p].before = op[p].before
              /\ op'[p].after = op[p].after
<1> DEFINE moved == {i \in Requested(p) : rows[i] # op[p].outer[i]}
           o == [op[p] EXCEPT !.pc = "restore", !.ids = moved]
<1>0. op \in [Procs -> Ops] /\ op[p] \in Ops /\ moved \in SUBSET Ids
  BY OpTypes DEF TypeOK, Requested
<1>1. CASE \A i \in moved : rows[i] = HumanRow(TheSource, op[p].txt[i])
  <2>1. op' = [op EXCEPT ![p].pc = "restore", ![p].ids = moved]
    BY <1>1 DEF ReadUndo
  <2>. HIDE DEF moved
  <2>2. op' = [op EXCEPT ![p] = o]
    BY <2>1, <1>0
  <2>3. o \in Ops
    BY <1>0 DEF Ops, PCs
  <2>4. /\ o.pc = "restore" /\ o.ids = moved /\ o.kind = op[p].kind
        /\ o.txt = op[p].txt /\ o.expect = op[p].expect
        /\ o.outer = op[p].outer /\ o.before = op[p].before /\ o.after = op[p].after
    BY <1>0 DEF Ops
  <2>5. op' \in [Procs -> Ops] /\ op'[p] = o /\ \A q \in Procs \ {p} : op'[q] = op[q]
    BY <1>0, <2>2, <2>3
  <2>. HIDE DEF o
  <2>. QED  BY <1>1, <2>4, <2>5 DEF moved
<1>2. CASE ~\A i \in moved : rows[i] = HumanRow(TheSource, op[p].txt[i])
  BY <1>2 DEF ReadUndo
<1>. QED  BY <1>1, <1>2

LEMMA AppendStep ==
    ASSUME TypeOK, NEW p \in Procs, AppendLog(p)
    PROVE  LET e == [kind |-> op[p].kind, ids |-> op[p].ids,
                     before |-> op[p].before, after |-> op[p].after] IN
           /\ e \in Entries /\ log' = Append(log, e) /\ log' \in Seq(Entries)
           /\ Len(log') = Len(log) + 1 /\ log'[Len(log) + 1] = e
           /\ \A n \in 1..Len(log) : log'[n] = log[n]
BY OpTypes, AppendProperties DEF TypeOK, AppendLog

\* Where an operation that is not appended goes.
Compensated(p) ==
    \/ op[p].kind \in {"commit", "unify"} /\ op' = [op EXCEPT ![p].pc = "undo"]
    \/ op[p].kind = "revert" /\ op' = [op EXCEPT ![p].pc = "restore"]
    \/ op[p].kind \in Marks /\ Finish(p)

LEMMA CompensatedStep ==
    ASSUME NEW p \in Procs, op[p].kind \in Mutations \cup Marks, CompensatedFrom(p)
    PROVE  Compensated(p)
<1>1. CASE op[p].kind \in {"commit", "unify"}
  BY <1>1 DEF CompensatedFrom, Compensated
<1>2. CASE op[p].kind = "revert"
  BY <1>2 DEF CompensatedFrom, Compensated
<1>3. CASE op[p].kind \in Marks
  BY <1>3 DEF CompensatedFrom, Compensated, Marks, Finish
<1>. QED  BY <1>1, <1>2, <1>3 DEF Mutations

LEMMA RestoredType ==
    ASSUME rows \in Tables, NEW D \in SUBSET Ids, NEW image \in Tables
    PROVE  Restored(D, image) \in Tables
BY DEF Restored, Tables

\* What a commit writes, which the guard of the upsert always lets pass.
Decided(p) == [i \in Ids |-> IF i \in op[p].ids THEN HumanRow(TheSource, op[p].txt[i]) ELSE NoRow]

LEMMA WriteStep ==
    ASSUME TypeOK, NEW p \in Procs, Write(p)
    PROVE  /\ rows' \in Tables /\ op' = [op EXCEPT ![p].pc = "after"]
           /\ UNCHANGED <<log, ledger, broken, base>>
           /\ \A i \in Ids : rows'[i] = IF i \in op[p].ids
                                        THEN HumanRow(TheSource, op[p].txt[i]) ELSE rows[i]
<1>1. op[p].ids \in SUBSET Ids /\ op[p].txt \in [Ids -> Txts]
  BY OpTypes DEF TypeOK
<1>2. Decided(p) \in Tables
  BY <1>1, Givens DEF Decided, Tables
<1>3. rows' = Upserted(rows, Decided(p))
  BY DEF Write, Decided
<1>4. \A i \in op[p].ids : HumanRow(TheSource, op[p].txt[i]) # NoRow
  BY <1>1, Givens, NoRowIsNotARow
<1>5. \A t : HumanRow(TheSource, t).formal /\ HumanRow(TheSource, t).origin = "human"
  BY DEF HumanRow
<1>6. \A i \in Ids : rows'[i] = IF i \in op[p].ids
                                THEN HumanRow(TheSource, op[p].txt[i]) ELSE rows[i]
  BY <1>3, <1>4, <1>5 DEF Upserted, Admitted, Gate, Decided
<1>7. rows' \in Tables
  BY <1>2, <1>3, TableTypes DEF TypeOK
<1>. QED  BY <1>6, <1>7 DEF Write

LEMMA CliStep ==
    ASSUME TypeOK, CliWrite
    PROVE  \E i \in Ids, new \in Restorations :
               /\ rows' \in Tables
               /\ rows' = Upserted(rows, [None EXCEPT ![i] = new])
               /\ \A j \in Ids : rows'[j] = rows[j] \/ rows'[j] = new
<1>1. PICK i \in Ids, new \in Restorations : rows' = Upserted(rows, [None EXCEPT ![i] = new])
  BY DEF CliWrite
<1>2. [None EXCEPT ![i] = new] \in Tables
  BY Givens DEF None, Tables
<1>3. \A j \in Ids : rows'[j] = rows[j] \/ rows'[j] = new
  BY <1>1 DEF Upserted, None
<1>4. rows' \in Tables
  BY <1>1, <1>2, TableTypes DEF TypeOK
<1>. QED  BY <1>1, <1>3, <1>4

\* The steps that start an operation.
LEMMA BeginStep ==
    ASSUME TypeOK, NEW p \in Procs, Begin(p)
    PROVE  \E kind \in {"commit", "unify"}, D \in SUBSET Ids, txt \in [Ids -> Txts] :
               /\ kind = "unify" => Divergent(D, txt) = {}
               /\ op' \in [Procs -> Ops] /\ \A q \in Procs \ {p} : op'[q] = op[q]
               /\ op'[p].pc = "before" /\ op'[p].kind = kind /\ op'[p].ids = D
               /\ op'[p].txt = txt /\ op'[p].outer = Restricted(rows, D)
               /\ op'[p].before = None /\ op'[p].after = None
<1>1. PICK kind \in Kinds \cap {"commit", "unify"}, D \in (SUBSET Ids) \ {{}},
           txt \in [Ids -> Txts], override \in BOOLEAN, expect \in 0..Revision \cup {NoRevision} :
               /\ kind = "unify" => (\A i, j \in D : txt[i] = txt[j]) /\ Divergent(D, txt) = {}
               /\ Serves(p, BegunOp(kind, D, txt, override, expect))
  BY Zenon DEF Begin, Serves, BegunOp
<1>2. Revision \in Nat
  BY LenProperties DEF TypeOK, Revision
<1>3. /\ kind \in Mutations \cup Marks /\ expect \in Nat \cup {NoRevision}
      /\ D \in SUBSET Ids /\ rows \in Tables /\ override \in BOOLEAN
  BY <1>2 DEF Mutations, TypeOK
<1> DEFINE o == BegunOp(kind, D, txt, override, expect)
<1>. HIDE DEF o
<1>4. /\ o \in Ops /\ o.pc = "before" /\ o.kind = kind /\ o.ids = D /\ o.txt = txt
      /\ o.outer = Restricted(rows, D) /\ o.before = None /\ o.after = None
  <2>1. Restricted(rows, D) \in Tables
    BY <1>3, TableTypes
  <2>2. Rest.before = None /\ Rest.after = None
    BY DEF Rest
  <2>. QED  BY <1>3, <2>1, <2>2, Givens DEF o, BegunOp, Ops, PCs
<1>5. op' \in [Procs -> Ops] /\ op'[p] = o /\ \A q \in Procs \ {p} : op'[q] = op[q]
  BY <1>1, <1>4, Served DEF TypeOK, o
<1>. QED  BY <1>1, <1>4, <1>5

LEMMA BeginRevertStep ==
    ASSUME TypeOK, NEW p \in Procs, BeginRevert(p)
    PROVE  \E D \in SUBSET Ids : \E n \in [D -> 1..Len(log)] :
               /\ \A i \in D : Revertible(n[i], i)
               /\ op' \in [Procs -> Ops] /\ \A q \in Procs \ {p} : op'[q] = op[q]
               /\ op'[p].pc = "revert" /\ op'[p].kind = "revert" /\ op'[p].ids = D
               /\ op'[p].expect = Revision /\ op'[p].before = Restricted(rows, D)
               /\ op'[p].outer = Restricted(rows, D)
               /\ op'[p].after = [i \in Ids |-> IF i \in D THEN log[n[i]].before[i] ELSE NoRow]
<1>1. PICK D \in (SUBSET Ids) \ {{}} :
           \E n \in [D -> 1..Len(log)] : (\A i \in D : Revertible(n[i], i)) /\ Serves(p, RevertOp(D, n))
  BY Zenon DEF BeginRevert, Serves, RevertOp
<1>2. PICK n \in [D -> 1..Len(log)] : (\A i \in D : Revertible(n[i], i)) /\ Serves(p, RevertOp(D, n))
  BY <1>1
<1> DEFINE o == RevertOp(D, n)
<1>3. /\ o \in Ops /\ o.pc = "revert" /\ o.kind = "revert" /\ o.ids = D
      /\ o.expect = Revision /\ o.before = Restricted(rows, D) /\ o.outer = Restricted(rows, D)
      /\ o.after = [i \in Ids |-> IF i \in D THEN log[n[i]].before[i] ELSE NoRow]
  BY RevertType
<1>. HIDE DEF o
<1>4. op' \in [Procs -> Ops] /\ op'[p] = o /\ \A q \in Procs \ {p} : op'[q] = op[q]
  BY <1>2, <1>3, Served DEF TypeOK, o
<1>. QED  BY <1>2, <1>3, <1>4

LEMMA BeginMarkStep ==
    ASSUME TypeOK, NEW p \in Procs, BeginMark(p)
    PROVE  /\ op' \in [Procs -> Ops] /\ \A q \in Procs \ {p} : op'[q] = op[q]
           /\ op'[p].pc = "append" /\ op'[p].kind \in Marks
           /\ op'[p].before = None /\ op'[p].after = None /\ op'[p].outer = None
<1>1. PICK kind \in Kinds \cap Marks, i \in Ids, expect \in 0..Revision \cup {NoRevision} :
               Serves(p, MarkOp(kind, i, expect))
  BY DEF BeginMark, Serves, MarkOp
<1>2. Revision \in Nat
  BY LenProperties DEF TypeOK, Revision
<1>3. kind \in Mutations \cup Marks /\ expect \in Nat \cup {NoRevision}
  BY <1>2
<1> DEFINE o == MarkOp(kind, i, expect)
<1>4. /\ o \in Ops /\ o.pc = "append" /\ o.kind = kind
      /\ o.before = None /\ o.after = None /\ o.outer = None
  BY <1>3, MarkType
<1>. HIDE DEF o
<1>5. op' \in [Procs -> Ops] /\ op'[p] = o /\ \A q \in Procs \ {p} : op'[q] = op[q]
  BY <1>1, <1>4, Served DEF TypeOK, o
<1>. QED  BY <1>4, <1>5

LEMMA CheckRevisionStep ==
    ASSUME TypeOK, NEW p \in Procs, CheckRevision(p)
    PROVE  /\ op[p].pc = "append" /\ UNCHANGED <<rows, log, ledger, broken, base>>
           /\ \/ op[p].expect \in {NoRevision, Revision} /\ op' = [op EXCEPT ![p].pc = "file"]
              \/ op[p].expect # Revision /\ Compensated(p)
<1>1. op[p].kind \in Mutations \cup Marks
  BY OpTypes DEF TypeOK
<1>. QED  BY <1>1, CompensatedStep DEF CheckRevision

LEMMA FailAppendStep ==
    ASSUME TypeOK, NEW p \in Procs, FailAppend(p)
    PROVE  /\ op[p].pc = "file" /\ op[p].kind \in FailIn /\ broken'
           /\ Finish(p) \/ Compensated(p)
           /\ UNCHANGED <<rows, log, ledger, base>>
<1>1. op[p].kind \in Mutations \cup Marks
  BY OpTypes DEF TypeOK
<1>. QED  BY <1>1, CompensatedStep DEF FailAppend

LEMMA CompensatedType ==
    ASSUME TypeOK, NEW p \in Procs, Finish(p) \/ Compensated(p)
    PROVE  /\ op' \in [Procs -> Ops] /\ \A q \in Procs \ {p} : op'[q] = op[q]
           /\ op'[p].pc \in {"idle", "undo", "restore"}
BY Moved, Finished DEF TypeOK, Compensated, PCs

LEMMA InitType == Init => TypeOK
<1>. SUFFICES ASSUME Init PROVE TypeOK
  OBVIOUS
<1>1. rows \in Tables
  BY Givens DEF Init, Tables
<1>2. log \in Seq(Entries)
  BY EmptySeq DEF Init
<1>. QED  BY <1>1, <1>2, Givens DEF Init, TypeOK, LedgerStates

\* Steps that leave everything but the operation alone.
LEMMA OnlyOp ==
    ASSUME TypeOK, op' \in [Procs -> Ops], UNCHANGED <<rows, log, ledger, broken, base>>
    PROVE  TypeOK'
BY DEF TypeOK

LEMMA NextType == TypeOK /\ [Next]_vars => TypeOK'
<1>. SUFFICES ASSUME TypeOK, [Next]_vars PROVE TypeOK'
  OBVIOUS
<1>0. op \in [Procs -> Ops] /\ Revision \in Nat
  BY LenProperties DEF TypeOK, Revision
<1>1. ASSUME NEW p \in Procs, Begin(p) PROVE TypeOK'
  BY <1>1, BeginStep, OnlyOp DEF Begin
<1>2. ASSUME NEW p \in Procs, BeginRevert(p) PROVE TypeOK'
  BY <1>2, BeginRevertStep, OnlyOp DEF BeginRevert
<1>3. ASSUME NEW p \in Procs, BeginMark(p) PROVE TypeOK'
  BY <1>3, BeginMarkStep, OnlyOp DEF BeginMark
<1>4. ASSUME NEW p \in Procs, ReadBefore(p) PROVE TypeOK'
  BY <1>0, <1>4, ReadBeforeStep, Finished, OnlyOp DEF ReadBefore
<1>5. ASSUME NEW p \in Procs, Write(p) PROVE TypeOK'
  BY <1>0, <1>5, WriteStep, Moved DEF TypeOK, PCs
<1>6. ASSUME NEW p \in Procs, ReadAfter(p) PROVE TypeOK'
  BY <1>6, ReadAfterStep, OnlyOp DEF ReadAfter
<1>7. ASSUME NEW p \in Procs, Revert(p) PROVE TypeOK'
  <2>1. Restored(op[p].ids, op[p].after) \in Tables
    BY OpTypes, RestoredType DEF TypeOK
  <2>2. rows' \in Tables /\ UNCHANGED <<log, ledger, broken, base>>
    BY <1>7, <2>1 DEF Revert, TypeOK
  <2>3. op' = [op EXCEPT ![p].pc = "after"] \/ Finish(p)
    BY <1>7 DEF Revert
  <2>4. op' \in [Procs -> Ops]
    BY <1>0, <2>3, Moved, Finished DEF PCs
  <2>. QED  BY <2>2, <2>4 DEF TypeOK
<1>8. ASSUME NEW p \in Procs, CheckRevision(p) PROVE TypeOK'
  BY <1>0, <1>8, CheckRevisionStep, CompensatedType, Moved, OnlyOp DEF PCs
<1>9. ASSUME NEW p \in Procs, AppendLog(p) PROVE TypeOK'
  BY <1>0, <1>9, AppendStep, Moved DEF TypeOK, PCs, AppendLog
<1>10. ASSUME NEW p \in Procs, FailAppend(p) PROVE TypeOK'
  BY <1>10, FailAppendStep, CompensatedType DEF TypeOK
<1>11. ASSUME NEW p \in Procs, SaveLedger(p) PROVE TypeOK'
  <2>1. op[p].kind \in Mutations \cup Marks
    BY <1>0, OpTypes
  <2>2. Marked(op[p].kind) \in LedgerStates
    BY <2>1 DEF Marked, LedgerStates, Mutations, Marks
  <2>3. ledger' \in [Ids -> LedgerStates]
    BY <1>11, <2>2 DEF SaveLedger, TypeOK
  <2>. QED  BY <1>0, <1>11, <2>3, Finished DEF SaveLedger, TypeOK
<1>12. ASSUME NEW p \in Procs, ReadUndo(p) PROVE TypeOK'
  BY <1>0, <1>12, ReadUndoStep, Finished, OnlyOp DEF ReadUndo
<1>13. ASSUME NEW p \in Procs, Restore(p) PROVE TypeOK'
  <2>1. Restored(op[p].ids, op[p].outer) \in Tables
    BY OpTypes, RestoredType DEF TypeOK
  <2>2. rows' \in Tables
    BY <1>13, <2>1 DEF Restore, TypeOK
  <2>. QED  BY <1>0, <1>13, <2>2, Finished DEF Restore, TypeOK
<1>14. ASSUME NEW p \in Procs, Crash(p) PROVE TypeOK'
  BY <1>0, <1>14, Finished DEF Crash, TypeOK
<1>15. CASE CliWrite
  BY <1>15, CliStep DEF CliWrite, TypeOK
<1>16. CASE UNCHANGED vars
  BY <1>16 DEF vars, TypeOK
<1>. QED
  BY <1>1, <1>2, <1>3, <1>4, <1>5, <1>6, <1>7, <1>8, <1>9, <1>10, <1>11, <1>12, <1>13, <1>14,
     <1>15, <1>16 DEF Next

\* Rows, log, ledger and operations keep their types, with any number of dashboards, a
\* CLI at any time, failed appends and kills.
THEOREM TypeCorrect == Spec => []TypeOK
BY InitType, NextType, PTL DEF Spec

(********************************* the log *********************************)
LEMMA Greatest ==
    ASSUME NEW k \in Nat, NEW N, N \subseteq 1..k, N # {}
    PROVE  \E n \in N : \A m \in N : m <= n
<1> DEFINE B == {b \in Nat : \A m \in N : m <= b}
<1>1. B \subseteq Nat /\ k \in B
  OBVIOUS
<1>2. PICK b \in B : \A c \in B : ~ (<<c, b>> \in OpToRel(<, Nat))
  BY <1>1, NatLessThanWellFounded, WFMin
<1>3. \A c \in B : ~ (c < b)
  BY <1>2 DEF OpToRel
<1>4. b \in N
  <2>. SUFFICES ASSUME b \notin N PROVE FALSE
    OBVIOUS
  <2>1. \A m \in N : m <= b - 1 /\ b - 1 \in Nat
    OBVIOUS
  <2>2. b - 1 \in Nat
    BY <2>1
  <2>3. b - 1 \in B /\ b - 1 < b
    BY <2>1, <2>2
  <2>. QED  BY <1>3, <2>3
<1>. QED  BY <1>4

\* The entries of a log that changed i, and the latest of them.
Changing(L, i) == {n \in 1..Len(L) : L[n].kind \in Mutations /\ i \in L[n].ids}

LatestOf(L, i) ==
    IF Changing(L, i) = {} THEN 0
    ELSE CHOOSE n \in Changing(L, i) : \A m \in Changing(L, i) : m <= n

LEMMA LatestIsThis ==
    ASSUME NEW L \in Seq(Entries), NEW i, NEW n \in Changing(L, i), \A m \in Changing(L, i) : m <= n
    PROVE  LatestOf(L, i) = n
<1> DEFINE C == Changing(L, i)
           c == CHOOSE x \in C : \A m \in C : m <= x
<1>1. C \subseteq Nat
  BY LenProperties DEF Changing
<1>. HIDE DEF C
<1>2. c \in C /\ \A m \in C : m <= c
  BY DEF C
<1>3. c = n
  BY <1>1, <1>2 DEF C
<1>. QED  BY <1>3 DEF LatestOf, C

LEMMA LatestOfFacts ==
    ASSUME NEW L \in Seq(Entries), NEW i
    PROVE  \/ Changing(L, i) = {} /\ LatestOf(L, i) = 0
           \/ /\ LatestOf(L, i) \in Changing(L, i) /\ LatestOf(L, i) \in 1..Len(L)
              /\ \A m \in Changing(L, i) : m <= LatestOf(L, i)
<1>1. Len(L) \in Nat /\ Changing(L, i) \subseteq 1..Len(L)
  BY LenProperties DEF Changing
<1>2. CASE Changing(L, i) # {}
  <2>1. PICK n \in Changing(L, i) : \A m \in Changing(L, i) : m <= n
    BY <1>1, <1>2, Greatest
  <2>. QED  BY <1>1, <2>1, LatestIsThis
<1>. QED  BY <1>2 DEF LatestOf

LEMMA LatestAppended ==
    ASSUME NEW L \in Seq(Entries), NEW e \in Entries, NEW i
    PROVE  LatestOf(Append(L, e), i) =
               IF e.kind \in Mutations /\ i \in e.ids THEN Len(L) + 1 ELSE LatestOf(L, i)
<1> DEFINE M == Append(L, e)
<1>1. /\ M \in Seq(Entries) /\ Len(M) = Len(L) + 1 /\ M[Len(L) + 1] = e /\ Len(L) \in Nat
      /\ \A n \in 1..Len(L) : M[n] = L[n]
  BY AppendProperties, LenProperties
<1>. HIDE DEF M
<1>2. CASE e.kind \in Mutations /\ i \in e.ids
  <2>1. Len(L) + 1 \in Changing(M, i) /\ \A m \in Changing(M, i) : m <= Len(L) + 1
    BY <1>1, <1>2 DEF Changing
  <2>. QED  BY <1>1, <1>2, <2>1, LatestIsThis DEF M
<1>3. CASE ~ (e.kind \in Mutations /\ i \in e.ids)
  <2>1. Changing(M, i) = Changing(L, i)
    BY <1>1, <1>3 DEF Changing
  <2>. QED  BY <1>3, <2>1 DEF LatestOf, M
<1>. QED  BY <1>2, <1>3

\* The entries that touch i, and the state the first m entries give it.
TouchingIn(L, i) == {n \in 1..Len(L) : i \in L[n].ids}

StateIn(L, i, m) ==
    IF {n \in TouchingIn(L, i) : n <= m} = {} THEN "pending"
    ELSE Rebuilt(L[CHOOSE n \in {n \in TouchingIn(L, i) : n <= m} :
                       \A k \in {n2 \in TouchingIn(L, i) : n2 <= m} : k <= n].kind)

LEMMA StateAppended ==
    ASSUME NEW L \in Seq(Entries), NEW e \in Entries, NEW i
    PROVE  /\ \A m \in 0..Len(L) : StateIn(Append(L, e), i, m) = StateIn(L, i, m)
           /\ StateIn(Append(L, e), i, Len(L) + 1) =
                  IF i \in e.ids THEN Rebuilt(e.kind) ELSE StateIn(L, i, Len(L))
           /\ TouchingIn(Append(L, e), i) = TouchingIn(L, i) \cup (IF i \in e.ids THEN {Len(L) + 1} ELSE {})
<1> DEFINE M == Append(L, e)
<1>1. /\ M \in Seq(Entries) /\ Len(M) = Len(L) + 1 /\ M[Len(L) + 1] = e /\ Len(L) \in Nat
      /\ \A n \in 1..Len(L) : M[n] = L[n]
  BY AppendProperties, LenProperties
<1>. HIDE DEF M
<1> DEFINE N(K, m) == {n \in TouchingIn(K, i) : n <= m}
           T(K, m) == CHOOSE n \in N(K, m) : \A k \in N(K, m) : k <= n
<1>2. \A K, m : StateIn(K, i, m) = IF N(K, m) = {} THEN "pending" ELSE Rebuilt(K[T(K, m)].kind)
  BY DEF StateIn
<1>3. TouchingIn(M, i) = TouchingIn(L, i) \cup (IF i \in e.ids THEN {Len(L) + 1} ELSE {})
  BY <1>1 DEF TouchingIn
<1>4. \A m \in 0..Len(L) : N(M, m) = N(L, m) /\ N(L, m) \subseteq 1..Len(L)
  BY <1>1, <1>3 DEF TouchingIn
<1>5. ASSUME NEW m \in 0..Len(L)
      PROVE  StateIn(M, i, m) = StateIn(L, i, m)
  <2>1. T(M, m) = T(L, m) /\ N(M, m) = N(L, m)
    BY <1>4
  <2>2. CASE N(L, m) # {}
    <3>1. \E n \in N(L, m) : \A k \in N(L, m) : k <= n
      BY <1>1, <1>4, <2>2, Greatest
    <3>2. T(L, m) \in 1..Len(L)
      BY <1>4, <3>1
    <3>. HIDE DEF N, T
    <3>. QED  BY <1>1, <1>2, <2>1, <3>2
  <2>3. CASE N(L, m) = {}
    <3>. HIDE DEF N, T
    <3>. QED  BY <1>2, <2>1, <2>3
  <2>. QED  BY <2>2, <2>3
<1>6. CASE i \in e.ids
  <2>1. Len(L) + 1 \in N(M, Len(L) + 1) /\ \A k \in N(M, Len(L) + 1) : k <= Len(L) + 1
    BY <1>1, <1>3, <1>6 DEF TouchingIn
  <2>2. N(M, Len(L) + 1) \subseteq Nat
    BY <1>1 DEF TouchingIn
  <2>3. T(M, Len(L) + 1) = Len(L) + 1
    <3>1. T(M, Len(L) + 1) \in N(M, Len(L) + 1)
          /\ \A k \in N(M, Len(L) + 1) : k <= T(M, Len(L) + 1)
      BY <2>1
    <3>. HIDE DEF N, T
    <3>. QED  BY <1>1, <2>1, <2>2, <3>1
  <2>. HIDE DEF N, T
  <2>4. StateIn(M, i, Len(L) + 1) = Rebuilt(M[Len(L) + 1].kind)
    BY <1>2, <2>1, <2>3
  <2>. QED  BY <1>1, <1>3, <1>5, <1>6, <2>4 DEF M
<1>7. CASE i \notin e.ids
  <2>1. TouchingIn(M, i) = TouchingIn(L, i)
    BY <1>3, <1>7
  <2>2. N(M, Len(L) + 1) = N(L, Len(L))
    BY <1>1, <2>1 DEF TouchingIn
  <2>3. Len(L) \in 0..Len(L) /\ N(M, Len(L)) = N(L, Len(L))
    BY <1>1, <1>4
  <2>4. T(M, Len(L) + 1) = T(M, Len(L))
    BY <2>2, <2>3
  <2>. HIDE DEF N, T
  <2>. QED  BY <1>2, <1>3, <1>5, <1>7, <2>2, <2>3, <2>4 DEF M
<1>. QED  BY <1>6, <1>7

\* These are the operators of the model.
LEMMA LogOperators ==
    /\ \A i : LatestMutation(i) = LatestOf(log, i)
    /\ \A i : LatestMutation(i)' = LatestOf(log', i)
    /\ \A i, m : StateAt(i, m) = StateIn(log, i, m)
    /\ \A i, m : StateAt(i, m)' = StateIn(log', i, m)
    /\ \A i : StateAt(i, Revision) = StateIn(log, i, Len(log))
    /\ \A i : StateAt(i, Revision)' = StateIn(log', i, Len(log'))
    /\ \A i : Touching(i) = TouchingIn(log, i) /\ Touching(i)' = TouchingIn(log', i)
BY DEF LatestMutation, LatestOf, Changing, StateAt, StateIn, Touching, TouchingIn, Revision

\* What an appended entry changes of what the log says; every other step changes nothing.
LEMMA AppendedLog ==
    ASSUME TypeOK, NEW p \in Procs, AppendLog(p), NEW i \in Ids
    PROVE  /\ Revision \in Nat /\ Revision' = Revision + 1
           /\ LatestMutation(i)' = IF op[p].kind \in Mutations /\ i \in op[p].ids
                                   THEN Revision + 1 ELSE LatestMutation(i)
           /\ Replayed(i)' = IF op[p].kind \in Mutations /\ i \in op[p].ids
                             THEN op[p].after[i] ELSE Replayed(i)
           /\ \A m \in 0..Revision : StateAt(i, m)' = StateAt(i, m)
           /\ StateAt(i, Revision)' = IF i \in op[p].ids THEN Rebuilt(op[p].kind)
                                      ELSE StateAt(i, Revision)
           /\ Touching(i)' = Touching(i) \cup (IF i \in op[p].ids THEN {Revision + 1} ELSE {})
<1> DEFINE e == [kind |-> op[p].kind, ids |-> op[p].ids,
                 before |-> op[p].before, after |-> op[p].after]
<1>1. /\ e \in Entries /\ log' = Append(log, e) /\ log \in Seq(Entries)
      /\ log'[Len(log) + 1] = e /\ Len(log') = Len(log) + 1 /\ Len(log) \in Nat
      /\ \A n \in 1..Len(log) : log'[n] = log[n]
  BY AppendStep, LenProperties DEF TypeOK
<1>2. e.kind = op[p].kind /\ e.ids = op[p].ids /\ e.after = op[p].after
  OBVIOUS
<1>. HIDE DEF e
<1>3. LatestMutation(i)' = IF op[p].kind \in Mutations /\ i \in op[p].ids
                           THEN Len(log) + 1 ELSE LatestMutation(i)
  BY <1>1, <1>2, LatestAppended, LogOperators
<1>4. LatestMutation(i) \in 0..Len(log)
  BY <1>1, LatestOfFacts, LogOperators
<1>5. base' = base
  BY DEF AppendLog
<1>6. Replayed(i)' = IF op[p].kind \in Mutations /\ i \in op[p].ids
                     THEN op[p].after[i] ELSE Replayed(i)
  BY <1>1, <1>2, <1>3, <1>4, <1>5 DEF Replayed
<1>7. /\ \A m \in 0..Len(log) : StateAt(i, m)' = StateAt(i, m)
      /\ StateAt(i, Revision)' = IF i \in op[p].ids THEN Rebuilt(op[p].kind)
                                 ELSE StateAt(i, Revision)
      /\ Touching(i)' = Touching(i) \cup (IF i \in op[p].ids THEN {Len(log) + 1} ELSE {})
  <2>1. /\ \A m \in 0..Len(log) : StateIn(log', i, m) = StateIn(log, i, m)
        /\ StateIn(log', i, Len(log) + 1) = IF i \in e.ids THEN Rebuilt(e.kind)
                                            ELSE StateIn(log, i, Len(log))
        /\ TouchingIn(log', i) = TouchingIn(log, i) \cup (IF i \in e.ids THEN {Len(log) + 1} ELSE {})
    BY <1>1, StateAppended
  <2>. QED  BY <1>1, <1>2, <2>1, LogOperators
<1>. QED  BY <1>1, <1>3, <1>6, <1>7 DEF Revision

LEMMA SameLog ==
    ASSUME UNCHANGED <<log, base>>
    PROVE  /\ Revision' = Revision
           /\ \A i : LatestMutation(i)' = LatestMutation(i)
           /\ \A i : Replayed(i)' = Replayed(i)
           /\ \A i, m : StateAt(i, m)' = StateAt(i, m)
           /\ \A i : StateAt(i, Revision)' = StateAt(i, Revision)
           /\ \A i : Touching(i)' = Touching(i)
BY DEF Revision, LatestMutation, Replayed, StateAt, Touching

(*************************** where a step arrives ***************************)
StepOf(p) ==
    \/ Begin(p) \/ ReadBefore(p) \/ Write(p) \/ ReadAfter(p)
    \/ BeginRevert(p) \/ Revert(p) \/ BeginMark(p)
    \/ CheckRevision(p) \/ AppendLog(p) \/ FailAppend(p) \/ SaveLedger(p)
    \/ ReadUndo(p) \/ Restore(p) \/ Crash(p)

LEMMA StepsOfNext ==
    [Next]_vars => (\E p \in Procs : StepOf(p)) \/ CliWrite \/ UNCHANGED vars
BY DEF Next, StepOf

\* Every state of an operation is entered by the step that is named here.
Arrives(p) ==
    /\ op' \in [Procs -> Ops] /\ \A q \in Procs \ {p} : op'[q] = op[q]
    /\ op'[p].pc = "before" => Begin(p)
    /\ op'[p].pc = "write" => ReadBefore(p)
    /\ op'[p].pc = "after" => Write(p) \/ Revert(p)
    /\ op'[p].pc = "append" => ReadAfter(p) \/ BeginMark(p)
    /\ op'[p].pc = "file" => CheckRevision(p)
    /\ op'[p].pc = "ledger" => AppendLog(p)
    /\ op'[p].pc = "revert" => BeginRevert(p)
    /\ op'[p].pc = "undo" => CheckRevision(p) \/ FailAppend(p)
    /\ op'[p].pc = "restore" => ReadUndo(p) \/ CheckRevision(p) \/ FailAppend(p)
    /\ op[p].pc = "ledger" => SaveLedger(p) \/ Crash(p)
    /\ UNCHANGED log \/ AppendLog(p)
    /\ UNCHANGED ledger \/ SaveLedger(p)
    /\ UNCHANGED rows \/ Write(p) \/ Revert(p) \/ Restore(p)
    /\ UNCHANGED broken \/ FailAppend(p) \/ Crash(p)
    /\ UNCHANGED base

LEMMA Arrivals ==
    ASSUME TypeOK, NEW p \in Procs, StepOf(p)
    PROVE  Arrives(p)
<1>0. op \in [Procs -> Ops]
  BY DEF TypeOK
<1>1. CASE Begin(p)
  BY <1>1, BeginStep DEF Arrives, Begin
<1>2. CASE BeginRevert(p)
  BY <1>2, BeginRevertStep DEF Arrives, BeginRevert
<1>3. CASE BeginMark(p)
  BY <1>3, BeginMarkStep DEF Arrives, BeginMark
<1>4. CASE ReadBefore(p)
  BY <1>0, <1>4, ReadBeforeStep, Finished DEF Arrives, ReadBefore
<1>5. CASE Write(p)
  <2>1. op' \in [Procs -> Ops] /\ (\A q \in Procs \ {p} : op'[q] = op[q]) /\ op'[p].pc = "after"
    BY <1>0, <1>5, WriteStep, Moved DEF PCs
  <2>. QED  BY <1>5, <2>1 DEF Arrives, Write
<1>6. CASE ReadAfter(p)
  BY <1>6, ReadAfterStep DEF Arrives, ReadAfter
<1>7. CASE Revert(p)
  <2>1. op' = [op EXCEPT ![p].pc = "after"] \/ Finish(p)
    BY <1>7 DEF Revert
  <2>2. /\ op' \in [Procs -> Ops] /\ \A q \in Procs \ {p} : op'[q] = op[q]
        /\ op'[p].pc \in {"after", "idle"}
    BY <1>0, <2>1, Moved, Finished DEF PCs
  <2>. QED  BY <1>7, <2>2 DEF Arrives, Revert
<1>8. CASE CheckRevision(p)
  <2>1. /\ op' \in [Procs -> Ops] /\ \A q \in Procs \ {p} : op'[q] = op[q]
        /\ op'[p].pc \in {"file", "idle", "undo", "restore"}
    BY <1>0, <1>8, CheckRevisionStep, CompensatedType, Moved DEF PCs
  <2>. QED  BY <1>8, <2>1, CheckRevisionStep DEF Arrives
<1>9. CASE AppendLog(p)
  <2>1. op' \in [Procs -> Ops] /\ (\A q \in Procs \ {p} : op'[q] = op[q]) /\ op'[p].pc = "ledger"
    BY <1>0, <1>9, Moved DEF PCs, AppendLog
  <2>. QED  BY <1>9, <2>1 DEF Arrives, AppendLog
<1>10. CASE FailAppend(p)
  BY <1>10, FailAppendStep, CompensatedType DEF Arrives
<1>11. CASE SaveLedger(p)
  BY <1>0, <1>11, Finished DEF Arrives, SaveLedger
<1>12. CASE ReadUndo(p)
  BY <1>0, <1>12, ReadUndoStep, Finished DEF Arrives, ReadUndo
<1>13. CASE Restore(p)
  BY <1>0, <1>13, Finished DEF Arrives, Restore
<1>14. CASE Crash(p)
  BY <1>0, <1>14, Finished DEF Arrives, Crash
<1>. QED
  BY <1>1, <1>2, <1>3, <1>4, <1>5, <1>6, <1>7, <1>8, <1>9, <1>10, <1>11, <1>12, <1>13, <1>14
  DEF StepOf

OneDashboard == \E p : Procs = {p}

(************************* revisions and reverts **************************)
\* One dashboard tests the revision and appends with nothing in between.
RevisionTested ==
    \A p \in Procs : op[p].pc = "file" => op[p].expect \in {NoRevision, Revision}

LEMMA TestedNext ==
    ASSUME OneDashboard, TypeOK, RevisionTested, [Next]_vars
    PROVE  RevisionTested'
<1>1. ASSUME NEW p \in Procs, StepOf(p) PROVE RevisionTested'
  <2>. SUFFICES ASSUME op'[p].pc = "file" PROVE op'[p].expect \in {NoRevision, Revision'}
    BY DEF RevisionTested, OneDashboard
  <2>1. CheckRevision(p) /\ op'[p].pc \notin {"idle", "undo", "restore"}
    BY <1>1, Arrivals DEF Arrives
  <2>2. op[p].expect \in {NoRevision, Revision} /\ op' = [op EXCEPT ![p].pc = "file"]
    BY <2>1, CheckRevisionStep, CompensatedType
  <2>3. op'[p].expect = op[p].expect /\ Revision' = Revision
    BY <2>1, <2>2, Moved, CheckRevisionStep, SameLog DEF TypeOK, PCs
  <2>. QED  BY <2>2, <2>3
<1>2. CASE CliWrite \/ UNCHANGED vars
  BY <1>2, SameLog DEF RevisionTested, CliWrite, vars
<1>. QED  BY <1>1, <1>2, StepsOfNext

\* With one dashboard, a writer that passed the revision it read appends directly after
\* that revision, whatever a CLI writes, whichever appends fail and wherever it is killed.
THEOREM ExpectedRevisions == ASSUME OneDashboard PROVE Spec => RevisionHonoured
<1>1. Init => RevisionTested
  BY Givens DEF Init, RevisionTested
<1>2. TypeOK /\ RevisionTested /\ [Next]_vars => RevisionTested'
  BY TestedNext
<1>3. RevisionTested =>
          \A p \in Procs : op[p].pc = "file" /\ op'[p].pc = "ledger"
                           /\ op[p].expect # NoRevision => op[p].expect = Revision
  BY DEF RevisionTested
<1>. QED  BY <1>1, <1>2, <1>3, InitType, NextType, PTL DEF Spec, RevisionHonoured

\* A revert under way was given rows that are the after-images of the decisions it
\* undoes.
RevertsFresh ==
    \A p \in Procs : op[p].pc = "revert" =>
        \A i \in op[p].ids : op[p].before[i] = log[LatestMutation(i)].after[i]

LEMMA FreshNext ==
    ASSUME OneDashboard, TypeOK, RevertsFresh, [Next]_vars
    PROVE  RevertsFresh'
<1>1. ASSUME NEW p \in Procs, StepOf(p) PROVE RevertsFresh'
  <2>. SUFFICES ASSUME op'[p].pc = "revert"
                PROVE  \A i \in op'[p].ids : op'[p].before[i] = log'[LatestMutation(i)'].after[i]
    BY DEF RevertsFresh, OneDashboard
  <2>1. BeginRevert(p)
    BY <1>1, Arrivals DEF Arrives
  <2>2. UNCHANGED <<rows, log, base>>
    BY <2>1 DEF BeginRevert
  <2>3. PICK D \in SUBSET Ids : \E n \in [D -> 1..Len(log)] :
                 /\ \A i \in D : Revertible(n[i], i)
                 /\ op'[p].ids = D /\ op'[p].before = Restricted(rows, D)
    BY <2>1, BeginRevertStep
  <2>. QED  BY <2>2, <2>3, SameLog DEF Revertible, Restricted
<1>2. CASE CliWrite \/ UNCHANGED vars
  BY <1>2, SameLog DEF RevertsFresh, CliWrite, vars
<1>. QED  BY <1>1, <1>2, StepsOfNext

\* With one dashboard, and command lines that write at any time, a revert discards only
\* rows that are the after-image of the decision it undoes, or human rows that came
\* after that was tested (safe_revert and the guard of restore_rows), whichever appends
\* fail and wherever it is killed.
THEOREM RevertsAreFresh == ASSUME OneDashboard PROVE Spec => RevertIsFresh
<1>1. Init => RevertsFresh
  BY Givens DEF Init, RevertsFresh
<1>2. TypeOK /\ RevertsFresh /\ [Next]_vars => RevertsFresh'
  BY FreshNext
<1>3. TypeOK /\ RevertsFresh /\ [Next]_vars =>
          [\A p \in Procs : op[p].pc = "revert" /\ op'[p].pc = "after" =>
              \A i \in op[p].ids :
                  \/ rows[i] = log[LatestMutation(i)].after[i]
                  \/ /\ rows[i] # op[p].before[i]
                     /\ (rows[i] = NoRow \/ rows[i].origin = "human")]_vars
  <2>. SUFFICES ASSUME TypeOK, RevertsFresh, [Next]_vars, NEW p \in Procs,
                       op[p].pc = "revert", op'[p].pc = "after", NEW i \in op[p].ids
                PROVE  \/ rows[i] = log[LatestMutation(i)].after[i]
                       \/ /\ rows[i] # op[p].before[i]
                          /\ (rows[i] = NoRow \/ rows[i].origin = "human")
    OBVIOUS
  <2>1. PICK q \in Procs : StepOf(q)
    BY StepsOfNext DEF CliWrite, vars
  <2>2. q = p
    BY <2>1, Arrivals DEF Arrives
  <2>3. Revert(p)
    BY <2>1, <2>2, Arrivals DEF Arrives, Write
  <2>4. Restorable(op[p].ids)
    BY <2>3, Finished DEF Revert, TypeOK
  <2>5. op[p].before[i] = log[LatestMutation(i)].after[i]
    BY DEF RevertsFresh
  <2>. QED  BY <2>4, <2>5 DEF Restorable
<1>. QED  BY <1>1, <1>2, <1>3, InitType, NextType, PTL DEF Spec, RevertIsFresh

(******************************* the ledger ********************************)
LEMMA SavedAsRebuilt ==
    \A kind \in Mutations \cup Marks : Marked(kind) = Rebuilt(kind)
BY DEF Mutations, Marks, Marked, Rebuilt

\* The ledger misses exactly the latest entry on i.
Lags(i) == \E n \in Touching(i) : /\ \A m \in Touching(i) : m <= n
                                  /\ ledger[i] = StateAt(i, n - 1)

\* The ledger is derived from the log but for the entry that was just appended and,
\* after a kill, for the one that was not marked any more.
LedgerOK ==
    /\ \A i \in Ids : \/ \E p \in Procs : op[p].pc = "ledger" /\ i \in op[p].ids
                      \/ ledger[i] = StateAt(i, Revision)
                      \/ MayCrash /\ broken /\ Lags(i)
    /\ \A p \in Procs : op[p].pc = "ledger" =>
           \A i \in op[p].ids : /\ StateAt(i, Revision) = Rebuilt(op[p].kind)
                                /\ ~broken => Lags(i)

LEMMA LedgerOKNext ==
    ASSUME OneDashboard, TypeOK, LedgerOK, [Next]_vars
    PROVE  LedgerOK'
<1>1. ASSUME NEW p \in Procs, StepOf(p) PROVE LedgerOK'
  <2>0. Arrives(p) /\ Procs = {p} /\ op[p].kind \in Mutations \cup Marks
    BY <1>1, Arrivals, OpTypes DEF OneDashboard, TypeOK
  <2>1. CASE AppendLog(p)
    <3>1. /\ op[p].pc = "file" /\ op'[p].pc = "ledger" /\ op'[p].ids = op[p].ids
          /\ op'[p].kind = op[p].kind /\ UNCHANGED <<ledger, broken>>
      BY <2>1, Moved DEF AppendLog, TypeOK, PCs
    <3>2. \A i \in Ids : ledger[i] = StateAt(i, Revision) \/ (MayCrash /\ broken /\ Lags(i))
      BY <2>0, <3>1 DEF LedgerOK
    <3>3. ASSUME NEW i \in Ids, i \in op[p].ids
          PROVE  StateAt(i, Revision)' = Rebuilt(op[p].kind) /\ (~broken => Lags(i)')
      <4>1. /\ StateAt(i, Revision)' = Rebuilt(op[p].kind)
            /\ Touching(i)' = Touching(i) \cup {Revision + 1}
            /\ Revision \in Nat /\ StateAt(i, Revision) = StateAt(i, Revision)
            /\ \A m \in 0..Revision : StateAt(i, m)' = StateAt(i, m)
        BY <2>1, <3>3, AppendedLog
      <4>2. Touching(i) \subseteq 1..Revision
        BY DEF Touching, Revision
      <4>3. \A m \in Touching(i)' : m <= Revision + 1
        BY <4>1, <4>2
      <4>4. ASSUME ~broken PROVE \E n \in Touching(i)' : /\ \A m \in Touching(i)' : m <= n
                                                        /\ ledger'[i] = StateAt(i, n - 1)'
        <5>1. PICK r : r = Revision
          OBVIOUS
        <5>2. ledger'[i] = StateAt(i, r)'
          BY <3>1, <3>2, <4>1, <4>4, <5>1
        <5>3. ledger'[i] = StateAt(i, (r + 1) - 1)'
          BY <4>1, <5>1, <5>2
        <5>. QED  BY <4>1, <4>3, <5>1, <5>3
      <4>. QED  BY <4>1, <4>4 DEF Lags
    <3>4. ASSUME NEW i \in Ids, i \notin op[p].ids
          PROVE  \/ ledger'[i] = StateAt(i, Revision)'
                 \/ MayCrash /\ broken' /\ Lags(i)'
      <4>1. /\ StateAt(i, Revision)' = StateAt(i, Revision) /\ Touching(i)' = Touching(i)
            /\ \A m \in 0..Revision : StateAt(i, m)' = StateAt(i, m)
        BY <2>1, <3>4, AppendedLog
      <4>2. Touching(i) \subseteq 1..Revision /\ Revision \in Nat
        BY LenProperties DEF Touching, Revision, TypeOK
      <4>3. CASE Lags(i)
        <5>1. PICK n \in Touching(i) : (\A m \in Touching(i) : m <= n) /\ ledger[i] = StateAt(i, n - 1)
          BY <4>3 DEF Lags
        <5>2. n - 1 \in 0..Revision
          BY <4>2
        <5>3. StateAt(i, n - 1)' = StateAt(i, n - 1)
          BY <4>1, <5>2
        <5>. QED  BY <3>1, <3>2, <4>1, <5>1, <5>3 DEF Lags
      <4>. QED  BY <3>1, <3>2, <4>1, <4>3
    <3>5. op[p].ids \in SUBSET Ids
      BY OpTypes DEF TypeOK
    <3>. QED  BY <2>0, <3>1, <3>3, <3>4, <3>5 DEF LedgerOK
  <2>2. CASE SaveLedger(p)
    <3>1. /\ op[p].pc = "ledger" /\ op'[p].pc = "idle" /\ UNCHANGED <<log, base, broken>>
          /\ ledger' = [i \in Ids |-> IF i \in op[p].ids THEN Marked(op[p].kind) ELSE ledger[i]]
      BY <2>2, Finished DEF SaveLedger, TypeOK
    <3>2. \A i \in op[p].ids \cap Ids : ledger'[i] = StateAt(i, Revision)
      BY <2>0, <3>1, SavedAsRebuilt DEF LedgerOK
    <3>3. \A i \in Ids \ op[p].ids : ledger'[i] = ledger[i]
      BY <3>1
    <3>4. \A i \in Ids \ op[p].ids : Lags(i) => Lags(i)'
      BY <3>1, <3>3, SameLog DEF Lags
    <3>. QED  BY <2>0, <3>1, <3>2, <3>3, <3>4, SameLog DEF LedgerOK
  <2>3. CASE Crash(p)
    <3>1. /\ op'[p].pc = "idle" /\ UNCHANGED <<log, base, ledger>> /\ ~broken /\ broken' /\ MayCrash
      BY <2>3, Finished DEF Crash, TypeOK
    <3>2. \A i : Lags(i)' <=> Lags(i)
      BY <3>1, SameLog DEF Lags
    <3>. QED  BY <2>0, <3>1, <3>2, SameLog DEF LedgerOK
  <2>4. CASE ~AppendLog(p) /\ ~SaveLedger(p) /\ ~Crash(p)
    <3>1. /\ op[p].pc # "ledger" /\ op'[p].pc # "ledger" /\ UNCHANGED <<log, base, ledger>>
          /\ UNCHANGED broken \/ broken'
      BY <2>0, <2>4, FailAppendStep DEF Arrives
    <3>2. \A i : Lags(i)' <=> Lags(i)
      BY <3>1, SameLog DEF Lags
    <3>. QED  BY <2>0, <3>1, <3>2, SameLog DEF LedgerOK
  <2>. QED  BY <2>1, <2>2, <2>3, <2>4
<1>2. CASE CliWrite \/ UNCHANGED vars
  <2>1. UNCHANGED <<log, ledger, op, broken, base>>
    BY <1>2 DEF CliWrite, vars
  <2>2. \A i : Lags(i)' <=> Lags(i)
    BY <2>1, SameLog DEF Lags
  <2>. QED  BY <2>1, <2>2, SameLog DEF LedgerOK
<1>. QED  BY <1>1, <1>2, StepsOfNext

LEMMA LedgerOKInit == Init => LedgerOK
<1>. SUFFICES ASSUME Init PROVE LedgerOK
  OBVIOUS
<1>1. \A p \in Procs : op[p].pc # "ledger"
  BY Givens DEF Init
<1>2. log = <<>> /\ \A i \in Ids : ledger[i] = "pending"
  BY DEF Init
<1>3. ASSUME NEW i \in Ids PROVE StateAt(i, Revision) = "pending"
  <2>1. Touching(i) = {}
    BY <1>2, EmptySeq DEF Touching
  <2>. QED  BY <2>1 DEF StateAt
<1>. QED  BY <1>1, <1>2, <1>3 DEF LedgerOK

\* With one dashboard that is not killed, rebuilding the ledger from the log gives the
\* ledger (rebuild_from_log against the marks of each operation), whichever appends fail.
THEOREM LedgerIsDerived ==
    ASSUME OneDashboard, ~MayCrash PROVE Spec => []LedgerDerived
<1>1. TypeOK /\ LedgerOK /\ [Next]_vars => LedgerOK'
  BY LedgerOKNext
<1>2. LedgerOK => LedgerDerived
  BY DEF LedgerOK, LedgerDerived, Settled
<1>. QED  BY <1>1, <1>2, InitType, NextType, LedgerOKInit, PTL DEF Spec

\* With one dashboard that may be killed, the ledger is at most one entry behind the log
\* on a coordinate, and never shows a state that the log does not hold.
THEOREM LedgerLagsByOne ==
    ASSUME OneDashboard PROVE Spec => []LedgerLags
<1>1. TypeOK /\ LedgerOK /\ [Next]_vars => LedgerOK'
  BY LedgerOKNext
<1>2. LedgerOK => LedgerLags
  BY DEF LedgerOK, LedgerLags, Lags, Settled
<1>. QED  BY <1>1, <1>2, InitType, NextType, LedgerOKInit, PTL DEF Spec

(********************************** unify **********************************)
\* Every human row the panel or a run leaves behind is a reviewed formal one, which is
\* what the divergence guard of unify looks for.
PlainRow(r) == r # NoRow /\ r.origin = "human" => r.review = "reviewed" /\ r.formal

PlainTable(t) == \A i \in Ids : PlainRow(t[i])

PlainOp(o) == PlainTable(o.outer) /\ PlainTable(o.before) /\ PlainTable(o.after)

Plain ==
    /\ PlainTable(rows)
    /\ \A p \in Procs : PlainOp(op[p])
    /\ \A n \in 1..Len(log) : PlainTable(log[n].before) /\ PlainTable(log[n].after)

LEMMA PlainRows ==
    /\ \A r \in Left \cup Restorations : PlainRow(r)
    /\ \A t : PlainRow(HumanRow(TheSource, t))
    /\ PlainRow(NoRow) /\ PlainTable(None) /\ PlainOp(Rest)
    /\ \A t, D : PlainTable(t) => PlainTable(Restricted(t, D))
<1>1. \A t : PlainRow(HumanRow(TheSource, t))
  BY DEF PlainRow, HumanRow
<1>2. PlainRow(NoRow) /\ PlainTable(None)
  BY DEF PlainRow, PlainTable, None
<1>3. \A r \in Left \cup Restorations : PlainRow(r)
  <2>1. \A t : PlainRow(RemoteRow(TheSource, t, "locked"))
    BY DEF PlainRow, RemoteRow
  <2>2. \A t, r : PlainRow([MachineRow(TheSource, t, r) EXCEPT !.formal = TRUE])
    BY DEF PlainRow, MachineRow
  <2> DEFINE R == RemoteRow(TheSource, CHOOSE t \in Txts : TRUE, "locked")
             H == {HumanRow(TheSource, t) : t \in Txts}
             M == {[MachineRow(TheSource, t, r) EXCEPT !.formal = TRUE] : t \in Txts, r \in Runs}
  <2>3. PlainRow(R)
    BY <2>1
  <2>4. \A r \in H : PlainRow(r)
    BY <1>1
  <2>5. \A r \in M : PlainRow(r)
    BY <2>2
  <2>6. Left = {NoRow, R} \cup H \cup M
    BY DEF Left
  <2>7. \A r \in Restorations : PlainRow(r)
    BY <1>1, <2>1, <2>2 DEF Restorations
  <2>. HIDE DEF R, H, M
  <2>. QED  BY <1>2, <2>3, <2>4, <2>5, <2>6, <2>7
<1>4. PlainOp(Rest)
  BY <1>2 DEF PlainOp, Rest
<1>5. \A t, D : PlainTable(t) => PlainTable(Restricted(t, D))
  BY <1>2 DEF PlainTable, Restricted
<1>. QED  BY <1>1, <1>2, <1>3, <1>4, <1>5

LEMMA PlainInit == Init => Plain
<1>. SUFFICES ASSUME Init PROVE Plain
  OBVIOUS
<1>1. PlainTable(rows)
  BY PlainRows DEF Init, PlainTable
<1>2. \A p \in Procs : PlainOp(op[p])
  BY PlainRows DEF Init
<1>3. Len(log) = 0
  BY EmptySeq DEF Init
<1>. QED  BY <1>1, <1>2, <1>3 DEF Plain

\* A step keeps it when what it writes, and what it makes of the operation, is plain.
LEMMA PlainKept ==
    ASSUME Plain, NEW p \in Procs, PlainTable(rows'), PlainOp(op'[p]), UNCHANGED log,
           \A q \in Procs \ {p} : op'[q] = op[q]
    PROVE  Plain'
BY DEF Plain, PlainTable, PlainOp, PlainRow

LEMMA PlainNext == TypeOK /\ Plain /\ [Next]_vars => Plain'
<1>. SUFFICES ASSUME TypeOK, Plain, [Next]_vars PROVE Plain'
  OBVIOUS
<1>1. ASSUME NEW p \in Procs, StepOf(p) PROVE Plain'
  <2>0. /\ op \in [Procs -> Ops] /\ PlainOp(op[p]) /\ PlainTable(rows) /\ op[p].ids \in SUBSET Ids
        /\ \A q \in Procs \ {p} : op'[q] = op[q]
        /\ UNCHANGED log \/ AppendLog(p)
        /\ UNCHANGED rows \/ Write(p) \/ Revert(p) \/ Restore(p)
    BY <1>1, OpTypes, Arrivals DEF TypeOK, Plain, Arrives
  <2>1. PlainTable(rows')
    <3>1. CASE Write(p)
      BY <2>0, <3>1, WriteStep, PlainRows DEF PlainTable
    <3>2. CASE Revert(p)
      BY <2>0, <3>2 DEF Revert, Restored, PlainTable, PlainOp
    <3>3. CASE Restore(p)
      BY <2>0, <3>3 DEF Restore, Restored, PlainTable, PlainOp
    <3>4. CASE UNCHANGED rows
      BY <2>0, <3>4
    <3>. QED  BY <2>0, <3>1, <3>2, <3>3, <3>4
  <2>2. PlainOp(op'[p])
    <3>1. ASSUME NEW pc \in PCs, op' = [op EXCEPT ![p].pc = pc] PROVE PlainOp(op'[p])
      BY <2>0, <3>1, Moved DEF PlainOp
    <3>2. ASSUME Finish(p) PROVE PlainOp(op'[p])
      BY <2>0, <3>2, Finished, PlainRows
    <3>3. ASSUME Compensated(p) PROVE PlainOp(op'[p])
      BY <3>1, <3>2, <3>3 DEF Compensated, PCs
    <3>4. CASE Begin(p)
      BY <2>0, <3>4, BeginStep, PlainRows DEF PlainOp
    <3>5. CASE BeginRevert(p)
      <4>0. PICK D \in SUBSET Ids : \E n \in [D -> 1..Len(log)] :
                 /\ \A i \in D : Revertible(n[i], i)
                 /\ op' \in [Procs -> Ops] /\ \A q \in Procs \ {p} : op'[q] = op[q]
                 /\ op'[p].pc = "revert" /\ op'[p].kind = "revert" /\ op'[p].ids = D
                 /\ op'[p].expect = Revision /\ op'[p].before = Restricted(rows, D)
                 /\ op'[p].outer = Restricted(rows, D)
                 /\ op'[p].after = [i \in Ids |-> IF i \in D THEN log[n[i]].before[i] ELSE NoRow]
        BY <3>5, BeginRevertStep
      <4>1. PICK n \in [D -> 1..Len(log)] :
                 /\ op'[p].before = Restricted(rows, D) /\ op'[p].outer = Restricted(rows, D)
                 /\ op'[p].after = [i \in Ids |-> IF i \in D THEN log[n[i]].before[i] ELSE NoRow]
        BY <4>0
      <4>2. PlainTable(op'[p].after)
        BY <4>1, PlainRows DEF Plain, PlainTable
      <4>. QED  BY <2>0, <4>1, <4>2, PlainRows DEF PlainOp
    <3>6. CASE BeginMark(p)
      BY <3>6, BeginMarkStep, PlainRows DEF PlainOp
    <3>7. CASE ReadBefore(p)
      <4>1. \/ Finish(p)
            \/ \E W : /\ op'[p].outer = op[p].outer /\ op'[p].before = Restricted(rows, W)
                      /\ op'[p].after = op[p].after
        BY <3>7, ReadBeforeStep
      <4>. QED  BY <2>0, <3>2, <4>1, PlainRows DEF PlainOp
    <3>8. CASE Write(p)
      BY <3>1, <3>8 DEF Write, PCs
    <3>9. CASE ReadAfter(p)
      BY <2>0, <3>9, ReadAfterStep, PlainRows DEF PlainOp
    <3>10. CASE Revert(p)
      BY <3>1, <3>2, <3>10 DEF Revert, PCs
    <3>11. CASE CheckRevision(p)
      BY <3>1, <3>3, <3>11, CheckRevisionStep DEF PCs
    <3>12. CASE AppendLog(p)
      BY <3>1, <3>12 DEF AppendLog, PCs
    <3>13. CASE FailAppend(p)
      BY <3>2, <3>3, <3>13, FailAppendStep
    <3>14. CASE SaveLedger(p) \/ Restore(p) \/ Crash(p)
      BY <3>2, <3>14 DEF SaveLedger, Restore, Crash
    <3>15. CASE ReadUndo(p)
      BY <2>0, <3>2, <3>15, ReadUndoStep DEF PlainOp
    <3>. QED
      BY <1>1, <3>4, <3>5, <3>6, <3>7, <3>8, <3>9, <3>10, <3>11, <3>12, <3>13, <3>14, <3>15
      DEF StepOf
  <2>3. CASE UNCHANGED log
    BY <2>0, <2>1, <2>2, <2>3, PlainKept
  <2>4. CASE AppendLog(p)
    <3>1. /\ Len(log') = Len(log) + 1 /\ Len(log) \in Nat
          /\ log'[Len(log) + 1].before = op[p].before /\ log'[Len(log) + 1].after = op[p].after
          /\ \A n \in 1..Len(log) : log'[n] = log[n]
      <4> DEFINE e == [kind |-> op[p].kind, ids |-> op[p].ids,
                       before |-> op[p].before, after |-> op[p].after]
      <4>1. /\ Len(log') = Len(log) + 1 /\ log'[Len(log) + 1] = e
            /\ \A n \in 1..Len(log) : log'[n] = log[n]
        BY <2>4, AppendStep
      <4>. QED  BY <4>1, LenProperties DEF TypeOK
    <3>2. \A n \in 1..Len(log') : PlainTable(log'[n].before) /\ PlainTable(log'[n].after)
      BY <2>0, <3>1 DEF Plain, PlainOp
    <3>3. \A q \in Procs : PlainOp(op'[q])
      BY <2>0, <2>2 DEF Plain
    <3>. QED  BY <2>1, <3>2, <3>3 DEF Plain, PlainTable, PlainOp, PlainRow
  <2>. QED  BY <2>0, <2>3, <2>4
<1>2. CASE CliWrite
  <2>1. PICK i \in Ids, new \in Restorations : \A j \in Ids : rows'[j] = rows[j] \/ rows'[j] = new
    BY <1>2, CliStep
  <2>2. PlainTable(rows')
    BY <2>1, PlainRows DEF Plain, PlainTable
  <2>3. UNCHANGED <<log, op>>
    BY <1>2 DEF CliWrite
  <2>. QED  BY <2>2, <2>3 DEF Plain, PlainTable, PlainOp, PlainRow
<1>3. CASE UNCHANGED vars
  BY <1>3 DEF vars, Plain, PlainTable, PlainOp, PlainRow
<1>. QED  BY <1>1, <1>2, <1>3, StepsOfNext

\* What the guard of a unify saw: no human row of another text.
SawNoOther ==
    \A p \in Procs : op[p].kind = "unify" /\ op[p].pc \in {"before", "write"} =>
        \A i \in op[p].ids : op[p].outer[i] # NoRow /\ op[p].outer[i].origin = "human"
                                => op[p].outer[i].txt = op[p].txt[i]

LEMMA SawNoOtherNext ==
    ASSUME TypeOK, Plain, SawNoOther, [Next]_vars
    PROVE  SawNoOther'
<1>1. ASSUME NEW p \in Procs, StepOf(p) PROVE SawNoOther'
  <2>. SUFFICES ASSUME op'[p].kind = "unify", op'[p].pc \in {"before", "write"},
                       NEW i \in op'[p].ids,
                       op'[p].outer[i] # NoRow, op'[p].outer[i].origin = "human"
                PROVE  op'[p].outer[i].txt = op'[p].txt[i]
    BY <1>1, Arrivals DEF SawNoOther, Arrives
  <2>1. Begin(p) \/ ReadBefore(p)
    BY <1>1, Arrivals DEF Arrives
  <2>2. CASE Begin(p)
    <3>1. PICK D \in SUBSET Ids, txt \in [Ids -> Txts] :
              /\ Divergent(D, txt) = {} /\ op'[p].ids = D /\ op'[p].txt = txt
              /\ op'[p].outer = Restricted(rows, D)
      BY <2>2, BeginStep
    <3>2. i \in D /\ i \in Ids /\ op'[p].outer[i] = rows[i]
      BY <3>1 DEF Restricted
    <3>3. rows[i].review = "reviewed" /\ rows[i].formal
      BY <3>2 DEF Plain, PlainTable, PlainRow
    <3>. QED  BY <3>1, <3>2, <3>3 DEF Divergent
  <2>3. CASE ReadBefore(p)
    <3>1. ~Finish(p)
      BY Finished DEF TypeOK
    <3>2. /\ op'[p].ids \subseteq op[p].ids /\ op'[p].kind = op[p].kind
          /\ op'[p].txt = op[p].txt /\ op'[p].outer = op[p].outer
      BY <2>3, <3>1, ReadBeforeStep
    <3>3. op[p].pc = "before"
      BY <2>3 DEF ReadBefore
    <3>. QED  BY <3>2, <3>3 DEF SawNoOther
  <2>. QED  BY <2>1, <2>2, <2>3
<1>2. CASE CliWrite \/ UNCHANGED vars
  BY <1>2 DEF SawNoOther, CliWrite, vars
<1>. QED  BY <1>1, <1>2, StepsOfNext

\* With any number of dashboards, and command lines that write at any time, the different
\* human decisions that a unify replaces are none of those its guard has seen, whatever
\* was imported, restored, killed or failed before.
THEOREM UnifySparesDecisions == Spec => UnifyKeepsDecisions
<1>1. Init => SawNoOther
  BY Givens DEF Init, SawNoOther
<1>2. TypeOK /\ Plain /\ SawNoOther /\ [Next]_vars => SawNoOther'
  BY SawNoOtherNext
<1>3. TypeOK /\ SawNoOther /\ [Next]_vars =>
          [\A p \in Procs : \A i \in Overruled(p) : rows[i] # op[p].outer[i]]_vars
  <2>. SUFFICES ASSUME TypeOK, SawNoOther, [Next]_vars, NEW p \in Procs, NEW i \in op[p].ids,
                       op[p].kind = "unify", op[p].pc = "write", op'[p].pc = "after",
                       rows[i] # NoRow, rows[i].origin = "human", rows[i] = op[p].outer[i]
                PROVE  rows'[i].txt = rows[i].txt
    BY DEF Overruled
  <2>1. PICK q \in Procs : StepOf(q)
    BY StepsOfNext DEF CliWrite, vars
  <2>2. q = p
    BY <2>1, Arrivals DEF Arrives
  <2>3. Write(p)
    BY <2>1, <2>2, Arrivals DEF Arrives, Revert
  <2>4. i \in Ids
    BY OpTypes DEF TypeOK
  <2>5. rows'[i] = HumanRow(TheSource, op[p].txt[i])
    BY <2>3, <2>4, WriteStep
  <2>6. rows[i].txt = op[p].txt[i]
    BY DEF SawNoOther
  <2>. QED  BY <2>5, <2>6 DEF HumanRow
<1>. QED
  BY <1>1, <1>2, <1>3, InitType, NextType, PlainInit, PlainNext, PTL DEF Spec, UnifyKeepsDecisions

(***************************** the projection ******************************)
\* One dashboard, and nobody else who writes.
Alone == OneDashboard /\ CliWriters = "never"

Commits == {"commit", "unify"}

\* What the log accounts for: what replaying it gives and, once a kill or a failed append
\* has happened, a human row and the image the latest decision started from.
Started(i) == IF LatestMutation(i) = 0 THEN {} ELSE {log[LatestMutation(i)].before[i]}

Accounted(i) ==
    {Replayed(i)} \cup
    (IF broken THEN {r \in Rows : r.origin = "human"} \cup Started(i) ELSE {})

LEMMA SameAccounts ==
    ASSUME UNCHANGED <<log, base>>, broken => broken'
    PROVE  /\ \A i : Started(i)' = Started(i)
           /\ \A i : Accounted(i) \subseteq Accounted(i)'
<1>1. \A i : Started(i)' = Started(i) /\ Replayed(i)' = Replayed(i)
  BY SameLog DEF Started
<1>. QED  BY <1>1 DEF Accounted

LEMMA AppendedAccounts ==
    ASSUME TypeOK, NEW p \in Procs, AppendLog(p), NEW i \in Ids
    PROVE  IF op[p].kind \in Mutations /\ i \in op[p].ids
           THEN op[p].after[i] \in Accounted(i)'
           ELSE Accounted(i)' = Accounted(i)
<1>1. /\ LatestMutation(i)' = IF op[p].kind \in Mutations /\ i \in op[p].ids
                              THEN Revision + 1 ELSE LatestMutation(i)
      /\ Replayed(i)' = IF op[p].kind \in Mutations /\ i \in op[p].ids
                        THEN op[p].after[i] ELSE Replayed(i)
  BY AppendedLog
<1>2. broken' = broken /\ \A n \in 1..Len(log) : log'[n] = log[n]
  BY AppendStep DEF AppendLog
<1>3. LatestMutation(i) = 0 \/ LatestMutation(i) \in 1..Len(log)
  BY LatestOfFacts, LogOperators DEF TypeOK
<1>4. CASE op[p].kind \in Mutations /\ i \in op[p].ids
  BY <1>1, <1>4 DEF Accounted
<1>5. CASE ~ (op[p].kind \in Mutations /\ i \in op[p].ids)
  <2>1. Started(i)' = Started(i)
    BY <1>1, <1>2, <1>3, <1>5 DEF Started
  <2>. QED  BY <1>1, <1>2, <1>5, <2>1 DEF Accounted
<1>. QED  BY <1>4, <1>5

\* Which operations reach a state.
Course(p) ==
    /\ op[p].pc = "idle" => op[p].ids = {}
    /\ op[p].pc \in {"before", "write", "undo"} => op[p].kind \in Commits
    /\ op[p].pc = "revert" => op[p].kind = "revert"
    /\ op[p].pc \in {"after", "restore"} => op[p].kind \in Mutations
    /\ op[p].kind = "revert" /\ op[p].pc \in {"revert", "after", "append"} => op[p].expect = Revision
    /\ op[p].kind = "revert" /\ op[p].pc = "restore" => broken

\* The log accounts for the rows, but where a mutation has written and is not logged.
RowsLogged(p) ==
    /\ \A i \in Ids \ op[p].ids : rows[i] \in Accounted(i)
    /\ op[p].pc \in {"before", "write", "revert", "ledger"} \/ op[p].kind \in Marks =>
           \A i \in op[p].ids : rows[i] \in Accounted(i)

RowsWritten(p) ==
    /\ op[p].kind \in Commits /\ op[p].pc \in {"after", "append", "file", "undo", "restore"} =>
           \A i \in op[p].ids : rows[i] = HumanRow(TheSource, op[p].txt[i])
    /\ op[p].kind = "revert" /\ op[p].pc \in {"after", "append", "file", "restore"} =>
           \A i \in op[p].ids : rows[i] \in Started(i)
    /\ op[p].kind \in Mutations /\ op[p].pc \in {"append", "file"} =>
           \A i \in op[p].ids : op[p].after[i] = rows[i]

\* The log accounts for the images an operation keeps.
ImagesLogged(p) ==
    /\ op[p].pc = "revert" => \A i \in op[p].ids : op[p].after[i] \in Started(i)
    /\ op[p].kind \in Mutations
       /\ op[p].pc \in {"before", "write", "revert", "after", "append", "file", "undo", "restore"} =>
           \A i \in Ids : op[p].outer[i] # NoRow \/ i \in op[p].ids => op[p].outer[i] \in Accounted(i)
    /\ op[p].kind \in Mutations /\ op[p].pc \in {"write", "revert", "after", "append", "file"} =>
           \A i \in op[p].ids : op[p].before[i] \in Accounted(i)

OpOK(p) == Course(p) /\ RowsLogged(p) /\ RowsWritten(p) /\ ImagesLogged(p)

InStep == \A p \in Procs : OpOK(p)

LEMMA KindsSplit ==
    Commits \cap Marks = {} /\ "revert" \notin Commits \cup Marks /\ Mutations = Commits \cup {"revert"}
BY DEF Commits, Marks, Mutations

LEMMA InStepInit == ASSUME Init, NEW p \in Procs PROVE OpOK(p)
<1>1. op[p] = Rest /\ Rest.pc = "idle" /\ Rest.ids = {} /\ Rest.kind = "commit"
  BY Givens DEF Init, Rest
<1>2. \A i \in Ids : Replayed(i) = rows[i]
  <2>1. Len(log) = 0
    BY EmptySeq DEF Init
  <2>2. \A i \in Ids : LatestMutation(i) = 0
    BY <2>1 DEF LatestMutation
  <2>. QED  BY <2>2 DEF Init, Replayed
<1>. QED
  BY <1>1, <1>2 DEF OpOK, Course, RowsLogged, RowsWritten, ImagesLogged, Commits, Marks, Accounted

\* An operation ends where the log accounts for every row.
LEMMA FinishedInStep ==
    ASSUME TypeOK, NEW p \in Procs, Finish(p), UNCHANGED <<log, base>>, broken => broken',
           \A i \in Ids : rows'[i] \in Accounted(i)'
    PROVE  OpOK(p)'
<1>0. Rest.kind = "commit"
  BY DEF Rest
<1>1. op'[p].pc = "idle" /\ op'[p].ids = {} /\ op'[p].kind = "commit"
  BY <1>0, Finished DEF TypeOK
<1>. QED  BY <1>1 DEF OpOK, Course, RowsLogged, RowsWritten, ImagesLogged, Commits, Marks

\* Wherever a mutation is given up, what it has written is a human row or the image the
\* latest decision started from.
LEMMA GivenUp ==
    ASSUME TypeOK, NEW p \in Procs, OpOK(p), op[p].pc # "idle", Finish(p), broken',
           UNCHANGED <<rows, log, base>>
    PROVE  OpOK(p)'
<1>1. op[p].ids \in SUBSET Ids /\ op[p].kind \in Mutations \cup Marks /\ op[p].pc \in PCs
      /\ op[p].txt \in [Ids -> Txts]
  BY OpTypes DEF TypeOK
<1>2. \A i : Accounted(i) \subseteq Accounted(i)' /\ Started(i) \subseteq Accounted(i)'
  BY SameAccounts DEF Accounted
<1>3. ASSUME NEW i \in op[p].ids PROVE rows'[i] \in Accounted(i)'
  <2>1. CASE op[p].pc \in {"before", "write", "revert", "ledger"} \/ op[p].kind \in Marks
    BY <1>2, <2>1 DEF OpOK, RowsLogged
  <2>2. CASE op[p].kind \in Commits /\ op[p].pc \in {"after", "append", "file", "undo", "restore"}
    <3>1. rows[i] = HumanRow(TheSource, op[p].txt[i])
      BY <2>2 DEF OpOK, RowsWritten
    <3>2. rows[i] \in Rows /\ rows[i].origin = "human"
      BY <1>1, <3>1, Givens DEF HumanRow
    <3>. QED  BY <3>2 DEF Accounted
  <2>3. CASE op[p].kind = "revert" /\ op[p].pc \in {"after", "append", "file", "restore"}
    BY <1>2, <2>3 DEF OpOK, RowsWritten
  <2>. QED  BY <1>1, <2>1, <2>2, <2>3, KindsSplit DEF PCs, OpOK, Course
<1>4. \A i \in Ids : rows'[i] \in Accounted(i)'
  BY <1>2, <1>3 DEF OpOK, RowsLogged
<1>. QED  BY <1>4, FinishedInStep

LEMMA InStepStep ==
    ASSUME Alone, TypeOK, NEW p \in Procs, OpOK(p), StepOf(p)
    PROVE  OpOK(p)'
<1>0. /\ op \in [Procs -> Ops] /\ op[p] \in Ops /\ op[p].ids \in SUBSET Ids
      /\ op[p].kind \in Mutations \cup Marks
  BY OpTypes DEF TypeOK
<1>0a. Commits \cap Marks = {} /\ "revert" \notin Commits \cup Marks /\ Mutations = Commits \cup {"revert"}
  BY KindsSplit
<1>1. CASE Begin(p)
  <2>1. UNCHANGED <<rows, log, broken, base>> /\ op[p].pc = "idle"
    BY <1>1 DEF Begin
  <2>2. \A i \in Ids : rows'[i] \in Accounted(i)'
    BY <2>1, SameAccounts DEF OpOK, Course, RowsLogged
  <2>3. PICK D \in SUBSET Ids : /\ op'[p].pc = "before" /\ op'[p].kind \in Commits
                                /\ op'[p].ids = D /\ op'[p].outer = Restricted(rows, D)
    BY <1>1, BeginStep DEF Commits
  <2>4. \A i \in Ids : op'[p].outer[i] # NoRow \/ i \in D => op'[p].outer[i] = rows'[i]
    BY <2>1, <2>3 DEF Restricted
  <2>. QED  BY <1>0a, <2>2, <2>3, <2>4 DEF OpOK, Course, RowsLogged, RowsWritten, ImagesLogged
<1>2. CASE BeginRevert(p)
  <2>1. UNCHANGED <<rows, log, broken, base>> /\ op[p].pc = "idle"
    BY <1>2 DEF BeginRevert
  <2>2. \A i \in Ids : rows'[i] \in Accounted(i)' /\ Started(i)' = Started(i)
    BY <2>1, SameAccounts DEF OpOK, Course, RowsLogged
  <2>3. PICK D \in SUBSET Ids : \E n \in [D -> 1..Len(log)] :
            /\ \A i \in D : Revertible(n[i], i)
            /\ op' \in [Procs -> Ops] /\ \A q \in Procs \ {p} : op'[q] = op[q]
            /\ op'[p].pc = "revert" /\ op'[p].kind = "revert" /\ op'[p].ids = D
            /\ op'[p].expect = Revision /\ op'[p].before = Restricted(rows, D)
            /\ op'[p].outer = Restricted(rows, D)
            /\ op'[p].after = [i \in Ids |-> IF i \in D THEN log[n[i]].before[i] ELSE NoRow]
    BY <1>2, BeginRevertStep
  <2>4. /\ \A i \in D : op'[p].before[i] = rows'[i]
        /\ \A i \in Ids : op'[p].outer[i] # NoRow \/ i \in D => op'[p].outer[i] = rows'[i]
    BY <2>1, <2>3 DEF Restricted
  <2>5. Revision' = Revision
    BY <2>1, SameLog
  <2>6. \A i \in D : op'[p].after[i] \in Started(i)
    <3>1. PICK n \in [D -> 1..Len(log)] :
              /\ \A i \in D : Revertible(n[i], i)
              /\ op'[p].after = [i \in Ids |-> IF i \in D THEN log[n[i]].before[i] ELSE NoRow]
      BY <2>3
    <3>2. \A i \in D : LatestMutation(i) = n[i] /\ n[i] # 0
      BY <3>1 DEF Revertible
    <3>3. \A i \in D : op'[p].after[i] = log[n[i]].before[i]
      BY <3>1
    <3>. QED  BY <3>2, <3>3 DEF Started
  <2>7. op'[p].pc = "revert" /\ op'[p].kind = "revert" /\ op'[p].ids = D /\ op'[p].expect = Revision
    BY <2>3
  <2>8. Course(p)' /\ RowsLogged(p)' /\ RowsWritten(p)'
    BY <1>0a, <2>2, <2>5, <2>7 DEF Course, RowsLogged, RowsWritten
  <2>9. ImagesLogged(p)'
    BY <2>2, <2>4, <2>6, <2>7 DEF ImagesLogged
  <2>. QED  BY <2>8, <2>9 DEF OpOK
<1>3. CASE BeginMark(p)
  <2>1. UNCHANGED <<rows, log, broken, base>> /\ op[p].pc = "idle"
    BY <1>3 DEF BeginMark
  <2>2. \A i \in Ids : rows'[i] \in Accounted(i)'
    BY <2>1, SameAccounts DEF OpOK, Course, RowsLogged
  <2>3. op'[p].pc = "append" /\ op'[p].kind \in Marks /\ op'[p].ids \in SUBSET Ids
    BY <1>3, BeginMarkStep, OpTypes
  <2>. QED  BY <1>0a, <2>2, <2>3 DEF OpOK, Course, RowsLogged, RowsWritten, ImagesLogged
<1>4. CASE ReadBefore(p)
  <2>1. UNCHANGED <<rows, log, broken, base>> /\ op[p].pc = "before"
    BY <1>4 DEF ReadBefore
  <2>2. /\ \A i \in Ids : rows[i] \in Accounted(i)
        /\ \A i : Accounted(i) \subseteq Accounted(i)'
    BY <2>1, SameAccounts DEF OpOK, RowsLogged
  <2>3. CASE Finish(p)
    BY <2>1, <2>2, <2>3, FinishedInStep
  <2>4. CASE ~Finish(p)
    <3>1. PICK W \in SUBSET op[p].ids :
              /\ op'[p].pc = "write" /\ op'[p].ids = W /\ op'[p].kind = op[p].kind
              /\ op'[p].outer = op[p].outer /\ op'[p].before = Restricted(rows, W)
      BY <1>4, <2>4, ReadBeforeStep
    <3>2. \A i \in W : op'[p].before[i] = rows[i]
      BY <1>0, <3>1 DEF Restricted
    <3>3. /\ op[p].kind \in Commits
          /\ \A i \in Ids : op[p].outer[i] # NoRow \/ i \in op[p].ids => op[p].outer[i] \in Accounted(i)
      BY <1>0a, <2>1 DEF OpOK, Course, ImagesLogged
    <3>. QED
      BY <1>0, <1>0a, <2>1, <2>2, <3>1, <3>2, <3>3 DEF OpOK, Course, RowsLogged, RowsWritten, ImagesLogged
  <2>. QED  BY <2>3, <2>4
<1>5. CASE Write(p)
  <2>1. /\ op[p].pc = "write" /\ op'[p].pc = "after" /\ op'[p].kind = op[p].kind
        /\ op'[p].ids = op[p].ids /\ op'[p].txt = op[p].txt
        /\ op'[p].outer = op[p].outer /\ op'[p].before = op[p].before
    BY <1>0, <1>5, Moved DEF Write, PCs
  <2>2. /\ UNCHANGED <<log, broken, base>>
        /\ \A i \in Ids : rows'[i] = IF i \in op[p].ids
                                     THEN HumanRow(TheSource, op[p].txt[i]) ELSE rows[i]
    BY <1>5, WriteStep
  <2>3. \A i : Accounted(i) \subseteq Accounted(i)'
    BY <2>2, SameAccounts
  <2>. QED
    BY <1>0, <1>0a, <2>1, <2>2, <2>3 DEF OpOK, Course, RowsLogged, RowsWritten, ImagesLogged
<1>6. CASE ReadAfter(p)
  <2>1. UNCHANGED <<rows, log, broken, base>> /\ op[p].pc = "after"
    BY <1>6 DEF ReadAfter
  <2>2. \A i \in op[p].ids : op'[p].after[i] = rows[i]
    BY <1>0, <1>6, ReadAfterStep DEF Restricted
  <2>3. \A i : Accounted(i) \subseteq Accounted(i)' /\ Started(i)' = Started(i)
    BY <2>1, SameAccounts
  <2>4. Revision' = Revision
    BY <2>1, SameLog
  <2>5. /\ op'[p].pc = "append" /\ op'[p].ids = op[p].ids /\ op'[p].kind = op[p].kind
        /\ op'[p].txt = op[p].txt /\ op'[p].expect = op[p].expect
        /\ op'[p].outer = op[p].outer /\ op'[p].before = op[p].before
    BY <1>6, ReadAfterStep
  <2>. QED
    BY <1>0, <1>0a, <2>1, <2>2, <2>3, <2>4, <2>5
    DEF OpOK, Course, RowsLogged, RowsWritten, ImagesLogged
<1>7. CASE Revert(p)
  <2>1. UNCHANGED <<log, broken, base>> /\ op[p].pc = "revert"
    BY <1>7 DEF Revert
  <2>2. \A i : Accounted(i) \subseteq Accounted(i)' /\ Started(i)' = Started(i)
    BY <2>1, SameAccounts
  <2>2a. Revision' = Revision
    BY <2>1, SameLog
  <2>3. CASE Restorable(op[p].ids)
    <3>1. op' = [op EXCEPT ![p].pc = "after"]
      BY <1>7, <2>3 DEF Revert
    <3>2. \A i \in Ids : rows'[i] = IF i \in op[p].ids THEN op[p].after[i] ELSE rows[i]
      BY <1>7, <2>3 DEF Revert, Restored
    <3>3. /\ op'[p].pc = "after" /\ op'[p].kind = op[p].kind /\ op'[p].ids = op[p].ids
          /\ op'[p].expect = op[p].expect /\ op'[p].before = op[p].before
          /\ op'[p].outer = op[p].outer
      BY <1>0, <3>1, Moved DEF PCs
    <3>4. /\ op[p].kind = "revert" /\ op[p].expect = Revision
          /\ \A i \in Ids \ op[p].ids : rows[i] \in Accounted(i)
          /\ \A i \in op[p].ids : op[p].before[i] \in Accounted(i) /\ op[p].after[i] \in Started(i)
          /\ \A i \in Ids : op[p].outer[i] # NoRow \/ i \in op[p].ids => op[p].outer[i] \in Accounted(i)
      BY <1>0a, <2>1 DEF OpOK, Course, RowsLogged, ImagesLogged
    <3>. QED
      BY <1>0, <1>0a, <2>1, <2>2, <2>2a, <3>2, <3>3, <3>4
      DEF OpOK, Course, RowsLogged, RowsWritten, ImagesLogged
  <2>4. CASE ~Restorable(op[p].ids)
    BY <1>7, <2>1, <2>2, <2>4, FinishedInStep DEF Revert, OpOK, RowsLogged
  <2>. QED  BY <2>3, <2>4
<1>8. CASE CheckRevision(p)
  <2>1. UNCHANGED <<rows, log, broken, base>> /\ op[p].pc = "append"
    BY <1>8, CheckRevisionStep
  <2>2. \A i : Accounted(i) \subseteq Accounted(i)' /\ Started(i)' = Started(i)
    BY <2>1, SameAccounts
  <2>3. CASE \/ op' = [op EXCEPT ![p].pc = "file"]
             \/ op[p].kind \in Commits /\ op' = [op EXCEPT ![p].pc = "undo"]
    <3>1. /\ op'[p].pc = "file" \/ (op[p].kind \in Commits /\ op'[p].pc = "undo")
          /\ op'[p].kind = op[p].kind /\ op'[p].ids = op[p].ids /\ op'[p].txt = op[p].txt
          /\ op'[p].expect = op[p].expect /\ op'[p].outer = op[p].outer
          /\ op'[p].before = op[p].before /\ op'[p].after = op[p].after
      BY <1>0, <2>3, Moved DEF PCs
    <3>3. Course(p)'
      BY <1>0a, <3>1 DEF Course
    <3>4. RowsLogged(p)'
      BY <1>0, <1>0a, <2>1, <2>2, <3>1 DEF OpOK, RowsLogged
    <3>5. RowsWritten(p)'
      BY <1>0, <1>0a, <2>1, <2>2, <3>1 DEF OpOK, RowsWritten
    <3>6. ImagesLogged(p)'
      BY <1>0, <1>0a, <2>1, <2>2, <3>1 DEF OpOK, ImagesLogged
    <3>. QED  BY <3>3, <3>4, <3>5, <3>6 DEF OpOK
  <2>4. CASE op[p].kind \in Marks /\ Finish(p)
    BY <1>0, <2>1, <2>2, <2>4, FinishedInStep DEF OpOK, RowsLogged
  <2>5. ~ (op[p].kind = "revert" /\ op[p].expect # Revision)
    BY <2>1 DEF OpOK, Course
  <2>6. \/ op' = [op EXCEPT ![p].pc = "file"]
        \/ op[p].expect # Revision /\ Compensated(p)
    BY <1>8, CheckRevisionStep
  <2>. QED  BY <2>3, <2>4, <2>5, <2>6, Zenon DEF Compensated, Commits
<1>9. CASE AppendLog(p)
  <2>1. /\ op[p].pc = "file" /\ op'[p].pc = "ledger" /\ rows' = rows
        /\ op'[p].kind = op[p].kind /\ op'[p].ids = op[p].ids
    BY <1>0, <1>9, Moved DEF AppendLog, PCs
  <2>2. \A i \in Ids : IF op[p].kind \in Mutations /\ i \in op[p].ids
                       THEN op[p].after[i] \in Accounted(i)'
                       ELSE Accounted(i)' = Accounted(i)
    BY <1>9, AppendedAccounts
  <2>3. \A i \in Ids : rows'[i] \in Accounted(i)'
    BY <1>0, <2>1, <2>2 DEF OpOK, RowsLogged, RowsWritten
  <2>. QED
    BY <1>0, <1>0a, <2>1, <2>3 DEF OpOK, Course, RowsLogged, RowsWritten, ImagesLogged
<1>10. CASE FailAppend(p)
  <2>1. op[p].pc = "file" /\ broken' /\ UNCHANGED <<rows, log, base>>
    BY <1>10 DEF FailAppend
  <2>2. \A i : Accounted(i) \subseteq Accounted(i)' /\ Started(i)' = Started(i)
    BY <2>1, SameAccounts
  <2>3. CASE op[p].kind = "revert"
    <3>1. op' = [op EXCEPT ![p].pc = "restore"]
      BY <1>10, <2>3 DEF FailAppend, CompensatedFrom
    <3>2. /\ op'[p].pc = "restore" /\ op'[p].kind = op[p].kind /\ op'[p].ids = op[p].ids
          /\ op'[p].outer = op[p].outer
      BY <1>0, <3>1, Moved DEF PCs
    <3>. QED
      BY <1>0, <1>0a, <2>1, <2>2, <2>3, <3>2 DEF OpOK, Course, RowsLogged, RowsWritten, ImagesLogged
  <2>4. CASE op[p].kind # "revert"
    BY <1>10, <2>1, <2>4, GivenUp DEF FailAppend
  <2>. QED  BY <2>3, <2>4
<1>11. CASE SaveLedger(p)
  <2>1. UNCHANGED <<rows, log, broken, base>> /\ op[p].pc = "ledger" /\ Finish(p)
    BY <1>11 DEF SaveLedger
  <2>. QED  BY <2>1, FinishedInStep, SameAccounts DEF OpOK, RowsLogged
<1>12. CASE ReadUndo(p)
  <2> DEFINE moved == {i \in Requested(p) : rows[i] # op[p].outer[i]}
  <2>1. UNCHANGED <<rows, log, broken, base>> /\ op[p].pc = "undo"
    BY <1>12 DEF ReadUndo
  <2>2. /\ op[p].kind \in Commits
        /\ \A i \in Ids \ op[p].ids : rows[i] \in Accounted(i)
        /\ \A i \in op[p].ids : rows[i] = HumanRow(TheSource, op[p].txt[i])
        /\ \A i \in Ids : op[p].outer[i] # NoRow \/ i \in op[p].ids => op[p].outer[i] \in Accounted(i)
    BY <1>0a, <2>1 DEF OpOK, Course, RowsLogged, RowsWritten, ImagesLogged
  <2>3. moved \subseteq Ids /\ op[p].ids \subseteq Requested(p)
        /\ \A i \in Requested(p) : i \in Ids /\ (op[p].outer[i] # NoRow \/ i \in op[p].ids)
    BY <1>0 DEF Requested
  <2>4. \A i : Accounted(i) \subseteq Accounted(i)'
    BY <2>1, SameAccounts
  <2>5. CASE /\ \A i \in moved : rows[i] = HumanRow(TheSource, op[p].txt[i])
             /\ op'[p].pc = "restore" /\ op'[p].ids = moved /\ op'[p].kind = op[p].kind
             /\ op'[p].txt = op[p].txt /\ op'[p].outer = op[p].outer
    <3>1. \A i \in Ids \ moved : rows[i] \in Accounted(i)
      BY <2>2, <2>3
    <3>2. /\ \A i \in op'[p].ids : rows[i] = HumanRow(TheSource, op'[p].txt[i])
          /\ \A i \in op'[p].ids : op[p].outer[i] # NoRow \/ i \in op[p].ids
      BY <2>3, <2>5
    <3>3. op'[p].ids \subseteq Ids /\ \A i \in Ids \ op'[p].ids : rows[i] \in Accounted(i)
      BY <2>3, <2>5, <3>1
    <3>4. /\ op'[p].pc = "restore" /\ op'[p].kind = op[p].kind
          /\ op'[p].txt = op[p].txt /\ op'[p].outer = op[p].outer
      BY <2>5
    <3>. HIDE DEF moved
    <3>5. Course(p)' /\ RowsLogged(p)'
      BY <1>0a, <2>1, <2>2, <2>4, <3>3, <3>4 DEF Course, RowsLogged
    <3>6. RowsWritten(p)'
      BY <1>0a, <2>1, <2>2, <3>2, <3>4 DEF RowsWritten
    <3>7. ImagesLogged(p)'
      BY <1>0a, <2>2, <2>4, <3>2, <3>3, <3>4 DEF ImagesLogged
    <3>. QED  BY <3>5, <3>6, <3>7 DEF OpOK
  <2>6. CASE Finish(p) /\ \E i \in moved : rows[i] # HumanRow(TheSource, op[p].txt[i])
    <3>1. PICK i \in moved : rows[i] # HumanRow(TheSource, op[p].txt[i])
      BY <2>6
    <3>2. rows[i] \in Accounted(i) /\ op[p].outer[i] \in Accounted(i)
      BY <2>2, <2>3, <3>1
    <3>3. rows[i] # op[p].outer[i]
      BY <3>1
    <3>4. broken
      BY <3>2, <3>3 DEF Accounted
    <3>. QED  BY <2>1, <2>6, <3>4, GivenUp
  <2>7. \/ Finish(p) /\ \E i \in moved : rows[i] # HumanRow(TheSource, op[p].txt[i])
        \/ /\ \A i \in moved : rows[i] = HumanRow(TheSource, op[p].txt[i])
           /\ op'[p].pc = "restore" /\ op'[p].ids = moved /\ op'[p].kind = op[p].kind
           /\ op'[p].txt = op[p].txt /\ op'[p].outer = op[p].outer
    BY <1>12, ReadUndoStep
  <2>. QED  BY <2>5, <2>6, <2>7
<1>13. CASE Restore(p)
  <2>1. op[p].pc = "restore" /\ UNCHANGED <<log, broken, base>> /\ Finish(p)
    BY <1>13 DEF Restore
  <2>2. \A i : Accounted(i) \subseteq Accounted(i)'
    BY <2>1, SameAccounts
  <2>3. op[p].kind \in Commits => Restorable(op[p].ids)
    <3>1. \A t : HumanRow(TheSource, t).origin = "human"
      BY DEF HumanRow
    <3>2. op[p].kind \in Commits =>
              \A i \in op[p].ids : rows[i] = HumanRow(TheSource, op[p].txt[i])
      BY <2>1 DEF OpOK, RowsWritten
    <3>. QED  BY <3>1, <3>2 DEF Restorable
  <2>4. ASSUME NEW i \in op[p].ids PROVE rows'[i] \in Accounted(i)
    <3>1. op[p].kind \in Mutations
      BY <2>1 DEF OpOK, Course
    <3>2. i \in Ids /\ op[p].outer[i] \in Accounted(i)
      BY <1>0, <2>1, <3>1 DEF OpOK, ImagesLogged
    <3>3. CASE Restorable(op[p].ids)
      BY <1>13, <3>2, <3>3 DEF Restore, Restored
    <3>4. CASE ~Restorable(op[p].ids)
      <4>1. op[p].kind = "revert" /\ broken /\ rows[i] \in Started(i)
        BY <1>0a, <2>1, <2>3, <3>1, <3>4 DEF OpOK, Course, RowsWritten
      <4>. QED  BY <1>13, <3>4, <4>1 DEF Restore, Accounted
    <3>. QED  BY <3>3, <3>4
  <2>5. \A i \in Ids \ op[p].ids : rows'[i] \in Accounted(i)
    BY <1>13 DEF Restore, Restored, OpOK, RowsLogged
  <2>. QED  BY <2>1, <2>2, <2>4, <2>5, FinishedInStep
<1>14. CASE Crash(p)
  BY <1>14, GivenUp DEF Crash
<1>. QED
  BY <1>1, <1>2, <1>3, <1>4, <1>5, <1>6, <1>7, <1>8, <1>9, <1>10, <1>11, <1>12, <1>13, <1>14
  DEF StepOf

LEMMA InStepNext ==
    ASSUME Alone, TypeOK, InStep, [Next]_vars
    PROVE  InStep'
<1>1. ASSUME NEW p \in Procs, StepOf(p) PROVE InStep'
  <2>1. OpOK(p)'
    BY <1>1, InStepStep DEF InStep
  <2>. QED  BY <2>1 DEF InStep, Alone, OneDashboard
<1>2. CASE CliWrite
  BY <1>2 DEF CliWrite, Alone
<1>3. CASE UNCHANGED vars
  <2>1. UNCHANGED <<rows, log, op, broken, base>>
    BY <1>3 DEF vars
  <2>2. \A i : Started(i)' = Started(i) /\ Replayed(i)' = Replayed(i)
    BY <2>1, SameAccounts, SameLog
  <2>3. \A i : Accounted(i)' = Accounted(i)
    BY <2>1, <2>2 DEF Accounted
  <2>4. Revision' = Revision
    BY <2>1, SameLog
  <2>. QED
    BY <2>1, <2>2, <2>3, <2>4 DEF InStep, OpOK, Course, RowsLogged, RowsWritten, ImagesLogged
<1>. QED  BY <1>1, <1>2, <1>3, StepsOfNext

LEMMA InStepInvariance == ASSUME Alone PROVE Spec => [](TypeOK /\ InStep)
<1>1. Init => InStep
  BY InStepInit DEF InStep
<1>2. TypeOK /\ InStep /\ [Next]_vars => InStep'
  BY InStepNext
<1>. QED  BY <1>1, <1>2, InitType, NextType, PTL DEF Spec

\* With one dashboard and no other writer, the translation memory is the replay of the
\* log whenever no mutation is under way, although no transaction spans the two. After a
\* kill at any step, or a failed append, it may be ahead of the log by a human row or by
\* the image the latest decision started from, and by nothing else.
THEOREM StoreLeadsTheLog == ASSUME Alone PROVE Spec => []StoreLeads
<1>1. TypeOK /\ InStep => StoreLeads
  <2>. SUFFICES ASSUME TypeOK, InStep, Settled, NEW i \in Ids
                PROVE  \/ rows[i] = Replayed(i)
                       \/ /\ broken
                          /\ \/ rows[i] # NoRow /\ rows[i].origin = "human"
                             \/ /\ LatestMutation(i) # 0
                                /\ rows[i] = log[LatestMutation(i)].before[i]
    BY DEF StoreLeads
  <2>1. rows[i] \in Accounted(i)
    BY DEF Alone, OneDashboard, Settled, InStep, OpOK, Course, RowsLogged
  <2>. QED  BY <2>1, NoRowIsNotARow DEF Accounted, Started
<1>. QED  BY <1>1, InStepInvariance, PTL

\* Under the same conditions, and until a kill or a failed append, the compensation of a
\* commit takes back only what the log does not account for.
THEOREM CompensationTakesItsOwn == ASSUME Alone PROVE Spec => CompensationSparesLogged
<1>1. TypeOK /\ InStep /\ [Next]_vars =>
          [\A p \in Procs :
              ~broken /\ op[p].kind \in {"commit", "unify"}
                      /\ op[p].pc = "restore" /\ op'[p].pc = "idle" =>
              \A i \in op[p].ids : rows'[i] # rows[i] => rows[i] # Replayed(i)]_vars
  <2>. SUFFICES ASSUME TypeOK, InStep, [Next]_vars, NEW p \in Procs, ~broken,
                       op[p].kind \in {"commit", "unify"}, op[p].pc = "restore",
                       NEW i \in op[p].ids, rows'[i] # rows[i]
                PROVE  rows[i] # Replayed(i)
    OBVIOUS
  <2>1. i \in Ids
    BY OpTypes DEF TypeOK
  <2>2. op[p].outer[i] \in Accounted(i)
    BY <2>1 DEF InStep, OpOK, ImagesLogged, Mutations
  <2>3. PICK q \in Procs : StepOf(q)
    BY StepsOfNext DEF CliWrite, Alone, vars
  <2>4. q = p
    BY DEF Alone, OneDashboard
  <2>5. Restore(p)
    BY <2>3, <2>4, Arrivals DEF Arrives, Write, Revert
  <2>6. rows'[i] = op[p].outer[i]
    BY <2>1, <2>5 DEF Restore, Restored
  <2>. QED  BY <2>2, <2>6 DEF Accounted
<1>. QED  BY <1>1, InStepInvariance, PTL DEF Spec, CompensationSparesLogged

(******************************** the chain ********************************)
PriorIn(L, n, i) == {m \in 1..(n - 1) : L[m].kind \in Mutations /\ i \in L[m].ids}

LastPrior(L, n, i) ==
    CHOOSE m \in PriorIn(L, n, i) : \A k \in PriorIn(L, n, i) : k <= m

ChainedAt(L, n, i) ==
    L[n].kind \in Mutations /\ i \in L[n].ids =>
        L[n].before[i] = IF PriorIn(L, n, i) = {} THEN base[i] ELSE L[LastPrior(L, n, i)].after[i]

LEMMA ChainedIsChainedAt ==
    /\ Chained <=> \A n \in 1..Len(log), i \in Ids : ChainedAt(log, n, i)
    /\ base' = base => (Chained' <=> \A n \in 1..Len(log'), i \in Ids : ChainedAt(log', n, i))
BY DEF Chained, ChainedAt, PriorIn, LastPrior

LEMMA ChainedNext ==
    ASSUME TypeOK, InStep, Chained, ~broken, [Next]_vars
    PROVE  Chained'
<1>1. ASSUME NEW p \in Procs, AppendLog(p) PROVE Chained'
  <2> DEFINE e == [kind |-> op[p].kind, ids |-> op[p].ids,
                   before |-> op[p].before, after |-> op[p].after]
             k == Len(log) + 1
  <2>1. /\ Len(log') = k /\ log'[k] = e /\ Len(log) \in Nat /\ log \in Seq(Entries)
        /\ \A n \in 1..Len(log) : log'[n] = log[n]
    BY <1>1, AppendStep, LenProperties DEF TypeOK
  <2>2. /\ e.kind = op[p].kind /\ e.ids = op[p].ids /\ e.before = op[p].before
        /\ op[p].pc = "file" /\ base' = base
    BY <1>1 DEF AppendLog
  <2>. HIDE DEF e
  <2>3. ASSUME NEW n \in 1..Len(log), NEW i \in Ids
        PROVE  ChainedAt(log', n, i)
    <3>1. PriorIn(log', n, i) = PriorIn(log, n, i)
      BY <2>1 DEF PriorIn
    <3>2. LastPrior(log', n, i) = LastPrior(log, n, i)
      BY <3>1 DEF LastPrior
    <3>3. CASE PriorIn(log, n, i) # {}
      <4>1. PriorIn(log, n, i) \subseteq 1..Len(log)
        BY <2>1 DEF PriorIn
      <4>2. \E m \in PriorIn(log, n, i) : \A l \in PriorIn(log, n, i) : l <= m
        BY <2>1, <3>3, <4>1, Greatest
      <4>3. LastPrior(log, n, i) \in 1..Len(log)
        BY <4>1, <4>2 DEF LastPrior
      <4>4. ChainedAt(log, n, i)
        BY ChainedIsChainedAt
      <4>. QED  BY <2>1, <3>1, <3>2, <4>3, <4>4 DEF ChainedAt
    <3>4. CASE PriorIn(log, n, i) = {}
      BY <2>1, <3>1, <3>4, ChainedIsChainedAt DEF ChainedAt
    <3>. QED  BY <3>3, <3>4
  <2>4. ASSUME NEW i \in Ids PROVE ChainedAt(log', k, i)
    <3>. SUFFICES ASSUME op[p].kind \in Mutations, i \in op[p].ids
                  PROVE  op[p].before[i] = IF PriorIn(log', k, i) = {} THEN base[i]
                                           ELSE log'[LastPrior(log', k, i)].after[i]
      BY <2>1, <2>2 DEF ChainedAt
    <3>1. op[p].before[i] = Replayed(i)
      BY <2>2 DEF InStep, OpOK, ImagesLogged, Accounted
    <3>2. PriorIn(log', k, i) = Changing(log, i)
      BY <2>1 DEF PriorIn, Changing
    <3>3. CASE Changing(log, i) # {}
      <4>1. LastPrior(log', k, i) = LatestOf(log, i)
        BY <3>2, <3>3 DEF LastPrior, LatestOf
      <4>2. LatestOf(log, i) \in 1..Len(log)
        BY <2>1, <3>3, LatestOfFacts
      <4>. QED  BY <2>1, <3>1, <3>2, <3>3, <4>1, <4>2, LogOperators DEF Replayed
    <3>4. CASE Changing(log, i) = {}
      BY <3>1, <3>2, <3>4, LogOperators DEF LatestOf, Replayed
    <3>. QED  BY <3>3, <3>4
  <2>. QED  BY <2>1, <2>2, <2>3, <2>4, ChainedIsChainedAt
<1>2. CASE UNCHANGED <<log, base>>
  BY <1>2, ChainedIsChainedAt
<1>3. (\E p \in Procs : AppendLog(p)) \/ UNCHANGED <<log, base>>
  BY StepsOfNext, Arrivals DEF Arrives, CliWrite, vars
<1>. QED  BY <1>1, <1>2, <1>3

\* Under the same conditions, and until a kill or a failed append, each decision starts
\* where the one before it on that coordinate ended: a revert of the latest one restores
\* what the log says was there.
THEOREM DecisionsChain == ASSUME Alone PROVE Spec => [](broken \/ Chained)
<1>1. Init => Chained
  BY EmptySeq DEF Init, Chained
<1>2. TypeOK /\ InStep /\ (broken \/ Chained) /\ [Next]_vars => (broken \/ Chained)'
  <2>1. TypeOK /\ broken /\ [Next]_vars => broken'
    BY StepsOfNext, Arrivals DEF Arrives, FailAppend, Crash, CliWrite, vars
  <2>. QED  BY <2>1, ChainedNext
<1>. QED  BY <1>1, <1>2, InStepInvariance, PTL DEF Spec
=============================================================================
