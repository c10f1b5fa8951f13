------------------------------- MODULE TMStore -------------------------------
(****************************************************************************)
(* The rows of the SQLite translation memory and what each of its SQL       *)
(* statements does to them (adapters/storage/sqlite_tm.py).                 *)
(*                                                                          *)
(* tm_entries is a function from stable identities to a row or NoRow;       *)
(* tm_source_history a function from an identity and a source fingerprint.  *)
(* A row keeps the columns that decide a guard, a lookup or a promotion.    *)
(* `classification' is not a field of its own: it is legacy_clean exactly   *)
(* on the legacy rows that passed the import checks (IsLegacyClean).        *)
(* Translations are non-empty: an empty one is refused for a human row and  *)
(* classified quarantined by the legacy import.                             *)
(****************************************************************************)

CONSTANTS
    Ids,    \* stable identities (coordinates)
    Fps,    \* source fingerprints
    Txts,   \* translations
    Runs,   \* run identifiers
    NoRow,  \* "no such row"
    NoRun   \* run_id IS NULL

Origins == {"machine", "human", "legacy", "paratranz"}

\* The review states of the ParaTranz stages 1, 2, 3, 5, 9 and -1. Stage 0 has no
\* translation.
RemoteReviews == {"unreviewed", "suspect", "checked", "reviewed", "locked", "hidden"}

Reviews == RemoteReviews \cup {"quarantined"}

Rows == [fp : Fps, txt : Txts, origin : Origins, review : Reviews,
         quality : {"candidate", "passed", "failed"}, run : Runs \cup {NoRun},
         formal : BOOLEAN, human : BOOLEAN]

ASSUME NoRowIsNotARow == NoRow \notin Rows

ASSUME NoRunIsNotARun == NoRun \notin Runs

\* A table, and equally a batch of entries: NoRow where there is no entry.
Tables == [Ids -> Rows \cup {NoRow}]

Histories == [Ids -> [Fps -> Rows \cup {NoRow}]]

Present(table) == {i \in Ids : table[i] # NoRow}

Restricted(table, D) == [i \in Ids |-> IF i \in D THEN table[i] ELSE NoRow]

------------------------------------------------------------------------------
(* One-slip variants of definitions below; no specification uses them.      *)

\* The upsert without its second WHERE clause.
GateFormalOnly(old, new) == ~old.formal \/ new.formal

\* An archive keyed by every fingerprint instead of the row's own.
ArchivedEverywhere(rows, hist, D) ==
    [i \in Ids |-> [f \in Fps |-> IF i \in D THEN rows[i] ELSE hist[i][f]]]

\* Archiving when the source is the same instead of when it differs.
ReplacedSameSource(rows, es) ==
    {i \in Ids : /\ es[i] # NoRow /\ es[i].formal
                 /\ rows[i] # NoRow /\ rows[i].formal
                 /\ rows[i].fp = es[i].fp}

\* The shadow rows that the snapshot does not have any more stay.
ShadowMerged(rows, es) ==
    [i \in Ids |-> IF es[i] # NoRow /\ (rows[i] = NoRow \/ rows[i].origin = "legacy")
                   THEN es[i] ELSE rows[i]]

\* The promotion restricted to reviewed rows.
PromotedReviewed(rows, r, D) ==
    [i \in Ids |-> IF /\ i \in D /\ rows[i] # NoRow
                      /\ rows[i].run = r /\ rows[i].review = "reviewed"
                   THEN [rows[i] EXCEPT !.formal = TRUE] ELSE rows[i]]

------------------------------------------------------------------------------
(* The row shapes the writers of the repository produce.                    *)

MachineRow(f, t, r) ==
    [fp |-> f, txt |-> t, origin |-> "machine", review |-> "unreviewed",
     quality |-> "passed", run |-> r, formal |-> FALSE, human |-> FALSE]

HumanRow(f, t) ==
    [fp |-> f, txt |-> t, origin |-> "human", review |-> "reviewed",
     quality |-> "passed", run |-> NoRun, formal |-> TRUE, human |-> TRUE]

LegacyRow(f, t, clean) ==
    [fp |-> f, txt |-> t, origin |-> "legacy",
     review |-> IF clean THEN "unreviewed" ELSE "quarantined",
     quality |-> IF clean THEN "passed" ELSE "failed",
     run |-> NoRun, formal |-> FALSE, human |-> FALSE]

\* The stages checked, reviewed and locked are formal; the others are kept only.
RemoteRow(f, t, review) ==
    LET formal == review \in {"checked", "reviewed", "locked"} IN
    [fp |-> f, txt |-> t, origin |-> "paratranz", review |-> review,
     quality |-> IF formal THEN "passed" ELSE "candidate",
     run |-> NoRun, formal |-> formal, human |-> TRUE]

IsLegacyClean(row) == row.origin = "legacy" /\ row.quality = "passed"

------------------------------------------------------------------------------
(* Reading.                                                                 *)

Usable(row) == row.quality # "failed" /\ row.review \notin {"suspect", "quarantined"}

LookupHistory(hist, i, f) ==
    IF hist[i][f] # NoRow /\ Usable(hist[i][f]) THEN hist[i][f] ELSE NoRow

\* lookup(..., source_fingerprint = f, allow_shadow = True), as the planner calls it.
Lookup(rows, hist, i, f) ==
    IF rows[i] # NoRow /\ rows[i].fp = f
    THEN IF Usable(rows[i]) /\ (rows[i].formal \/ IsLegacyClean(rows[i]))
         THEN rows[i] ELSE NoRow
    ELSE LookupHistory(hist, i, f)

\* stale_formal_identities for machine candidates at the fingerprints src[i], i \in D.
StaleFormal(rows, hist, src, D) ==
    {i \in D : /\ rows[i] # NoRow
               /\ rows[i].formal
               /\ rows[i].fp # src[i]
               /\ LookupHistory(hist, i, src[i]) = NoRow}

RemoteGuarded(row) ==
    /\ row # NoRow
    /\ (row.origin = "paratranz" /\ row.human) \/ row.review = "locked"

------------------------------------------------------------------------------
(* Writing.                                                                 *)

\* The WHERE of the one guarded upsert.
Gate(old, new) ==
    /\ ~old.formal \/ new.formal
    /\ ~(new.origin = "machine" /\ old.human)

Admitted(rows, i, new) == rows[i] = NoRow \/ Gate(rows[i], new)

Upserted(rows, es) ==
    [i \in Ids |-> IF es[i] # NoRow /\ Admitted(rows, i, es[i]) THEN es[i] ELSE rows[i]]

Archived(rows, hist, D) ==
    [i \in Ids |-> [f \in Fps |->
        IF i \in D /\ rows[i].fp = f THEN rows[i] ELSE hist[i][f]]]

\* The formal rows that formal entries of another fingerprint are about to replace.
ReplacedFormal(rows, es) ==
    {i \in Ids : /\ es[i] # NoRow /\ es[i].formal
                 /\ rows[i] # NoRow /\ rows[i].formal
                 /\ rows[i].fp # es[i].fp}

Deleted(rows, D) == [i \in Ids |-> IF i \in D THEN NoRow ELSE rows[i]]

\* replace_legacy_shadow: drop the shadow rows, insert the snapshot, and leave
\* alone every coordinate that holds anything else.
IsShadow(row) == row # NoRow /\ row.origin = "legacy" /\ ~row.formal

ShadowReplaced(rows, es) ==
    [i \in Ids |-> IF rows[i] = NoRow \/ IsShadow(rows[i]) THEN es[i] ELSE rows[i]]

Promoted(rows, r, D) ==
    [i \in Ids |-> IF i \in D /\ rows[i] # NoRow /\ rows[i].run = r
                   THEN [rows[i] EXCEPT !.formal = TRUE] ELSE rows[i]]

\* validate_promotable_run.
Promotable(rows, r, D) ==
    \A i \in D : rows[i] # NoRow /\ rows[i].run = r /\ rows[i].quality = "passed"
=============================================================================
