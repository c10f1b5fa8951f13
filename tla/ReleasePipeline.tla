--------------------------- MODULE ReleasePipeline ---------------------------
(***************************************************************************)
(* A release from the first check of its run id to the last object of its  *)
(* last publish target: ProjectRunner.run and LocalBuildPipeline.build in  *)
(* release mode, the quality gate with its baseline of accepted debt,      *)
(* ArtifactBuilder.build_release, the publish commands and the protocol    *)
(* the four publishers share (look, upload, download and compare).         *)
(*                                                                         *)
(* What a build translates is TranslationRun's subject, and the formal     *)
(* rows it promotes TranslationMemory's: here a build ends up with some    *)
(* content and some findings.  Bytes are told apart by content: an archive *)
(* is its content, metadata.json and the manifest carry time stamps and    *)
(* digests and so are the bundle they describe.                            *)
(***************************************************************************)
EXTENDS Naturals

CONSTANTS Runs, Versions, Contents,
          Keys,          \* debt keys: a coordinate, a QA code and its details
          Targets,
          Local,         \* targets of type local
          Versioned,     \* targets whose prefix or tag contains the version
          Compat,        \* TRUE: the project has a public metadata.json
          Builders, Publishers,  \* processes that run build and publish
          SharedRuns,    \* TRUE: two builds may have the same run id at once
          SharedTargets, \* TRUE: two publish commands may run at once
          Shared,        \* the slot of metadata.json without version prefix
          None,
          MaxFaults      \* errors, lost answers and kills of a behaviour

ASSUME PipelineAssumption ==
  /\ Local \subseteq Targets /\ Versioned \subseteq Targets
  /\ Compat \in BOOLEAN /\ SharedRuns \in BOOLEAN /\ SharedTargets \in BOOLEAN
  /\ Shared \notin Versions /\ MaxFaults \in Nat
  /\ None \notin Contents /\ None \notin Runs /\ None \notin Versions

VARIABLES builds,    \* builder -> the build it runs
          output,    \* run id -> the files under output/release/<run_id>
          baseline,  \* the file of accepted debt; None: absent
          approved,  \* history: debt an operator approved as new in it
          publishes, \* publisher -> the publish command it runs
          objects,   \* target, object name -> the bytes stored there
          receipts,  \* history: <<target, bundle>> answered "succeeded"
          faults

buildVars == <<builds, output>>
publishVars == <<publishes, objects, receipts>>
vars == <<builds, output, baseline, approved, publishes, objects, receipts, faults>>

(***************************** values and files ****************************)
Bundles == [run : Runs, version : Versions, content : Contents]

(* What validation finds: errors of units this run translated, errors of   *)
(* units it carried over, and whether a unit failed.                       *)
Findings == {f \in [new : SUBSET Keys, carried : SUBSET Keys, failed : BOOLEAN] :
               f.new \cap f.carried = {}}

Stages == {"idle", "translate", "inspect", "report", "render", "archive",
           "metadata", "manifest", "promote"}
BuildRecords ==
  [pc : Stages, run : Runs \cup {None}, version : Versions \cup {None},
   content : Contents \cup {None}, findings : Findings \cup {None}, base : SUBSET Keys]
Outputs ==
  [root : BOOLEAN, report : Findings \cup {None},
   rendered : Contents \cup {None}, archive : Contents \cup {None},
   metadata : Bundles \cup {None}, manifest : Bundles \cup {None}]
NoBuild == [pc |-> "idle", run |-> None, version |-> None, content |-> None,
            findings |-> None, base |-> {}]
NoOutput == [root |-> FALSE, report |-> None, rendered |-> None,
             archive |-> None, metadata |-> None, manifest |-> None]
Kinds == {"archive", "metadata", "manifest"}
Bytes == Contents \cup Bundles \cup {None}
PublishRecords ==
  [pc : {"idle", "open", "head", "put", "verify"}, bundle : Bundles \cup {None},
   todo : SUBSET Targets, target : Targets \cup {None}, kind : Kinds,
   payload : [Kinds -> Bytes]]
NoPublish == [pc |-> "idle", bundle |-> None, todo |-> {}, target |-> None,
              kind |-> "archive", payload |-> [k \in Kinds |-> None]]

ASSUME NoneIsNoRecord == None \notin Bundles /\ None \notin Findings

(* The names of a target's objects: archive and manifest are named after   *)
(* the version, metadata.json only by a prefix that contains it.           *)
Slots == Versions \cup {Shared}
Slot(t, kind, v) == IF kind = "metadata" /\ t \notin Versioned THEN Shared ELSE v

(* Mutant: a unit that failed does not stop the release. *)
PassedFailed(f, base) == f.new = {} /\ f.carried \subseteq base
(* QualityGate.evaluate: nothing new, nothing failed, and what is carried  *)
(* was accepted.                                                           *)
Passed(f, base) == f.new = {} /\ ~f.failed /\ f.carried \subseteq base

(* ReleaseBundle.load and verify: the manifest's digests fit the files.    *)
Verified(r, b) == /\ b # None
                  /\ output[r].archive = b.content
                  /\ Compat => output[r].metadata = b

Init == /\ builds = [b \in Builders |-> NoBuild]
        /\ output = [r \in Runs |-> NoOutput]
        /\ baseline = None /\ approved = {}
        /\ publishes = [p \in Publishers |-> NoPublish]
        /\ objects = [t \in Targets |-> [o \in Kinds \X Slots |-> None]]
        /\ receipts = {} /\ faults = 0

Fault == faults < MaxFaults /\ faults' = faults + 1
Build(b, changes) == builds' = [builds EXCEPT ![b] = changes]
Put(r, name, value) == output' = [output EXCEPT ![r][name] = value]

(********************************* building ********************************)
(* ProjectRunner.run: the run id must not have a release directory yet,    *)
(* which is asked before anything is paid for.                             *)
CheckRun(b, r, v) ==
  /\ builds[b].pc = "idle" /\ ~output[r].root
  /\ ~SharedRuns => \A c \in Builders : builds[c].run # r
  /\ Build(b, [NoBuild EXCEPT !.pc = "translate", !.run = r, !.version = v])
  /\ UNCHANGED <<output, baseline, approved, publishVars, faults>>

(* The translation run, its candidates staged in the memory; the baseline  *)
(* is loaded when the build pipeline is made.                              *)
Translate(b, c) ==
  /\ builds[b].pc = "translate"
  /\ Build(b, [builds[b] EXCEPT !.pc = "inspect", !.content = c,
                                !.base = IF baseline = None THEN {} ELSE baseline])
  /\ UNCHANGED <<output, baseline, approved, publishVars, faults>>

(* build() asks again whether the directory exists, then validates every   *)
(* unit; the directory is made only when the report is written.            *)
Inspect(b, f) ==
  /\ builds[b].pc = "inspect"
  /\ Build(b, IF output[builds[b].run].root
                THEN NoBuild ELSE [builds[b] EXCEPT !.pc = "report", !.findings = f])
  /\ UNCHANGED <<output, baseline, approved, publishVars, faults>>

(* The QA report and the review index are written whatever the gate says;  *)
(* then require_release ends a build that does not pass.                   *)
Report(b) ==
  LET me == builds[b] IN
  /\ me.pc = "report"
  /\ output' = [output EXCEPT ![me.run].root = TRUE, ![me.run].report = me.findings]
  /\ Build(b, IF Passed(me.findings, me.base)
                THEN [me EXCEPT !.pc = "render"] ELSE NoBuild)
  /\ UNCHANGED <<baseline, approved, publishVars, faults>>

(* Every resource is rendered and re-read; then the rows to promote are    *)
(* checked.                                                                *)
Render(b) ==
  /\ builds[b].pc = "render"
  /\ Put(builds[b].run, "rendered", builds[b].content)
  /\ Build(b, [builds[b] EXCEPT !.pc = "archive"])
  /\ UNCHANGED <<baseline, approved, publishVars, faults>>

(* The rendered tree is packed beside the archive and moved over it, and   *)
(* the digest is taken from the file that is there then.                   *)
Archive(b) ==
  LET me == builds[b] IN
  /\ me.pc = "archive"
  /\ Put(me.run, "archive", output[me.run].rendered)
  /\ Build(b, [me EXCEPT !.pc = IF Compat THEN "metadata" ELSE "manifest",
                         !.content = output[me.run].rendered])
  /\ UNCHANGED <<baseline, approved, publishVars, faults>>

Described(me) == [run |-> me.run, version |-> me.version, content |-> me.content]

Metadata(b) ==
  /\ builds[b].pc = "metadata"
  /\ Put(builds[b].run, "metadata", Described(builds[b]))
  /\ Build(b, [builds[b] EXCEPT !.pc = "manifest"])
  /\ UNCHANGED <<baseline, approved, publishVars, faults>>

(* The manifest is written last; build_release ends with bundle.verify,    *)
(* whose failure ends the build and leaves the files.                      *)
Manifest(b) ==
  LET me == builds[b] IN
  /\ me.pc = "manifest"
  /\ Put(me.run, "manifest", Described(me))
  /\ Build(b, IF Verified(me.run, Described(me))
                THEN [me EXCEPT !.pc = "promote"] ELSE NoBuild)
  /\ UNCHANGED <<baseline, approved, publishVars, faults>>

(* promote_run; whether it succeeds or not, the bundle stays.              *)
Promote(b) == /\ builds[b].pc = "promote"
              /\ Build(b, NoBuild)
              /\ UNCHANGED <<output, baseline, approved, publishVars, faults>>

(* An exception or a kill at any point of a build: no file is removed.     *)
Abandon(b) == /\ builds[b].pc # "idle" /\ Fault
              /\ Build(b, NoBuild)
              /\ UNCHANGED <<output, baseline, approved, publishVars>>

(* qa-accept-debt: rewrite the baseline with the carried errors of a QA    *)
(* report (a preview's or a release's); keys the baseline does not have    *)
(* yet need --allow-new-keys, unless there is no baseline.                 *)
AcceptDebt(carried, allow) ==
  /\ (baseline # None /\ ~allow) => carried \subseteq baseline
  /\ baseline' = carried
  /\ approved' = IF baseline = None \/ allow THEN approved \cup carried ELSE approved
  /\ UNCHANGED <<buildVars, publishVars, faults>>

(******************************** publishing *******************************)
Publisher(p, changes) == publishes' = [publishes EXCEPT ![p] = changes]

(* A target is over, whatever its result; the command goes on to the next. *)
TargetOver(p) == Publisher(p, [publishes[p] EXCEPT !.pc = "open", !.target = None,
                                                   !.todo = @ \ {publishes[p].target}])

(* publish and publish-local: load a manifest whose files are there and    *)
(* whose digests fit, for all targets or for one local one.                *)
Load(p, r, todo) ==
  /\ publishes[p].pc = "idle"
  /\ ~SharedTargets => \A q \in Publishers : publishes[q].pc = "idle"
  /\ Verified(r, output[r].manifest)
  /\ Publisher(p, [NoPublish EXCEPT !.pc = "open", !.todo = todo,
                                    !.bundle = output[r].manifest])
  /\ UNCHANGED <<buildVars, baseline, approved, objects, receipts, faults>>

(* Mutant: the pointer goes first. *)
OpenPointerFirst(p, t) ==
  LET me == publishes[p]
      r == me.bundle.run IN
  /\ me.pc = "open" /\ t \in me.todo
  /\ IF Verified(r, me.bundle)
       THEN Publisher(p, [me EXCEPT !.pc = "head", !.target = t,
                                    !.kind = IF Compat THEN "metadata" ELSE "manifest",
                                    !.payload = [k \in Kinds |-> output[r][k]]])
       ELSE Publisher(p, [me EXCEPT !.todo = @ \ {t}])
  /\ UNCHANGED <<buildVars, baseline, approved, objects, receipts, faults>>

(* verified_payloads: verify again and read what will be sent.             *)
Open(p, t) ==
  LET me == publishes[p]
      r == me.bundle.run IN
  /\ me.pc = "open" /\ t \in me.todo
  /\ IF Verified(r, me.bundle)
       THEN Publisher(p, [me EXCEPT !.pc = "head", !.target = t, !.kind = "archive",
                                    !.payload = [k \in Kinds |-> output[r][k]]])
       ELSE Publisher(p, [me EXCEPT !.todo = @ \ {t}])
  /\ UNCHANGED <<buildVars, baseline, approved, objects, receipts, faults>>

(* Every target has its result: the command ends.                          *)
Close(p) == /\ publishes[p].pc = "open" /\ publishes[p].todo = {}
            /\ Publisher(p, NoPublish)
            /\ UNCHANGED <<buildVars, baseline, approved, objects, receipts, faults>>

(* The object a process is at, and what the pointer file of a target is.   *)
Name(me) == <<me.kind, Slot(me.target, me.kind, me.bundle.version)>>
Stored(me) == objects[me.target][Name(me)]
Sent(me) == me.payload[me.kind]
Pointer == IF Compat THEN "metadata" ELSE "manifest"
Last(t) == IF t \in Local THEN "manifest" ELSE Pointer

(* The archive goes first, then metadata.json or the manifest; a local     *)
(* target of a project with metadata gets the manifest as well.            *)
After(kind) == IF kind = "archive" THEN Pointer ELSE "manifest"

(* Mutants: other bytes are overwritten; any object there is refused. *)
HeadOverwrites(p) ==
  LET me == publishes[p] IN
  /\ me.pc = "head"
  /\ IF Stored(me) = Sent(me) THEN Publisher(p, [me EXCEPT !.pc = "verify"])
                             ELSE Publisher(p, [me EXCEPT !.pc = "put"])
  /\ UNCHANGED <<buildVars, baseline, approved, objects, receipts, faults>>
HeadRefuses(p) ==
  LET me == publishes[p] IN
  /\ me.pc = "head"
  /\ IF Stored(me) = None THEN Publisher(p, [me EXCEPT !.pc = "put"]) ELSE TargetOver(p)
  /\ UNCHANGED <<buildVars, baseline, approved, objects, receipts, faults>>

(* Look first: absent is uploaded, the same bytes are skipped, other bytes *)
(* are refused.                                                            *)
Head(p) ==
  LET me == publishes[p] IN
  /\ me.pc = "head"
  /\ \/ Stored(me) = None /\ Publisher(p, [me EXCEPT !.pc = "put"])
     \/ Stored(me) = Sent(me) /\ Publisher(p, [me EXCEPT !.pc = "verify"])
     \/ Stored(me) \notin {None, Sent(me)} /\ TargetOver(p)
  /\ UNCHANGED <<buildVars, baseline, approved, objects, receipts, faults>>

Store(me) == objects' = [objects EXCEPT ![me.target][Name(me)] = Sent(me)]

(* The upload, unconditional by now.                                       *)
Upload(p) ==
  /\ publishes[p].pc = "put"
  /\ Store(publishes[p])
  /\ Publisher(p, [publishes[p] EXCEPT !.pc = "verify"])
  /\ UNCHANGED <<buildVars, baseline, approved, receipts, faults>>

(* The upload took effect but its answer was lost: the target failed.      *)
UploadLost(p) ==
  /\ publishes[p].pc = "put" /\ Fault
  /\ Store(publishes[p])
  /\ TargetOver(p)
  /\ UNCHANGED <<buildVars, baseline, approved, receipts>>

(* Mutant: the target counts as done after its archive. *)
CompareEarly(p) ==
  LET me == publishes[p] IN
  /\ me.pc = "verify"
  /\ Stored(me) = Sent(me)
  /\ receipts' = receipts \cup {<<me.target, me.bundle>>}
  /\ TargetOver(p)
  /\ UNCHANGED <<buildVars, baseline, approved, objects, faults>>

(* Download and compare; after the last object the target succeeded.       *)
Compare(p) ==
  LET me == publishes[p] IN
  /\ me.pc = "verify"
  /\ \/ /\ Stored(me) # Sent(me)
        /\ TargetOver(p) /\ UNCHANGED receipts
     \/ /\ Stored(me) = Sent(me) /\ me.kind # Last(me.target)
        /\ Publisher(p, [me EXCEPT !.pc = "head", !.kind = After(me.kind)])
        /\ UNCHANGED receipts
     \/ /\ Stored(me) = Sent(me) /\ me.kind = Last(me.target)
        /\ receipts' = receipts \cup {<<me.target, me.bundle>>}
        /\ TargetOver(p)
  /\ UNCHANGED <<buildVars, baseline, approved, objects, faults>>

(* Any error of one target (refused, unreachable, a bug) ends that target. *)
TargetFailed(p) ==
  /\ publishes[p].pc \in {"head", "put", "verify"} /\ Fault
  /\ TargetOver(p)
  /\ UNCHANGED <<buildVars, baseline, approved, objects, receipts>>

KillPublish(p) ==
  /\ publishes[p].pc # "idle" /\ Fault
  /\ Publisher(p, NoPublish)
  /\ UNCHANGED <<buildVars, baseline, approved, objects, receipts>>

(********************************* behaviour *******************************)
BuildStep(b) ==
  \/ \E c \in Contents : Translate(b, c)
  \/ \E f \in Findings : Inspect(b, f)
  \/ Report(b) \/ Render(b) \/ Archive(b)
  \/ Metadata(b) \/ Manifest(b) \/ Promote(b)

PublishStep(p) == \/ \E t \in Targets : Open(p, t)
                  \/ Close(p) \/ Head(p) \/ Upload(p) \/ Compare(p)

Next ==
  \/ \E b \in Builders : \/ \E r \in Runs, v \in Versions : CheckRun(b, r, v)
                         \/ BuildStep(b) \/ Abandon(b)
  \/ \E carried \in SUBSET Keys, allow \in BOOLEAN : AcceptDebt(carried, allow)
  \/ \E p \in Publishers :
       \/ \E r \in Runs, todo \in {Targets} \cup {{t} : t \in Local} : Load(p, r, todo)
       \/ PublishStep(p) \/ UploadLost(p) \/ TargetFailed(p) \/ KillPublish(p)

Spec == Init /\ [][Next]_vars

(******************************** properties *******************************)
(* Every process, file and object is of the kind its code keeps.           *)
TypeOK ==
  /\ builds \in [Builders -> BuildRecords] /\ output \in [Runs -> Outputs]
  /\ baseline \in (SUBSET Keys) \cup {None} /\ approved \subseteq Keys
  /\ publishes \in [Publishers -> PublishRecords]
  /\ objects \in [Targets -> [Kinds \X Slots -> Bytes]]
  /\ receipts \subseteq Targets \X Bundles /\ faults \in 0..MaxFaults

(* What the abstract specification sees of the files and the targets.      *)
complete == {output[r].manifest : r \in {r \in Runs : Verified(r, output[r].manifest)}}
live == [t \in Targets |-> [s \in Slots |-> objects[t][<<Pointer, s>>]]]
Promise == INSTANCE Release WITH complete <- complete, live <- live

(* The pipeline implements Release: whatever is killed, lost or repeated,  *)
(* a bundle that was complete stays complete, and what a client finds      *)
(* behind a target's pointer is a complete bundle and stays the same one   *)
(* (builds of one run id do not overlap, and publish commands neither).    *)
ImplementsRelease == Promise!Spec

(* Behind a pointer the archive it names is there, with the digest it      *)
(* names: no upload that failed between the two objects, and no later      *)
(* release, leaves a pointer without its archive.                          *)
PointerComplete ==
  \A t \in Targets, s \in Slots :
    LET b == objects[t][<<Pointer, s>>] IN
    b # None => objects[t][<<"archive", b.version>>] = b.content

(* A target that answered "succeeded" for a bundle serves all of it, after *)
(* every later build and publish.                                          *)
ReceiptHolds ==
  \A x \in receipts :
    /\ objects[x[1]][<<"archive", x[2].version>>] = x[2].content
    /\ objects[x[1]][<<Pointer, Slot(x[1], Pointer, x[2].version)>>] = x[2]

(* What is published was clean: its report names no error of its own run   *)
(* and no failed unit, and every carried error in it was once approved by  *)
(* an operator as new debt.                                                *)
PublishedWasClean ==
  \A t \in Targets, o \in Kinds \X Slots :
    LET b == objects[t][o] IN
    b # None /\ o[1] # "archive" =>
      /\ output[b.run].report # None
      /\ output[b.run].report.new = {} /\ ~output[b.run].report.failed
      /\ output[b.run].report.carried \subseteq approved

(* A publish command is done with a target, without a fault and without a  *)
(* receipt, only when other bytes stand there: whatever an earlier attempt *)
(* uploaded, lost or left half-way, publishing the bundle again completes  *)
(* it.                                                                     *)
Differs(t, b) ==
  \E k \in {"archive", Pointer, Last(t)} :
    objects[t][<<k, Slot(t, k, b.version)>>] \notin {None, IF k = "archive" THEN b.content ELSE b}
RetrySucceeds ==
  [][\A p \in Publishers : \A t \in publishes[p].todo \ publishes'[p].todo :
       \/ faults' # faults
       \/ <<t, publishes[p].bundle>> \in receipts'
       \/ Differs(t, publishes[p].bundle)]_vars
==============================================================================
