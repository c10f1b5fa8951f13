------------------------ MODULE ReleasePipelineProofs ------------------------
(***************************************************************************)
(* The release pipeline implements Release, for any numbers of runs,       *)
(* versions, contents, debt keys, targets, builders, publishers and        *)
(* faults, as long as builds of one run id do not overlap and publish      *)
(* commands neither.                                                       *)
(*                                                                         *)
(* A manifest is the last file of a run and is never written again, so the *)
(* files it describes are final (GoodFiles); a publish that has passed an  *)
(* object has found or made it equal to what it sends (GoodPublish), and   *)
(* an object that is there is never replaced (StoreGrows).                 *)
(***************************************************************************)
EXTENDS ReleasePipeline, TLAPS

Exclusive == ~SharedRuns /\ ~SharedTargets

(******************************** invariant ********************************)
Early == {"translate", "inspect", "report"}
Late == {"render", "archive", "metadata", "manifest"}

\* A report the gate passes, its carried errors among the approved ones.
Clean(f, A) == f \in Findings /\ f.new = {} /\ ~f.failed /\ f.carried \subseteq A

\* A build, and the files o of its run.
GoodBuild(me, o, A) ==
  /\ me.base \subseteq A
  /\ me.pc # "idle" => me.run \in Runs /\ me.version \in Versions
  /\ me.pc = "idle" => me.run = None
  /\ me.pc \notin {"idle", "translate"} => me.content \in Contents
  /\ me.pc = "report" => me.findings \in Findings
  /\ me.pc \in Early => ~o.root
  /\ me.pc \in Late => o.root /\ o.manifest = None /\ Clean(o.report, A)
  /\ me.pc = "archive" => o.rendered = me.content
  /\ me.pc \in {"metadata", "manifest"} => o.archive = me.content
  /\ me.pc = "manifest" /\ Compat => o.metadata = Described(me)

\* The files of run r: the manifest is the last one.
GoodFiles(r, o, A) ==
  /\ ~o.root => o = NoOutput
  /\ o.manifest # None =>
       /\ o.manifest.run = r /\ o.archive = o.manifest.content
       /\ Compat => o.metadata = o.manifest
       /\ Clean(o.report, A)

BuildInv ==
  /\ builds \in [Builders -> BuildRecords] /\ output \in [Runs -> Outputs]
  /\ baseline \in (SUBSET Keys) \cup {None} /\ approved \subseteq Keys
  /\ baseline # None => baseline \subseteq approved
  /\ \A b \in Builders : GoodBuild(builds[b], output[builds[b].run], approved)
  /\ \A r \in Runs : GoodFiles(r, output[r], approved)
  /\ \A b, c \in Builders : builds[b].run = builds[c].run /\ builds[b].run # None => b = c

\* The bundle is complete in the files out.
Done(b, out) == b \in Bundles /\ out[b.run].manifest = b

\* What a publish sends for an object.
Meant(kind, b) == IF kind = "archive" THEN b.content ELSE b

GoodPublish(me, out, objs) ==
  /\ me.pc = "idle" => me = NoPublish
  /\ me.pc # "idle" => Done(me.bundle, out)
  /\ me.pc \in {"head", "put", "verify"} =>
       /\ me.target \in me.todo
       /\ me.kind \in {"archive", Pointer, "manifest"}
       /\ me.kind = "manifest" /\ Compat => me.target \in Local
       /\ \A k \in {"archive", Pointer, "manifest"} : me.payload[k] = Meant(k, me.bundle)
       /\ me.kind # "archive" =>
            objs[me.target][<<"archive", me.bundle.version>>] = me.bundle.content
       /\ me.kind = "manifest" /\ Compat =>
            objs[me.target][<<Pointer, Slot(me.target, Pointer, me.bundle.version)>>] = me.bundle
  /\ me.pc = "put" => objs[me.target][Name(me)] = None
  /\ me.pc = "verify" => objs[me.target][Name(me)] = Sent(me)

GoodObjects(out, objs) ==
  /\ \A t \in Targets, s \in Slots, k \in {"metadata", "manifest"} :
       objs[t][<<k, s>>] # None => Done(objs[t][<<k, s>>], out)
  /\ \A t \in Targets, s \in Slots :
       objs[t][<<Pointer, s>>] # None =>
         objs[t][<<"archive", objs[t][<<Pointer, s>>].version>>] = objs[t][<<Pointer, s>>].content

GoodReceipts(rec, out, objs) ==
  \A x \in rec :
    /\ Done(x[2], out)
    /\ objs[x[1]][<<"archive", x[2].version>>] = x[2].content
    /\ objs[x[1]][<<Pointer, Slot(x[1], Pointer, x[2].version)>>] = x[2]

PublishInv ==
  /\ publishes \in [Publishers -> PublishRecords]
  /\ objects \in [Targets -> [Kinds \X Slots -> Bytes]]
  /\ receipts \subseteq Targets \X Bundles /\ faults \in 0..MaxFaults
  /\ \A p \in Publishers : GoodPublish(publishes[p], output, objects)
  /\ \A p, q \in Publishers : publishes[p].pc # "idle" /\ publishes[q].pc # "idle" => p = q
  /\ GoodObjects(output, objects)
  /\ GoodReceipts(receipts, output, objects)

Inv == BuildInv /\ PublishInv

------------------------------------------------------------------------------
(* Types of what a step puts in the place of a record.                       *)

LEMMA NothingTypes ==
  /\ NoBuild \in BuildRecords /\ NoOutput \in Outputs /\ NoPublish \in PublishRecords
  /\ NoBuild.pc = "idle" /\ NoBuild.run = None /\ NoBuild.base = {}
  /\ NoOutput.manifest = None /\ NoOutput.root = FALSE /\ NoPublish.pc = "idle"
BY DEF NoBuild, NoOutput, NoPublish, BuildRecords, Outputs, PublishRecords, Stages, Kinds, Bytes

LEMMA NoBuildIsGood == ASSUME NEW o, NEW A PROVE GoodBuild(NoBuild, o, A)
BY DEF NoBuild, GoodBuild, Early, Late

\* Files without a manifest are good, once their directory exists.
LEMMA UnfinishedIsGood ==
  ASSUME NEW r, NEW A, NEW o, o.root, o.manifest = None PROVE GoodFiles(r, o, A)
BY DEF GoodFiles

LEMMA BuildRunType ==
  ASSUME BuildInv, NEW b \in Builders, builds[b].pc # "idle" \/ builds[b].run # None
  PROVE  builds[b].pc # "idle" /\ builds[b].run \in Runs /\ output[builds[b].run] \in Outputs
BY DEF BuildInv, GoodBuild

\* Debt that is approved later spoils nothing.
LEMMA ApprovalGrows ==
  ASSUME NEW me, NEW r, NEW o, NEW A, NEW B, A \subseteq B
  PROVE  /\ GoodBuild(me, o, A) => GoodBuild(me, o, B)
         /\ GoodFiles(r, o, A) => GoodFiles(r, o, B)
BY DEF GoodBuild, GoodFiles, Clean

(******************************** build steps ******************************)
\* A step of builder b that goes on with me, and leaves the files o in the
\* directory of its run r.
BuilderStep(b, me, r, o) ==
  /\ me \in BuildRecords /\ o \in Outputs
  /\ builds' = [builds EXCEPT ![b] = me] /\ output' = [output EXCEPT ![r] = o]
  /\ me = NoBuild \/ me.run = r
  /\ \A c \in Builders \ {b} : builds[c].run # r
  /\ GoodBuild(me, o, approved) /\ GoodFiles(r, o, approved)
  /\ output[r].manifest # None => o = output[r]
  /\ UNCHANGED <<baseline, approved, publishVars>> /\ faults' \in 0..MaxFaults

LEMMA BuilderStepKeeps ==
  ASSUME BuildInv, NEW b \in Builders, NEW me, NEW r \in Runs, NEW o, BuilderStep(b, me, r, o)
  PROVE  BuildInv'
<1>. USE DEF BuilderStep
<1>1. builds' \in [Builders -> BuildRecords] /\ output' \in [Runs -> Outputs]
  BY DEF BuildInv
<1>2. \A c \in Builders : builds'[c] = IF c = b THEN me ELSE builds[c]
  BY DEF BuildInv
<1>3. \A q \in Runs : output'[q] = IF q = r THEN o ELSE output[q]
  BY DEF BuildInv
<1>4. ASSUME NEW c \in Builders PROVE GoodBuild(builds'[c], output'[builds'[c].run], approved)
  <2>1. CASE c = b /\ me = NoBuild
    BY <1>2, <2>1, NoBuildIsGood
  <2>2. CASE c = b /\ me.run = r
    BY <1>2, <1>3, <2>2
  <2>3. CASE c # b /\ builds[c].pc = "idle"
    <3>1. builds'[c] = builds[c] /\ GoodBuild(builds[c], output[builds[c].run], approved)
      BY <1>2, <2>3 DEF BuildInv
    <3>. QED  BY <2>3, <3>1 DEF GoodBuild, Early, Late
  <2>4. CASE c # b /\ builds[c].pc # "idle"
    <3>1. builds[c].run \in Runs /\ builds[c].run # r
      BY <2>4, BuildRunType
    <3>2. builds'[c] = builds[c] /\ output'[builds[c].run] = output[builds[c].run]
      BY <1>2, <1>3, <2>4, <3>1
    <3>. QED  BY <3>2 DEF BuildInv
  <2>. QED  BY <2>1, <2>2, <2>3, <2>4
<1>5. ASSUME NEW q \in Runs PROVE GoodFiles(q, output'[q], approved)
  BY <1>3 DEF BuildInv
<1>6. ASSUME NEW c \in Builders, NEW d \in Builders, builds'[c].run = builds'[d].run, builds'[c].run # None
      PROVE  c = d
  <2>1. me.run \in {r, None}
    BY NothingTypes
  <2>2. \A e \in Builders \ {b} : builds'[e] = builds[e] /\ builds[e].run # r
    BY <1>2
  <2>3. builds'[b] = me
    BY <1>2
  <2>4. CASE c = b \/ d = b
    BY <1>6, <2>1, <2>2, <2>3, <2>4
  <2>5. CASE c # b /\ d # b
    BY <1>6, <2>2, <2>5 DEF BuildInv
  <2>. QED  BY <2>4, <2>5
<1>. QED  BY <1>1, <1>4, <1>5, <1>6 DEF BuildInv

\* A run belongs to one builder.
LEMMA OwnRun ==
  ASSUME BuildInv, NEW b \in Builders, builds[b].pc # "idle"
  PROVE  \A c \in Builders \ {b} : builds[c].run # builds[b].run
<1>1. builds[b].run \in Runs
  BY BuildRunType
<1>2. builds[b].run # None
  BY <1>1, PipelineAssumption
<1>. QED  BY <1>2 DEF BuildInv

\* Every step of a builder is a BuilderStep.
AnyBuilderStep(b) == \E me \in BuildRecords, r \in Runs, o \in Outputs : BuilderStep(b, me, r, o)

LEMMA StepWithoutFiles ==
  ASSUME BuildInv, NEW b \in Builders, NEW me \in BuildRecords, NEW r \in Runs,
         builds' = [builds EXCEPT ![b] = me], UNCHANGED <<output, baseline, approved, publishVars>>,
         faults' \in 0..MaxFaults,
         me = NoBuild \/ me.run = r, GoodBuild(me, output[r], approved),
         \A c \in Builders \ {b} : builds[c].run # r
  PROVE  AnyBuilderStep(b)
<1>1. output[r] \in Outputs /\ output' = [output EXCEPT ![r] = output[r]]
  BY DEF BuildInv
<1>2. GoodFiles(r, output[r], approved)
  BY DEF BuildInv
<1>3. BuilderStep(b, me, r, output[r])
  BY <1>1, <1>2 DEF BuilderStep
<1>. QED  BY <1>1, <1>3 DEF AnyBuilderStep

\* A step that ends the build of b and leaves the files.
LEMMA EndOfBuild ==
  ASSUME BuildInv, NEW b \in Builders, builds[b].pc # "idle", Build(b, NoBuild), faults' \in 0..MaxFaults,
         UNCHANGED <<output, baseline, approved, publishVars>>
  PROVE  AnyBuilderStep(b)
<1>1. builds[b].run \in Runs /\ \A c \in Builders \ {b} : builds[c].run # builds[b].run
  BY BuildRunType, OwnRun
<1>2. GoodBuild(NoBuild, output[builds[b].run], approved) /\ NoBuild \in BuildRecords
  BY NoBuildIsGood, NothingTypes
<1>3. builds' = [builds EXCEPT ![b] = NoBuild]
  BY DEF Build
<1>. QED  BY <1>1, <1>2, <1>3, StepWithoutFiles

LEMMA CheckRunStep ==
  ASSUME Inv, Exclusive, NEW b \in Builders, NEW r \in Runs, NEW v \in Versions, CheckRun(b, r, v)
  PROVE  AnyBuilderStep(b)
<1>. DEFINE me == [NoBuild EXCEPT !.pc = "translate", !.run = r, !.version = v]
<1>1. me \in BuildRecords /\ me.run = r
  BY DEF NoBuild, BuildRecords, Stages
<1>2. GoodBuild(me, output[r], approved)
  BY DEF NoBuild, GoodBuild, Early, Late, CheckRun
<1>3. \A c \in Builders : builds[c].run # r
  BY DEF CheckRun, Exclusive
<1>4. /\ builds' = [builds EXCEPT ![b] = me] /\ UNCHANGED <<output, baseline, approved, publishVars>>
      /\ faults' \in 0..MaxFaults
  BY DEF CheckRun, Build, Inv, PublishInv
<1>. HIDE DEF me
<1>. QED  BY <1>1, <1>2, <1>3, <1>4, StepWithoutFiles DEF Inv

LEMMA TranslateStep ==
  ASSUME Inv, Exclusive, NEW b \in Builders, NEW c \in Contents, Translate(b, c)
  PROVE  AnyBuilderStep(b)
<1>. DEFINE base == IF baseline = None THEN {} ELSE baseline
            me == [builds[b] EXCEPT !.pc = "inspect", !.content = c, !.base = base]
<1>1. /\ builds[b] \in BuildRecords /\ builds[b].pc = "translate"
      /\ GoodBuild(builds[b], output[builds[b].run], approved)
  BY DEF Inv, BuildInv, Translate
<1>2. base \in SUBSET Keys /\ base \subseteq approved
  BY DEF Inv, BuildInv
<1>3. me \in BuildRecords /\ me.run = builds[b].run
  BY <1>1, <1>2 DEF BuildRecords, Stages
<1>4. GoodBuild(me, output[builds[b].run], approved)
  BY <1>1, <1>2 DEF GoodBuild, Early, Late, BuildRecords
<1>5. builds[b].run \in Runs /\ \A d \in Builders \ {b} : builds[d].run # builds[b].run
  BY <1>1, BuildRunType, OwnRun DEF Inv
<1>6. /\ builds' = [builds EXCEPT ![b] = me] /\ UNCHANGED <<output, baseline, approved, publishVars>>
      /\ faults' \in 0..MaxFaults
  BY DEF Translate, Build, Inv, PublishInv
<1>. HIDE DEF me
<1>. QED  BY <1>3, <1>4, <1>5, <1>6, StepWithoutFiles DEF Inv

LEMMA InspectStep ==
  ASSUME Inv, Exclusive, NEW b \in Builders, NEW f \in Findings, Inspect(b, f)
  PROVE  AnyBuilderStep(b)
<1>. DEFINE me == [builds[b] EXCEPT !.pc = "report", !.findings = f]
<1>1. /\ builds[b] \in BuildRecords /\ builds[b].pc = "inspect"
      /\ GoodBuild(builds[b], output[builds[b].run], approved)
  BY DEF Inv, BuildInv, Inspect
<1>2. ~output[builds[b].run].root
  BY <1>1 DEF GoodBuild, Early
<1>3. me \in BuildRecords /\ me.run = builds[b].run
  BY <1>1 DEF BuildRecords, Stages
<1>4. GoodBuild(me, output[builds[b].run], approved)
  BY <1>1 DEF GoodBuild, Early, Late, BuildRecords
<1>5. builds[b].run \in Runs /\ \A d \in Builders \ {b} : builds[d].run # builds[b].run
  BY <1>1, BuildRunType, OwnRun DEF Inv
<1>6. /\ builds' = [builds EXCEPT ![b] = me] /\ UNCHANGED <<output, baseline, approved, publishVars>>
      /\ faults' \in 0..MaxFaults
  BY <1>2 DEF Inspect, Build, Inv, PublishInv
<1>. HIDE DEF me
<1>. QED  BY <1>3, <1>4, <1>5, <1>6, StepWithoutFiles DEF Inv

\* A step that writes files of a run without a manifest.
LEMMA StepWithFiles ==
  ASSUME Inv, NEW b \in Builders, builds[b].pc # "idle", NEW me \in BuildRecords, NEW o \in Outputs,
         builds' = [builds EXCEPT ![b] = me], output' = [output EXCEPT ![builds[b].run] = o],
         UNCHANGED <<baseline, approved, publishVars, faults>>,
         me = NoBuild \/ me.run = builds[b].run, GoodBuild(me, o, approved),
         output[builds[b].run].manifest = None, GoodFiles(builds[b].run, o, approved)
  PROVE  AnyBuilderStep(b)
<1>1. builds[b].run \in Runs /\ \A d \in Builders \ {b} : builds[d].run # builds[b].run
  BY BuildRunType, OwnRun DEF Inv
<1>2. BuilderStep(b, me, builds[b].run, o)
  BY <1>1 DEF BuilderStep, Inv, PublishInv
<1>. QED  BY <1>1, <1>2 DEF AnyBuilderStep

LEMMA ReportStep ==
  ASSUME Inv, NEW b \in Builders, Report(b) PROVE AnyBuilderStep(b)
<1>. DEFINE old == builds[b]
            r == old.run
            o == [output[r] EXCEPT !.root = TRUE, !.report = old.findings]
            me == IF Passed(old.findings, old.base) THEN [old EXCEPT !.pc = "render"] ELSE NoBuild
<1>1. old \in BuildRecords /\ old.pc = "report" /\ GoodBuild(old, output[r], approved)
  BY DEF Inv, BuildInv, Report
<1>2. r \in Runs /\ output[r] \in Outputs /\ ~output[r].root /\ GoodFiles(r, output[r], approved)
  BY <1>1, BuildRunType DEF Inv, BuildInv, GoodBuild, Early
<1>3. output[r].manifest = None
  BY <1>2, NothingTypes DEF GoodFiles
<1>4. o \in Outputs /\ o.root /\ o.manifest = None /\ o.report = old.findings
  BY <1>1, <1>2, <1>3 DEF Outputs, BuildRecords
<1>5. me \in BuildRecords /\ (me = NoBuild \/ me.run = r)
  BY <1>1, NothingTypes DEF BuildRecords, Stages
<1>6. GoodBuild(me, o, approved)
  <2>1. CASE Passed(old.findings, old.base)
    <3>1. Clean(old.findings, approved)
      BY <1>1, <2>1 DEF GoodBuild, Clean, Passed
    <3>2. /\ me.pc = "render" /\ me.base = old.base /\ me.run = old.run
          /\ me.version = old.version /\ me.content = old.content
      BY <1>1, <2>1 DEF BuildRecords
    <3>. QED  BY <1>1, <1>4, <3>1, <3>2 DEF GoodBuild, Early, Late
  <2>2. CASE ~Passed(old.findings, old.base)
    BY <2>2, NoBuildIsGood
  <2>. QED  BY <2>1, <2>2
<1>7. /\ output' = [output EXCEPT ![r] = o] /\ builds' = [builds EXCEPT ![b] = me]
      /\ UNCHANGED <<baseline, approved, publishVars, faults>>
  BY <1>2 DEF Report, Build, Inv, BuildInv
<1>8. GoodFiles(r, o, approved)
  BY <1>4, UnfinishedIsGood
<1>. HIDE DEF me, o
<1>. QED  BY <1>1, <1>3, <1>4, <1>5, <1>6, <1>7, <1>8, StepWithFiles

\* The stages from the gate to the manifest: the old files and the new ones.
LEMMA LateFacts ==
  ASSUME Inv, NEW b \in Builders, builds[b].pc \in Late
  PROVE  /\ builds[b] \in BuildRecords /\ builds[b].run \in Runs /\ builds[b].version \in Versions
         /\ builds[b].content \in Contents /\ output[builds[b].run] \in Outputs
         /\ builds[b].base \subseteq approved
         /\ output[builds[b].run].root /\ output[builds[b].run].manifest = None
         /\ Clean(output[builds[b].run].report, approved)
<1>1. GoodBuild(builds[b], output[builds[b].run], approved) /\ builds[b] \in BuildRecords
  BY DEF Inv, BuildInv
<1>2. builds[b].pc \notin {"idle", "translate"}
  BY DEF Late
<1>3. builds[b].run \in Runs /\ output[builds[b].run] \in Outputs
  BY <1>2, BuildRunType DEF Inv
<1>. QED  BY <1>1, <1>2, <1>3 DEF GoodBuild, Late
LEMMA RenderStep ==
  ASSUME Inv, NEW b \in Builders, Render(b) PROVE AnyBuilderStep(b)
<1>. DEFINE old == builds[b]
            o == [output[old.run] EXCEPT !["rendered"] = old.content]
            me == [old EXCEPT !.pc = "archive"]
<1>1. old.pc = "render" /\ old.pc \in Late
  BY DEF Render, Late
<1>2. o \in Outputs /\ o.root /\ o.manifest = None /\ o.rendered = old.content
      /\ o.report = output[old.run].report
  BY <1>1, LateFacts DEF Outputs
<1>3. /\ me \in BuildRecords /\ me.run = old.run /\ me.pc = "archive" /\ me.base = old.base
      /\ me.version = old.version /\ me.content = old.content
  BY <1>1, LateFacts DEF BuildRecords, Stages
<1>4. GoodBuild(me, o, approved)
  BY <1>1, <1>2, <1>3, LateFacts DEF GoodBuild, Early, Late
<1>5. /\ output' = [output EXCEPT ![old.run] = o] /\ builds' = [builds EXCEPT ![b] = me]
      /\ UNCHANGED <<baseline, approved, publishVars, faults>>
  BY <1>1, LateFacts DEF Render, Put, Build, Inv, BuildInv
<1>6. GoodFiles(old.run, o, approved)
  BY <1>2, UnfinishedIsGood
<1>7. old.pc # "idle" /\ output[old.run].manifest = None
  BY <1>1, LateFacts
<1>. HIDE DEF me, o
<1>. QED  BY <1>2, <1>3, <1>4, <1>5, <1>6, <1>7, StepWithFiles

LEMMA ArchiveStep ==
  ASSUME Inv, NEW b \in Builders, Archive(b) PROVE AnyBuilderStep(b)
<1>. DEFINE old == builds[b]
            o == [output[old.run] EXCEPT !["archive"] = output[old.run].rendered]
            me == [old EXCEPT !.pc = IF Compat THEN "metadata" ELSE "manifest",
                              !.content = output[old.run].rendered]
<1>1. old.pc = "archive" /\ old.pc \in Late
  BY DEF Archive, Late
<1>2. output[old.run].rendered = old.content
  BY <1>1 DEF Inv, BuildInv, GoodBuild
<1>3. o \in Outputs /\ o.root /\ o.manifest = None /\ o.archive = old.content
      /\ o.report = output[old.run].report
  BY <1>1, <1>2, LateFacts DEF Outputs
<1>4. /\ me \in BuildRecords /\ me.run = old.run /\ me.pc = (IF Compat THEN "metadata" ELSE "manifest")
      /\ me.base = old.base /\ me.version = old.version /\ me.content = old.content
  BY <1>1, <1>2, LateFacts DEF BuildRecords, Stages
<1>5. GoodBuild(me, o, approved)
  BY <1>1, <1>3, <1>4, LateFacts DEF GoodBuild, Early, Late
<1>6. /\ output' = [output EXCEPT ![old.run] = o] /\ builds' = [builds EXCEPT ![b] = me]
      /\ UNCHANGED <<baseline, approved, publishVars, faults>>
  BY <1>1, LateFacts DEF Archive, Put, Build, Inv, BuildInv
<1>7. GoodFiles(old.run, o, approved)
  BY <1>3, UnfinishedIsGood
<1>8. old.pc # "idle" /\ output[old.run].manifest = None
  BY <1>1, LateFacts
<1>. HIDE DEF me, o
<1>. QED  BY <1>3, <1>4, <1>5, <1>6, <1>7, <1>8, StepWithFiles

\* What a build describes is a bundle, and its archive is already there.
LEMMA DescribedFacts ==
  ASSUME Inv, NEW b \in Builders, builds[b].pc \in {"metadata", "manifest"}
  PROVE  /\ builds[b].pc \in Late
         /\ Described(builds[b]) \in Bundles /\ Described(builds[b]).run = builds[b].run
         /\ Described(builds[b]).content = builds[b].content
         /\ output[builds[b].run].archive = builds[b].content
         /\ builds[b].pc = "manifest" /\ Compat =>
              output[builds[b].run].metadata = Described(builds[b])
<1>1. builds[b].pc \in Late
  BY DEF Late
<1>2. GoodBuild(builds[b], output[builds[b].run], approved)
  BY DEF Inv, BuildInv
<1>. QED  BY <1>1, <1>2, LateFacts DEF Described, Bundles, GoodBuild

LEMMA MetadataStep ==
  ASSUME Inv, NEW b \in Builders, Metadata(b) PROVE AnyBuilderStep(b)
<1>. DEFINE old == builds[b]
            o == [output[old.run] EXCEPT !["metadata"] = Described(old)]
            me == [old EXCEPT !.pc = "manifest"]
<1>1. old.pc = "metadata" /\ old.pc \in Late
  BY DEF Metadata, Late
<1>2. /\ o \in Outputs /\ o.root /\ o.manifest = None /\ o.archive = old.content
      /\ o.metadata = Described(old) /\ o.report = output[old.run].report
  BY <1>1, LateFacts, DescribedFacts DEF Outputs
<1>3. /\ me \in BuildRecords /\ me.run = old.run /\ me.pc = "manifest"
      /\ me.base = old.base /\ me.version = old.version /\ me.content = old.content
  BY <1>1, LateFacts DEF BuildRecords, Stages
<1>4. Described(me) = Described(old)
  BY <1>3 DEF Described
<1>5. GoodBuild(me, o, approved)
  BY <1>1, <1>2, <1>3, <1>4, LateFacts DEF GoodBuild, Early, Late
<1>6. /\ output' = [output EXCEPT ![old.run] = o] /\ builds' = [builds EXCEPT ![b] = me]
      /\ UNCHANGED <<baseline, approved, publishVars, faults>>
  BY <1>1, LateFacts DEF Metadata, Put, Build, Inv, BuildInv
<1>7. GoodFiles(old.run, o, approved)
  BY <1>2, UnfinishedIsGood
<1>8. old.pc # "idle" /\ output[old.run].manifest = None
  BY <1>1, LateFacts
<1>. HIDE DEF me, o
<1>. QED  BY <1>2, <1>3, <1>5, <1>6, <1>7, <1>8, StepWithFiles

LEMMA ManifestStep ==
  ASSUME Inv, NEW b \in Builders, Manifest(b) PROVE AnyBuilderStep(b)
<1>. DEFINE old == builds[b]
            o == [output[old.run] EXCEPT !["manifest"] = Described(old)]
            me == IF Verified(old.run, Described(old)) THEN [old EXCEPT !.pc = "promote"] ELSE NoBuild
<1>1. old.pc = "manifest" /\ old.pc \in Late
  BY DEF Manifest, Late
<1>2. /\ o \in Outputs /\ o.root /\ o.manifest = Described(old) /\ o.archive = old.content
      /\ o.metadata = output[old.run].metadata /\ o.report = output[old.run].report
  BY <1>1, LateFacts, DescribedFacts DEF Outputs
<1>3. me \in BuildRecords /\ (me = NoBuild \/ me.run = old.run)
  BY <1>1, LateFacts, NothingTypes DEF BuildRecords, Stages
<1>4. GoodBuild(me, o, approved)
  <2>1. CASE Verified(old.run, Described(old))
    <3>1. /\ me.pc = "promote" /\ me.run = old.run /\ me.base = old.base
          /\ me.version = old.version /\ me.content = old.content
      BY <1>1, <2>1, LateFacts DEF BuildRecords, Stages
    <3>. QED  BY <1>1, <3>1, LateFacts DEF GoodBuild, Early, Late
  <2>2. CASE ~Verified(old.run, Described(old))
    BY <2>2, NoBuildIsGood
  <2>. QED  BY <2>1, <2>2
<1>5. /\ output' = [output EXCEPT ![old.run] = o] /\ builds' = [builds EXCEPT ![b] = me]
      /\ UNCHANGED <<baseline, approved, publishVars, faults>>
  BY <1>1, LateFacts DEF Manifest, Put, Build, Inv, BuildInv
<1>6. GoodFiles(old.run, o, approved)
  BY <1>1, <1>2, LateFacts, DescribedFacts DEF GoodFiles
<1>7. old.pc # "idle" /\ output[old.run].manifest = None
  BY <1>1, LateFacts
<1>. HIDE DEF me, o
<1>. QED  BY <1>2, <1>3, <1>4, <1>5, <1>6, <1>7, StepWithFiles

LEMMA LastStep ==
  ASSUME Inv, NEW b \in Builders, Promote(b) \/ Abandon(b) PROVE AnyBuilderStep(b)
<1>1. faults \in 0..MaxFaults /\ faults' \in 0..MaxFaults
  BY PipelineAssumption DEF Promote, Abandon, Fault, Inv, PublishInv
<1>2. builds[b].pc # "idle" /\ Build(b, NoBuild) /\ UNCHANGED <<output, baseline, approved, publishVars>>
  BY DEF Promote, Abandon
<1>. QED  BY <1>1, <1>2, EndOfBuild DEF Inv

LEMMA BuilderSteps ==
  ASSUME Inv, Exclusive, NEW b \in Builders,
         (\E r \in Runs, v \in Versions : CheckRun(b, r, v)) \/ BuildStep(b) \/ Abandon(b)
  PROVE  AnyBuilderStep(b)
BY CheckRunStep, TranslateStep, InspectStep, ReportStep, RenderStep, ArchiveStep, MetadataStep,
   ManifestStep, LastStep DEF BuildStep

LEMMA AcceptDebtKeeps ==
  ASSUME BuildInv, NEW carried \in SUBSET Keys, NEW allow \in BOOLEAN, AcceptDebt(carried, allow)
  PROVE  BuildInv'
<1>1. approved \subseteq approved' /\ approved' \subseteq Keys
  BY DEF AcceptDebt, BuildInv
<1>2. baseline' \in SUBSET Keys /\ baseline' \subseteq approved'
  BY DEF AcceptDebt, BuildInv
<1>3. UNCHANGED <<builds, output>>
  BY DEF AcceptDebt, buildVars
<1>4. \A b \in Builders : GoodBuild(builds[b], output[builds[b].run], approved')
  BY <1>1, ApprovalGrows DEF BuildInv
<1>5. \A r \in Runs : GoodFiles(r, output[r], approved')
  BY <1>1, ApprovalGrows DEF BuildInv
<1>. QED  BY <1>1, <1>2, <1>3, <1>4, <1>5 DEF BuildInv

(* A bundle that is done stays done.                                         *)
LEMMA DoneStays ==
  ASSUME BuildInv, NEW b \in Builders, AnyBuilderStep(b), NEW x, Done(x, output)
  PROVE  Done(x, output')
<1>1. PICK me \in BuildRecords, r \in Runs, o \in Outputs : BuilderStep(b, me, r, o)
  BY DEF AnyBuilderStep
<1>2. x.run \in Runs /\ x # None
  BY NoneIsNoRecord DEF Done, Bundles
<1>. QED  BY <1>1, <1>2 DEF Done, BuilderStep, BuildInv
(******************************* publish steps *****************************)
LEMMA NameType ==
  ASSUME NEW me \in PublishRecords, me.target \in Targets, me.bundle \in Bundles
  PROVE  /\ Name(me) \in Kinds \X Slots /\ me.kind \in Kinds
         /\ Name(me) = <<me.kind, Slot(me.target, me.kind, me.bundle.version)>>
         /\ me.bundle.version \in Slots /\ Slot(me.target, me.kind, me.bundle.version) \in Slots
BY DEF Name, Slot, Slots, PublishRecords, Bundles

\* A publish that is at an object.
AtObject(me) == me.pc \in {"head", "put", "verify"}

LEMMA AtObjectFacts ==
  ASSUME Inv, NEW p \in Publishers, AtObject(publishes[p])
  PROVE  /\ publishes[p] \in PublishRecords /\ publishes[p].pc # "idle"
         /\ publishes[p].target \in Targets /\ publishes[p].target \in publishes[p].todo
         /\ publishes[p].bundle \in Bundles /\ Done(publishes[p].bundle, output)
         /\ publishes[p].kind \in {"archive", Pointer, "manifest"}
         /\ Sent(publishes[p]) = Meant(publishes[p].kind, publishes[p].bundle)
         /\ Sent(publishes[p]) \in Bytes /\ Sent(publishes[p]) # None
         /\ Stored(publishes[p]) = objects[publishes[p].target][Name(publishes[p])]
<1>. DEFINE me == publishes[p]
<1>1. me \in PublishRecords /\ GoodPublish(me, output, objects) /\ me.pc # "idle"
  BY DEF Inv, PublishInv, AtObject
<1>2. /\ me.target \in me.todo /\ me.kind \in {"archive", Pointer, "manifest"}
      /\ me.payload[me.kind] = Meant(me.kind, me.bundle) /\ Done(me.bundle, output)
  BY <1>1 DEF GoodPublish, AtObject
<1>3. me.todo \subseteq Targets /\ me.payload \in [Kinds -> Bytes] /\ me.kind \in Kinds
  BY <1>1 DEF PublishRecords
<1>4. me.bundle \in Bundles /\ me.bundle.content \in Contents
  BY <1>2 DEF Done, Bundles
<1>5. Meant(me.kind, me.bundle) # None
  BY <1>4, PipelineAssumption, NoneIsNoRecord DEF Meant
<1>. QED  BY <1>1, <1>2, <1>3, <1>4, <1>5 DEF Sent, Stored

\* Objects may be added, but none is replaced.
Grown(old, new) ==
  \A t \in Targets, n \in Kinds \X Slots : old[t][n] # None => new[t][n] = old[t][n]

\* A step of publisher p, which goes on with me; the other publishers are idle.
PublisherStep(p, me) ==
  /\ me \in PublishRecords /\ publishes' = [publishes EXCEPT ![p] = me]
  /\ \A q \in Publishers \ {p} : publishes[q].pc = "idle"
  /\ objects' \in [Targets -> [Kinds \X Slots -> Bytes]] /\ Grown(objects, objects')
  /\ GoodPublish(me, output, objects') /\ GoodObjects(output, objects')
  /\ receipts' \subseteq Targets \X Bundles /\ GoodReceipts(receipts', output, objects')
  /\ UNCHANGED <<buildVars, baseline, approved>> /\ faults' \in 0..MaxFaults

LEMMA IdleIsGood ==
  ASSUME NEW out, NEW objs PROVE GoodPublish(NoPublish, out, objs)
BY DEF GoodPublish, NoPublish

LEMMA IdleAnywhere ==
  ASSUME NEW me, NEW out, NEW objs, NEW out2, NEW objs2, me.pc = "idle", GoodPublish(me, out, objs)
  PROVE  GoodPublish(me, out2, objs2)
BY DEF GoodPublish

LEMMA PublisherStepKeeps ==
  ASSUME Inv, NEW p \in Publishers, NEW me, PublisherStep(p, me) PROVE Inv'
<1>. USE DEF PublisherStep
<1>1. BuildInv'
  BY DEF Inv, BuildInv, buildVars
<1>2. \A q \in Publishers : publishes'[q] = IF q = p THEN me ELSE publishes[q]
  BY DEF Inv, PublishInv
<1>3. publishes' \in [Publishers -> PublishRecords] /\ output' = output
  BY DEF Inv, PublishInv, buildVars
<1>4. ASSUME NEW q \in Publishers PROVE GoodPublish(publishes'[q], output', objects')
  <2>1. CASE q = p
    BY <1>2, <1>3, <2>1
  <2>2. CASE q # p
    <3>1. publishes'[q] = publishes[q] /\ publishes[q].pc = "idle" /\ GoodPublish(publishes[q], output, objects)
      BY <1>2, <2>2 DEF Inv, PublishInv
    <3>. QED  BY <3>1, IdleAnywhere
  <2>. QED  BY <2>1, <2>2
<1>5. \A q, q2 \in Publishers : publishes'[q].pc # "idle" /\ publishes'[q2].pc # "idle" => q = q2
  BY <1>2
<1>6. GoodObjects(output', objects') /\ GoodReceipts(receipts', output', objects')
  BY <1>3
<1>7. /\ objects' \in [Targets -> [Kinds \X Slots -> Bytes]]
      /\ receipts' \subseteq Targets \X Bundles /\ faults' \in 0..MaxFaults
  OBVIOUS
<1>8. PublishInv'
  BY <1>3, <1>4, <1>5, <1>6, <1>7 DEF PublishInv
<1>. QED  BY <1>1, <1>8 DEF Inv

LEMMA GrownRefl == Grown(objects, objects)
BY DEF Grown

\* A step that only changes what publisher p is at.
LEMMA StepWithoutStore ==
  ASSUME Inv, NEW p \in Publishers, NEW me \in PublishRecords, Publisher(p, me),
         \A q \in Publishers \ {p} : publishes[q].pc = "idle",
         GoodPublish(me, output, objects), faults' \in 0..MaxFaults,
         UNCHANGED <<buildVars, baseline, approved, objects, receipts>>
  PROVE  PublisherStep(p, me)
BY GrownRefl DEF PublisherStep, Publisher, Inv, PublishInv

LEMMA OthersIdle ==
  ASSUME Inv, NEW p \in Publishers, publishes[p].pc # "idle"
  PROVE  \A q \in Publishers \ {p} : publishes[q].pc = "idle"
BY DEF Inv, PublishInv

\* Every step of a publisher is a PublisherStep.
AnyPublisherStep(p) == \E me \in PublishRecords : PublisherStep(p, me)

LEMMA VerifiedIsDone ==
  ASSUME BuildInv, NEW r \in Runs
  PROVE  /\ Verified(r, output[r].manifest) <=> output[r].manifest # None
         /\ output[r].manifest # None => Done(output[r].manifest, output) /\ output[r].manifest.run = r
<1>1. output[r].manifest \in Bundles \cup {None} /\ GoodFiles(r, output[r], approved)
  BY DEF BuildInv, Outputs
<1>. QED  BY <1>1, NoneIsNoRecord DEF Verified, GoodFiles, Done

LEMMA DoneIsVerified ==
  ASSUME BuildInv, NEW b, Done(b, output)
  PROVE  /\ b.run \in Runs /\ output[b.run].manifest = b /\ Verified(b.run, b)
         /\ output[b.run].archive = b.content /\ output[b.run] \in Outputs
         /\ Compat => output[b.run].metadata = b
         /\ Clean(output[b.run].report, approved)
<1>1. b \in Bundles /\ b.run \in Runs /\ b # None
  BY NoneIsNoRecord DEF Done, Bundles
<1>2. GoodFiles(b.run, output[b.run], approved) /\ output[b.run] \in Outputs /\ output[b.run].manifest = b
  BY <1>1 DEF BuildInv, Done
<1>. QED  BY <1>1, <1>2 DEF GoodFiles, Verified

LEMMA LoadStep ==
  ASSUME Inv, Exclusive, NEW p \in Publishers, NEW r \in Runs, NEW todo \in SUBSET Targets, Load(p, r, todo)
  PROVE  AnyPublisherStep(p)
<1>. DEFINE me == [NoPublish EXCEPT !.pc = "open", !.todo = todo, !.bundle = output[r].manifest]
<1>1. Done(output[r].manifest, output)
  BY VerifiedIsDone DEF Load, Inv, Verified
<1>2. me \in PublishRecords /\ me.pc = "open" /\ me.bundle = output[r].manifest
  BY <1>1, NothingTypes DEF PublishRecords, NoPublish, Done
<1>3. GoodPublish(me, output, objects)
  BY <1>1, <1>2 DEF GoodPublish
<1>4. \A q \in Publishers \ {p} : publishes[q].pc = "idle"
  BY DEF Load, Exclusive
<1>5. Publisher(p, me) /\ UNCHANGED <<buildVars, baseline, approved, objects, receipts>>
  BY DEF Load
<1>6. faults' \in 0..MaxFaults
  BY DEF Load, Inv, PublishInv
<1>. HIDE DEF me
<1>. QED  BY <1>2, <1>3, <1>4, <1>5, <1>6, StepWithoutStore DEF AnyPublisherStep

\* What a publish of bundle b reads from the files o.
LEMMA PayloadFacts ==
  ASSUME NEW o \in Outputs, NEW b, o.archive = b.content, o.manifest = b, Compat => o.metadata = b
  PROVE  LET payload == [k \in Kinds |-> o[k]] IN
         /\ payload \in [Kinds -> Bytes]
         /\ \A k \in {"archive", Pointer, "manifest"} : payload[k] = Meant(k, b)
<1>. DEFINE payload == [k \in Kinds |-> o[k]]
<1>1. /\ o.archive = o["archive"] /\ o.metadata = o["metadata"] /\ o.manifest = o["manifest"]
      /\ o.archive \in Bytes /\ o.metadata \in Bytes /\ o.manifest \in Bytes
  BY DEF Outputs, Bytes
<1>2. /\ payload["archive"] = o.archive /\ payload["manifest"] = o.manifest
      /\ payload["metadata"] = o.metadata
  BY <1>1 DEF Kinds
<1>3. \A k \in Kinds : payload[k] \in Bytes
  BY <1>1, <1>2 DEF Kinds
<1>4. payload \in [Kinds -> Bytes]
  BY <1>3
<1>. HIDE DEF payload
<1>5. /\ Meant("archive", b) = b.content /\ Meant("manifest", b) = b /\ Meant("metadata", b) = b
  BY DEF Meant
<1>6. Pointer = "manifest" \/ (Compat /\ Pointer = "metadata")
  BY DEF Pointer
<1>7. \A k \in {"archive", Pointer, "manifest"} : payload[k] = Meant(k, b)
  BY <1>2, <1>5, <1>6
<1>. QED  BY <1>4, <1>7 DEF payload

LEMMA OpenStep ==
  ASSUME Inv, NEW p \in Publishers, NEW t \in Targets, Open(p, t)
  PROVE  AnyPublisherStep(p) /\ publishes'[p].todo = publishes[p].todo
<1>. DEFINE old == publishes[p]
            r == old.bundle.run
            payload == [k \in Kinds |-> output[r][k]]
            me == [old EXCEPT !.pc = "head", !.target = t, !.kind = "archive", !.payload = payload]
<1>1. old \in PublishRecords /\ old.pc = "open" /\ t \in old.todo /\ Done(old.bundle, output)
  BY DEF Open, Inv, PublishInv, GoodPublish
<1>2. /\ r \in Runs /\ output[r] \in Outputs /\ output[r].archive = old.bundle.content
      /\ output[r].manifest = old.bundle
      /\ Compat => output[r].metadata = old.bundle
      /\ Verified(r, old.bundle)
  BY <1>1, DoneIsVerified DEF Inv
<1>3. payload \in [Kinds -> Bytes] /\ \A k \in {"archive", Pointer, "manifest"} : payload[k] = Meant(k, old.bundle)
  BY <1>2, PayloadFacts
<1>. HIDE DEF payload
<1>5. /\ me \in PublishRecords /\ me.pc = "head" /\ me.target = t /\ me.kind = "archive"
      /\ me.payload = payload /\ me.bundle = old.bundle /\ me.todo = old.todo
  BY <1>1, <1>3 DEF PublishRecords, Kinds
<1>7. GoodPublish(me, output, objects)
  BY <1>1, <1>3, <1>5 DEF GoodPublish
<1>8. Publisher(p, me) /\ UNCHANGED <<buildVars, baseline, approved, objects, receipts, faults>>
  BY <1>2 DEF Open, payload
<1>. HIDE DEF me
<1>9. publishes'[p] = me
  BY <1>8 DEF Publisher, Inv, PublishInv
<1>10. PublisherStep(p, me)
  BY <1>1, <1>5, <1>7, <1>8, OthersIdle, StepWithoutStore DEF Inv, PublishInv
<1>. QED  BY <1>5, <1>9, <1>10 DEF AnyPublisherStep

\* A command that ends, or is killed.
LEMMA EndOfPublish ==
  ASSUME Inv, NEW p \in Publishers, Close(p) \/ KillPublish(p) PROVE AnyPublisherStep(p)
<1>1. /\ publishes[p].pc # "idle" /\ Publisher(p, NoPublish)
      /\ UNCHANGED <<buildVars, baseline, approved, objects, receipts>>
  BY DEF Close, KillPublish
<1>2. faults' \in 0..MaxFaults
  BY PipelineAssumption DEF Close, KillPublish, Fault, Inv, PublishInv
<1>3. PublisherStep(p, NoPublish)
  BY <1>1, <1>2, OthersIdle, IdleIsGood, NothingTypes, StepWithoutStore
<1>. QED  BY <1>3, NothingTypes DEF AnyPublisherStep

\* A command that goes on to the next target.
GoesOn(me) == [me EXCEPT !.pc = "open", !.target = None, !.todo = @ \ {me.target}]

LEMMA NextTarget ==
  ASSUME NEW me \in PublishRecords, NEW out, NEW objs, Done(me.bundle, out)
  PROVE  /\ GoesOn(me) \in PublishRecords /\ GoodPublish(GoesOn(me), out, objs)
         /\ GoesOn(me).todo = me.todo \ {me.target} /\ GoesOn(me).bundle = me.bundle
<1>1. /\ GoesOn(me) \in PublishRecords /\ GoesOn(me).pc = "open"
      /\ GoesOn(me).todo = me.todo \ {me.target} /\ GoesOn(me).bundle = me.bundle
  BY DEF GoesOn, PublishRecords
<1>. QED  BY <1>1 DEF GoodPublish
\* The pointer is metadata.json or the manifest.
LEMMA PointerFacts ==
  /\ Pointer \in {"metadata", "manifest"} /\ Pointer # "archive"
  /\ Compat <=> Pointer = "metadata"
  /\ \A t : Last(t) \in {Pointer, "manifest"} /\ (t \in Local => Last(t) = "manifest")
BY PipelineAssumption DEF Pointer, Last

LEMMA PublishTypes ==
  ASSUME Inv
  PROVE  /\ objects \in [Targets -> [Kinds \X Slots -> Bytes]]
         /\ GoodObjects(output, objects) /\ GoodReceipts(receipts, output, objects)
         /\ receipts \subseteq Targets \X Bundles /\ faults \in 0..MaxFaults
BY DEF Inv, PublishInv

LEMMA HeadStep ==
  ASSUME Inv, NEW p \in Publishers, Head(p)
  PROVE  AnyPublisherStep(p)
<1>. DEFINE old == publishes[p]
<1>1. old.pc = "head" /\ AtObject(old)
  BY DEF Head, AtObject
<1>2. old \in PublishRecords /\ GoodPublish(old, output, objects)
  BY DEF Inv, PublishInv
<1>3. \A q \in Publishers \ {p} : publishes[q].pc = "idle"
  BY <1>1, AtObjectFacts, OthersIdle
<1>4. UNCHANGED <<buildVars, baseline, approved, objects, receipts>> /\ faults' \in 0..MaxFaults
  BY PublishTypes DEF Head
<1>5. ASSUME NEW pc \in {"put", "verify"}, Publisher(p, [old EXCEPT !.pc = pc]),
             pc = "put" => Stored(old) = None, pc = "verify" => Stored(old) = Sent(old)
      PROVE  AnyPublisherStep(p)
  <2>. DEFINE me == [old EXCEPT !.pc = pc]
  <2>1. /\ me \in PublishRecords /\ me.pc = pc /\ me.bundle = old.bundle /\ me.todo = old.todo
        /\ me.target = old.target /\ me.kind = old.kind /\ me.payload = old.payload
    BY <1>2 DEF PublishRecords
  <2>. HIDE DEF me
  <2>2. Name(me) = Name(old) /\ Sent(me) = Sent(old)
    BY <2>1 DEF Name, Sent
  <2>3. GoodPublish(me, output, objects)
    BY <1>1, <1>2, <1>5, <2>1, <2>2 DEF GoodPublish, Stored
  <2>4. PublisherStep(p, me)
    BY <1>3, <1>4, <1>5, <2>1, <2>3, StepWithoutStore DEF me
  <2>. QED  BY <2>1, <2>4 DEF AnyPublisherStep
<1>6. ASSUME TargetOver(p) PROVE AnyPublisherStep(p)
  <2>1. GoesOn(old) \in PublishRecords /\ GoodPublish(GoesOn(old), output, objects)
    BY <1>1, AtObjectFacts, NextTarget
  <2>2. Publisher(p, GoesOn(old))
    BY <1>6 DEF TargetOver, GoesOn
  <2>. QED  BY <1>3, <1>4, <2>1, <2>2, StepWithoutStore DEF AnyPublisherStep
<1>. QED  BY <1>5, <1>6 DEF Head

\* A target that is over, for whatever reason, with the receipts there were.
LEMMA TargetFailedStep ==
  ASSUME Inv, NEW p \in Publishers, TargetFailed(p)
  PROVE  AnyPublisherStep(p)
<1>. DEFINE old == publishes[p]
<1>1. AtObject(old)
  BY DEF TargetFailed, AtObject
<1>2. GoesOn(old) \in PublishRecords /\ GoodPublish(GoesOn(old), output, objects)
  BY <1>1, AtObjectFacts, NextTarget
<1>3. Publisher(p, GoesOn(old)) /\ UNCHANGED <<buildVars, baseline, approved, objects, receipts>>
  BY DEF TargetFailed, TargetOver, GoesOn
<1>4. faults' \in 0..MaxFaults
  BY PublishTypes, PipelineAssumption DEF TargetFailed, Fault
<1>5. \A q \in Publishers \ {p} : publishes[q].pc = "idle"
  BY <1>1, AtObjectFacts, OthersIdle
<1>. QED  BY <1>2, <1>3, <1>4, <1>5, StepWithoutStore DEF AnyPublisherStep

------------------------------------------------------------------------------
(* An upload: the object was absent, and is now what the command sends.      *)

LEMMA StoreFacts ==
  ASSUME Inv, NEW p \in Publishers, publishes[p].pc = "put", Store(publishes[p])
  PROVE  LET me == publishes[p] IN
         /\ objects' \in [Targets -> [Kinds \X Slots -> Bytes]]
         /\ \A t \in Targets, n \in Kinds \X Slots :
              objects'[t][n] = IF t = me.target /\ n = Name(me) THEN Sent(me) ELSE objects[t][n]
         /\ objects[me.target][Name(me)] = None
         /\ Grown(objects, objects')
<1>. DEFINE me == publishes[p]
<1>1. AtObject(me)
  BY DEF AtObject
<1>2. /\ me \in PublishRecords /\ me.target \in Targets /\ me.bundle \in Bundles
      /\ Sent(me) \in Bytes
  BY <1>1, AtObjectFacts
<1>3. Name(me) \in Kinds \X Slots
  BY <1>2, NameType
<1>4. objects[me.target][Name(me)] = None
  BY DEF Inv, PublishInv, GoodPublish
<1>5. objects' = [objects EXCEPT ![me.target][Name(me)] = Sent(me)]
  BY DEF Store
<1>. HIDE DEF me
<1>6. objects' \in [Targets -> [Kinds \X Slots -> Bytes]]
  BY <1>2, <1>3, <1>5, PublishTypes
<1>7. \A t \in Targets, n \in Kinds \X Slots :
        objects'[t][n] = IF t = me.target /\ n = Name(me) THEN Sent(me) ELSE objects[t][n]
  BY <1>2, <1>3, <1>5, PublishTypes
<1>8. Grown(objects, objects')
  BY <1>4, <1>7 DEF Grown
<1>. QED  BY <1>4, <1>6, <1>7, <1>8 DEF me

\* Names of objects.
LEMMA Names ==
  /\ \A k \in Kinds, s \in Slots : <<k, s>> \in Kinds \X Slots
  /\ \A v \in Versions : v \in Slots
  /\ \A t, v : Slot(t, "archive", v) = v
  /\ \A t, k, v : v \in Versions => Slot(t, k, v) \in Slots
  /\ "archive" \in Kinds /\ "metadata" \in Kinds /\ "manifest" \in Kinds /\ Pointer \in Kinds
BY PointerFacts DEF Slots, Slot, Kinds

LEMMA StoreKeepsReceipts ==
  ASSUME Inv, NEW objs, Grown(objects, objs) PROVE GoodReceipts(receipts, output, objs)
<1>. SUFFICES ASSUME NEW x \in receipts
              PROVE  /\ Done(x[2], output)
                     /\ objs[x[1]][<<"archive", x[2].version>>] = x[2].content
                     /\ objs[x[1]][<<Pointer, Slot(x[1], Pointer, x[2].version)>>] = x[2]
  BY DEF GoodReceipts
<1>1. /\ Done(x[2], output)
      /\ objects[x[1]][<<"archive", x[2].version>>] = x[2].content
      /\ objects[x[1]][<<Pointer, Slot(x[1], Pointer, x[2].version)>>] = x[2]
  BY PublishTypes DEF GoodReceipts
<1>2. x[1] \in Targets /\ x[2] \in Bundles
  BY PublishTypes
<1>3. x[2].version \in Versions /\ x[2].content \in Contents /\ x[2] # None /\ x[2].content # None
  BY <1>2, NoneIsNoRecord, PipelineAssumption DEF Bundles
<1>4. /\ <<"archive", x[2].version>> \in Kinds \X Slots
      /\ <<Pointer, Slot(x[1], Pointer, x[2].version)>> \in Kinds \X Slots
  BY <1>3, Names
<1>. QED  BY <1>1, <1>2, <1>3, <1>4 DEF Grown

LEMMA StoreKeepsObjects ==
  ASSUME Inv, NEW p \in Publishers, publishes[p].pc = "put", Store(publishes[p])
  PROVE  GoodObjects(output, objects')
<1>. DEFINE me == publishes[p]
<1>1. AtObject(me)
  BY DEF AtObject
<1>2. /\ me.target \in Targets /\ me.bundle \in Bundles /\ Done(me.bundle, output)
      /\ me.kind \in {"archive", Pointer, "manifest"} /\ Sent(me) = Meant(me.kind, me.bundle)
      /\ me \in PublishRecords
  BY <1>1, AtObjectFacts
<1>3. GoodPublish(me, output, objects) /\ GoodObjects(output, objects)
  BY PublishTypes DEF Inv, PublishInv
<1>4. \A t \in Targets, n \in Kinds \X Slots :
        objects'[t][n] = IF t = me.target /\ n = Name(me) THEN Sent(me) ELSE objects[t][n]
  BY StoreFacts
<1>5. Name(me) = <<me.kind, Slot(me.target, me.kind, me.bundle.version)>>
  BY DEF Name
<1>6. me.kind # "archive" =>
        /\ Sent(me) = me.bundle
        /\ objects[me.target][<<"archive", me.bundle.version>>] = me.bundle.content
  BY <1>1, <1>2, <1>3 DEF Meant, GoodPublish, AtObject
<1>7. Grown(objects, objects')
  BY StoreFacts
<1>. HIDE DEF me
<1>8. ASSUME NEW t \in Targets, NEW s \in Slots, NEW k \in {"metadata", "manifest"},
             objects'[t][<<k, s>>] # None
      PROVE  Done(objects'[t][<<k, s>>], output)
  <2>1. <<k, s>> \in Kinds \X Slots
    BY Names
  <2>2. CASE t = me.target /\ <<k, s>> = Name(me)
    <3>1. me.kind # "archive"
      BY <1>5, <2>2
    <3>. QED  BY <1>2, <1>4, <1>6, <2>1, <2>2, <3>1
  <2>3. CASE ~(t = me.target /\ <<k, s>> = Name(me))
    <3>1. objects'[t][<<k, s>>] = objects[t][<<k, s>>]
      BY <1>4, <2>1, <2>3
    <3>. QED  BY <1>3, <1>8, <3>1 DEF GoodObjects
  <2>. QED  BY <2>2, <2>3
<1>9. ASSUME NEW t \in Targets, NEW s \in Slots, objects'[t][<<Pointer, s>>] # None
      PROVE  objects'[t][<<"archive", objects'[t][<<Pointer, s>>].version>>] = objects'[t][<<Pointer, s>>].content
  <2>. DEFINE b == objects'[t][<<Pointer, s>>]
  <2>1. <<Pointer, s>> \in Kinds \X Slots
    BY Names
  <2>2. Done(b, output)
    BY <1>8, <1>9, PointerFacts
  <2>3. /\ b.version \in Versions /\ b.content # None
        /\ <<"archive", b.version>> \in Kinds \X Slots
    BY <2>2, Names, PipelineAssumption DEF Done, Bundles
  <2>4. objects[t][<<"archive", b.version>>] = b.content
    <3>1. CASE t = me.target /\ <<Pointer, s>> = Name(me)
      <4>1. me.kind # "archive"
        BY <1>5, <3>1, PointerFacts
      <4>2. b = me.bundle
        BY <1>4, <1>6, <2>1, <3>1, <4>1
      <4>. QED  BY <1>6, <3>1, <4>1, <4>2
    <3>2. CASE ~(t = me.target /\ <<Pointer, s>> = Name(me))
      <4>1. b = objects[t][<<Pointer, s>>]
        BY <1>4, <2>1, <3>2
      <4>. QED  BY <1>3, <1>9, <4>1 DEF GoodObjects
    <3>. QED  BY <3>1, <3>2
  <2>. QED  BY <1>7, <2>3, <2>4 DEF Grown
<1>. QED  BY <1>8, <1>9 DEF GoodObjects
LEMMA UploadStep ==
  ASSUME Inv, NEW p \in Publishers, Upload(p) \/ UploadLost(p)
  PROVE  AnyPublisherStep(p)
<1>. DEFINE old == publishes[p]
<1>1. old.pc = "put" /\ AtObject(old) /\ Store(old)
  BY DEF Upload, UploadLost, AtObject
<1>2. /\ objects' \in [Targets -> [Kinds \X Slots -> Bytes]] /\ Grown(objects, objects')
      /\ GoodObjects(output, objects') /\ GoodReceipts(receipts, output, objects')
  BY <1>1, StoreFacts, StoreKeepsObjects, StoreKeepsReceipts
<1>3. \A q \in Publishers \ {p} : publishes[q].pc = "idle"
  BY <1>1, AtObjectFacts, OthersIdle
<1>4. UNCHANGED <<buildVars, baseline, approved, receipts>> /\ faults' \in 0..MaxFaults
  BY PublishTypes, PipelineAssumption DEF Upload, UploadLost, Fault
<1>5. ASSUME NEW me \in PublishRecords, Publisher(p, me), GoodPublish(me, output, objects')
      PROVE  AnyPublisherStep(p)
  BY <1>2, <1>3, <1>4, <1>5, PublishTypes DEF PublisherStep, AnyPublisherStep, Publisher
<1>6. CASE Upload(p)
  <2>. DEFINE me == [old EXCEPT !.pc = "verify"]
  <2>1. /\ old \in PublishRecords /\ GoodPublish(old, output, objects) /\ old.bundle \in Bundles
        /\ old.target \in Targets
    BY <1>1, AtObjectFacts DEF Inv, PublishInv
  <2>2. /\ me \in PublishRecords /\ me.pc = "verify" /\ me.bundle = old.bundle /\ me.todo = old.todo
        /\ me.target = old.target /\ me.kind = old.kind /\ me.payload = old.payload
    BY <2>1 DEF PublishRecords
  <2>3. Publisher(p, me)
    BY <1>6 DEF Upload
  <2>. HIDE DEF me
  <2>4. Name(me) = Name(old) /\ Sent(me) = Sent(old)
    BY <2>2 DEF Name, Sent
  <2>5. objects'[old.target][Name(old)] = Sent(old)
    BY <1>1, <2>1, StoreFacts, NameType
  <2>6. /\ old.bundle.version \in Versions /\ old.bundle.content # None /\ old.bundle # None
        /\ <<"archive", old.bundle.version>> \in Kinds \X Slots
        /\ <<Pointer, Slot(old.target, Pointer, old.bundle.version)>> \in Kinds \X Slots
    BY <2>1, Names, NoneIsNoRecord, PipelineAssumption DEF Bundles
  <2>7. /\ old.kind # "archive" =>
             objects'[old.target][<<"archive", old.bundle.version>>] = old.bundle.content
        /\ old.kind = "manifest" /\ Compat =>
             objects'[old.target][<<Pointer, Slot(old.target, Pointer, old.bundle.version)>>] = old.bundle
    BY <1>1, <1>2, <2>1, <2>6 DEF GoodPublish, Grown
  <2>8. GoodPublish(me, output, objects')
    BY <1>1, <2>1, <2>2, <2>4, <2>5, <2>7 DEF GoodPublish
  <2>. QED  BY <1>5, <2>2, <2>3, <2>8
<1>7. CASE UploadLost(p)
  <2>1. GoesOn(old) \in PublishRecords /\ GoodPublish(GoesOn(old), output, objects')
    BY <1>1, AtObjectFacts, NextTarget
  <2>2. Publisher(p, GoesOn(old))
    BY <1>7 DEF UploadLost, TargetOver, GoesOn
  <2>. QED  BY <1>5, <2>1, <2>2
<1>. QED  BY <1>6, <1>7

\* The last object of a target holds: so do its archive and its pointer.
LEMMA LastObject ==
  ASSUME Inv, NEW p \in Publishers, publishes[p].pc = "verify", publishes[p].kind = Last(publishes[p].target)
  PROVE  LET me == publishes[p] IN
         /\ objects[me.target][<<"archive", me.bundle.version>>] = me.bundle.content
         /\ objects[me.target][<<Pointer, Slot(me.target, Pointer, me.bundle.version)>>] = me.bundle
<1>. DEFINE me == publishes[p]
<1>1. AtObject(me) /\ GoodPublish(me, output, objects)
  BY DEF AtObject, Inv, PublishInv
<1>2. /\ objects[me.target][Name(me)] = Sent(me) /\ Sent(me) = Meant(me.kind, me.bundle)
      /\ Name(me) = <<me.kind, Slot(me.target, me.kind, me.bundle.version)>>
  BY <1>1, AtObjectFacts DEF GoodPublish, Name
<1>3. me.kind \in {Pointer, "manifest"} /\ me.kind # "archive"
  BY PointerFacts
<1>4. Sent(me) = me.bundle
  BY <1>2, <1>3 DEF Meant
<1>5. objects[me.target][<<"archive", me.bundle.version>>] = me.bundle.content
  BY <1>1, <1>3 DEF GoodPublish, AtObject
<1>6. CASE me.kind = Pointer
  BY <1>2, <1>4, <1>5, <1>6
<1>7. CASE me.kind # Pointer
  <2>1. me.kind = "manifest" /\ Compat
    BY <1>3, <1>7 DEF Pointer
  <2>. QED  BY <1>1, <1>5, <2>1 DEF GoodPublish, AtObject
<1>. QED  BY <1>6, <1>7

LEMMA CompareStep ==
  ASSUME Inv, NEW p \in Publishers, Compare(p)
  PROVE  AnyPublisherStep(p)
<1>. DEFINE old == publishes[p]
<1>1. old.pc = "verify" /\ AtObject(old)
  BY DEF Compare, AtObject
<1>2. /\ old \in PublishRecords /\ GoodPublish(old, output, objects)
      /\ objects[old.target][Name(old)] = Sent(old)
  BY <1>1 DEF Inv, PublishInv, GoodPublish
<1>3. \A q \in Publishers \ {p} : publishes[q].pc = "idle"
  BY <1>1, AtObjectFacts, OthersIdle
<1>4. UNCHANGED <<buildVars, baseline, approved, objects, faults>>
  BY DEF Compare
<1>5. GoesOn(old) \in PublishRecords /\ GoodPublish(GoesOn(old), output, objects)
  BY <1>1, AtObjectFacts, NextTarget
<1>6. CASE TargetOver(p) /\ UNCHANGED receipts
  <2>1. Publisher(p, GoesOn(old))
    BY <1>6 DEF TargetOver, GoesOn
  <2>. QED  BY <1>3, <1>4, <1>5, <1>6, <2>1, PublishTypes, StepWithoutStore DEF AnyPublisherStep
<1>7. CASE /\ old.kind # Last(old.target)
           /\ Publisher(p, [old EXCEPT !.pc = "head", !.kind = After(old.kind)])
           /\ UNCHANGED receipts
  <2>. DEFINE me == [old EXCEPT !.pc = "head", !.kind = After(old.kind)]
  <2>1. After(old.kind) \in {"archive", Pointer, "manifest"} /\ After(old.kind) \in Kinds
        /\ After(old.kind) # "archive"
    BY PointerFacts DEF After, Kinds
  <2>2. /\ me \in PublishRecords /\ me.pc = "head" /\ me.bundle = old.bundle /\ me.todo = old.todo
        /\ me.target = old.target /\ me.kind = After(old.kind) /\ me.payload = old.payload
    BY <1>2, <2>1 DEF PublishRecords
  <2>. HIDE DEF me
  <2>3. /\ Sent(old) = Meant(old.kind, old.bundle) /\ old.kind \in {"archive", Pointer, "manifest"}
        /\ Name(old) = <<old.kind, Slot(old.target, old.kind, old.bundle.version)>>
        /\ Done(old.bundle, output)
    BY <1>1, AtObjectFacts DEF Name
  <2>4. objects[old.target][<<"archive", old.bundle.version>>] = old.bundle.content
    <3>1. CASE old.kind = "archive"
      BY <1>2, <2>3, <3>1 DEF Meant, Slot
    <3>2. CASE old.kind # "archive"
      BY <1>1, <1>2, <3>2 DEF GoodPublish, AtObject
    <3>. QED  BY <3>1, <3>2
  <2>5. ASSUME Compat, me.kind = "manifest"
        PROVE  /\ me.target \in Local
               /\ objects[old.target][<<Pointer, Slot(old.target, Pointer, old.bundle.version)>>] = old.bundle
    <3>1. Pointer = "metadata" /\ old.kind # "archive"
      BY <2>2, <2>5 DEF After, Pointer
    <3>2. old.kind = "metadata"
      <4>1. CASE old.kind = "manifest"
        <5>1. old.target \in Local
          BY <1>1, <1>2, <2>5, <4>1 DEF GoodPublish, AtObject
        <5>. QED  BY <1>7, <4>1, <5>1 DEF Last
      <4>. QED  BY <2>3, <3>1, <4>1
    <3>3. old.target \in Local
      BY <1>7, <3>1, <3>2 DEF Last
    <3>4. objects[old.target][<<Pointer, Slot(old.target, Pointer, old.bundle.version)>>] = old.bundle
      BY <1>2, <2>3, <3>1, <3>2 DEF Meant
    <3>. QED  BY <2>2, <3>3, <3>4
  <2>6. /\ old.target \in old.todo
        /\ \A k \in {"archive", Pointer, "manifest"} : old.payload[k] = Meant(k, old.bundle)
    BY <1>1, <1>2 DEF GoodPublish, AtObject
  <2>7. GoodPublish(me, output, objects)
    BY <2>1, <2>2, <2>3, <2>4, <2>5, <2>6 DEF GoodPublish
  <2>8. Publisher(p, me)
    BY <1>7 DEF me
  <2>. QED  BY <1>3, <1>4, <1>7, <2>2, <2>7, <2>8, PublishTypes, StepWithoutStore DEF AnyPublisherStep
<1>8. CASE /\ old.kind = Last(old.target) /\ TargetOver(p)
           /\ receipts' = receipts \cup {<<old.target, old.bundle>>}
  <2>1. Publisher(p, GoesOn(old))
    BY <1>8 DEF TargetOver, GoesOn
  <2>2. old.target \in Targets /\ old.bundle \in Bundles /\ Done(old.bundle, output)
    BY <1>1, AtObjectFacts
  <2>3. /\ objects[old.target][<<"archive", old.bundle.version>>] = old.bundle.content
        /\ objects[old.target][<<Pointer, Slot(old.target, Pointer, old.bundle.version)>>] = old.bundle
    BY <1>1, <1>8, LastObject
  <2>4. receipts' \subseteq Targets \X Bundles
    BY <1>8, <2>2, PublishTypes
  <2>5. GoodReceipts(receipts', output, objects)
    <3>1. GoodReceipts(receipts, output, objects)
      BY PublishTypes
    <3>2. ASSUME NEW x \in receipts', x \notin receipts PROVE x[1] = old.target /\ x[2] = old.bundle
      BY <1>8, <3>2
    <3>3. ASSUME NEW x \in receipts'
          PROVE  /\ Done(x[2], output)
                 /\ objects[x[1]][<<"archive", x[2].version>>] = x[2].content
                 /\ objects[x[1]][<<Pointer, Slot(x[1], Pointer, x[2].version)>>] = x[2]
      <4>1. CASE x \in receipts
        BY <3>1, <4>1 DEF GoodReceipts
      <4>2. CASE x \notin receipts
        BY <2>2, <2>3, <3>2, <4>2
      <4>. QED  BY <4>1, <4>2
    <3>. QED  BY <3>3 DEF GoodReceipts
  <2>6. objects' = objects /\ GoodObjects(output, objects) /\ faults' \in 0..MaxFaults
        /\ objects \in [Targets -> [Kinds \X Slots -> Bytes]]
    BY <1>4, PublishTypes
  <2>7. PublisherStep(p, GoesOn(old))
    BY <1>3, <1>4, <1>5, <2>1, <2>4, <2>5, <2>6, GrownRefl DEF PublisherStep, Publisher
  <2>. QED  BY <1>5, <2>7 DEF AnyPublisherStep
<1>. QED  BY <1>6, <1>7, <1>8 DEF Compare

LEMMA PublisherSteps ==
  ASSUME Inv, Exclusive, NEW p \in Publishers,
         \/ \E r \in Runs, todo \in {Targets} \cup {{t} : t \in Local} : Load(p, r, todo)
         \/ PublishStep(p) \/ UploadLost(p) \/ TargetFailed(p) \/ KillPublish(p)
  PROVE  AnyPublisherStep(p)
<1>1. \A todo \in {Targets} \cup {{t} : t \in Local} : todo \in SUBSET Targets
  BY PipelineAssumption
<1>. QED  BY <1>1, LoadStep, OpenStep, EndOfPublish, HeadStep, UploadStep, CompareStep, TargetFailedStep
          DEF PublishStep

------------------------------------------------------------------------------
(* The invariant.                                                            *)

\* The steps of the specification are of three kinds.
LEMMA KindsOfStep ==
  ASSUME Inv, Exclusive, Next
  PROVE  \/ \E b \in Builders : AnyBuilderStep(b)
         \/ \E carried \in SUBSET Keys, allow \in BOOLEAN : AcceptDebt(carried, allow)
         \/ \E p \in Publishers : AnyPublisherStep(p)
BY BuilderSteps, PublisherSteps DEF Next

LEMMA BuilderKeepsPublish ==
  ASSUME Inv, NEW b \in Builders, AnyBuilderStep(b) PROVE PublishInv'
<1>1. \A x : Done(x, output) => Done(x, output')
  BY DoneStays DEF Inv
<1>2. publishes' = publishes /\ objects' = objects /\ receipts' = receipts /\ faults' \in 0..MaxFaults
  BY DEF AnyBuilderStep, BuilderStep, publishVars
<1>3. \A p \in Publishers : GoodPublish(publishes[p], output', objects)
  BY <1>1 DEF Inv, PublishInv, GoodPublish
<1>4. GoodObjects(output', objects) /\ GoodReceipts(receipts, output', objects)
  BY <1>1 DEF Inv, PublishInv, GoodObjects, GoodReceipts
<1>. QED  BY <1>2, <1>3, <1>4 DEF Inv, PublishInv

LEMMA InvInit == Init => Inv
<1>. SUFFICES ASSUME Init PROVE Inv
  OBVIOUS
<1>1. \A b \in Builders : builds[b] = NoBuild
  BY DEF Init
<1>2. \A r \in Runs : output[r] = NoOutput
  BY DEF Init
<1>3. BuildInv
  <2>1. builds \in [Builders -> BuildRecords] /\ output \in [Runs -> Outputs]
    BY NothingTypes DEF Init
  <2>2. \A b \in Builders : GoodBuild(builds[b], output[builds[b].run], approved)
    BY <1>1, NoBuildIsGood
  <2>3. \A r \in Runs : GoodFiles(r, output[r], approved)
    BY <1>2, NothingTypes DEF GoodFiles
  <2>4. \A b \in Builders : builds[b].run = None
    BY <1>1, NothingTypes
  <2>. QED  BY <2>1, <2>2, <2>3, <2>4 DEF Init, BuildInv
<1>4. \A p \in Publishers : publishes[p] = NoPublish
  BY DEF Init
<1>5. \A t \in Targets, n \in Kinds \X Slots : objects[t][n] = None
  BY DEF Init
<1>6. PublishInv
  <2>1. publishes \in [Publishers -> PublishRecords]
    BY NothingTypes DEF Init
  <2>2. objects \in [Targets -> [Kinds \X Slots -> Bytes]]
    BY DEF Init, Bytes
  <2>3. receipts = {} /\ faults \in 0..MaxFaults
    BY PipelineAssumption DEF Init
  <2>4. \A p \in Publishers : GoodPublish(publishes[p], output, objects)
    BY <1>4, IdleIsGood
  <2>5. GoodObjects(output, objects)
    BY <1>5, Names DEF GoodObjects
  <2>6. GoodReceipts(receipts, output, objects)
    BY <2>3 DEF GoodReceipts
  <2>7. \A p \in Publishers : publishes[p].pc = "idle"
    BY <1>4, NothingTypes
  <2>. QED  BY <2>1, <2>2, <2>3, <2>4, <2>5, <2>6, <2>7 DEF PublishInv
<1>. QED  BY <1>3, <1>6 DEF Inv

LEMMA InvNext == ASSUME Inv, Exclusive, [Next]_vars PROVE Inv'
<1>1. ASSUME NEW b \in Builders, AnyBuilderStep(b) PROVE Inv'
  <2>1. BuildInv'
    BY <1>1, BuilderStepKeeps DEF Inv, AnyBuilderStep
  <2>2. PublishInv'
    BY <1>1, BuilderKeepsPublish
  <2>. QED  BY <2>1, <2>2 DEF Inv
<1>2. ASSUME NEW carried \in SUBSET Keys, NEW allow \in BOOLEAN, AcceptDebt(carried, allow) PROVE Inv'
  <2>1. BuildInv'
    BY <1>2, AcceptDebtKeeps DEF Inv
  <2>2. UNCHANGED <<output, publishes, objects, receipts, faults>>
    BY <1>2 DEF AcceptDebt, buildVars, publishVars
  <2>. QED  BY <2>1, <2>2 DEF Inv, PublishInv
<1>3. ASSUME NEW p \in Publishers, AnyPublisherStep(p) PROVE Inv'
  BY <1>3, PublisherStepKeeps DEF AnyPublisherStep
<1>4. CASE UNCHANGED vars
  BY <1>4 DEF vars, Inv, BuildInv, PublishInv
<1>. QED  BY <1>1, <1>2, <1>3, <1>4, KindsOfStep

LEMMA Invariance == ASSUME Exclusive PROVE Spec => []Inv
BY InvInit, InvNext, PTL DEF Spec
------------------------------------------------------------------------------
(* Every build, file, publish command and object is of the kind its code     *)
(* keeps (LocalBuildPipeline, ArtifactBuilder, the publishers).              *)
THEOREM TypeCorrect == ASSUME Exclusive PROVE Spec => []TypeOK
<1>1. Inv => TypeOK
  BY DEF Inv, BuildInv, PublishInv, TypeOK
<1>. QED  BY <1>1, Invariance, PTL

(* Behind a pointer stands the archive it names, whatever uploads failed or  *)
(* were repeated: the publishers send the archive first and never replace    *)
(* an object.                                                                *)
THEOREM PointersComplete == ASSUME Exclusive PROVE Spec => []PointerComplete
<1>1. Inv => PointerComplete
  BY DEF Inv, PublishInv, GoodObjects, PointerComplete
<1>. QED  BY <1>1, Invariance, PTL

(* What a publisher answered for a target stays true through every later     *)
(* build and publish.                                                        *)
THEOREM ReceiptsHold == ASSUME Exclusive PROVE Spec => []ReceiptHolds
<1>1. Inv => ReceiptHolds
  BY DEF Inv, PublishInv, GoodReceipts, ReceiptHolds
<1>. QED  BY <1>1, Invariance, PTL

(* What is published passed the gate, and the debt in it was approved by an  *)
(* operator at some time (QualityGate.evaluate, qa-accept-debt).             *)
THEOREM PublishedClean == ASSUME Exclusive PROVE Spec => []PublishedWasClean
<1>1. ASSUME Inv PROVE PublishedWasClean
  <2>1. ASSUME NEW t \in Targets, NEW o \in Kinds \X Slots, objects[t][o] # None, o[1] # "archive"
        PROVE  /\ output[objects[t][o].run].report # None
               /\ output[objects[t][o].run].report.new = {}
               /\ ~output[objects[t][o].run].report.failed
               /\ output[objects[t][o].run].report.carried \subseteq approved
    <3>1. PICK k \in {"metadata", "manifest"}, s \in Slots : o = <<k, s>>
      BY <2>1 DEF Kinds
    <3>2. Done(objects[t][o], output)
      BY <1>1, <2>1, <3>1, PublishTypes DEF GoodObjects
    <3>3. Clean(output[objects[t][o].run].report, approved)
      BY <1>1, <3>2, DoneIsVerified DEF Inv
    <3>. QED  BY <3>3, NoneIsNoRecord DEF Clean
  <2>. QED  BY <2>1 DEF PublishedWasClean
<1>. QED  BY <1>1, Invariance, PTL

------------------------------------------------------------------------------
(* Publishing again completes what an earlier attempt left.                  *)

LEMMA TodoAfter ==
  ASSUME Inv, NEW p \in Publishers, NEW me, Publisher(p, me)
  PROVE  publishes'[p] = me /\ \A q \in Publishers \ {p} : publishes'[q] = publishes[q]
BY DEF Publisher, Inv, PublishInv

\* A target that is over.
LEMMA TodoOver ==
  ASSUME Inv, NEW p \in Publishers, AtObject(publishes[p]), TargetOver(p)
  PROVE  publishes[p].todo \ publishes'[p].todo \subseteq {publishes[p].target}
<1>1. Publisher(p, GoesOn(publishes[p]))
  BY DEF TargetOver, GoesOn
<1>2. publishes'[p].todo = publishes[p].todo \ {publishes[p].target}
  BY <1>1, AtObjectFacts, TodoAfter, NextTarget
<1>. QED  BY <1>2

\* The object a publish is at is one of those Differs looks at.
LEMMA RefusedDiffers ==
  ASSUME Inv, NEW p \in Publishers, AtObject(publishes[p]),
         Stored(publishes[p]) \notin {None, Sent(publishes[p])}
  PROVE  Differs(publishes[p].target, publishes[p].bundle)
<1>. DEFINE me == publishes[p]
<1>1. GoodPublish(me, output, objects)
  BY DEF Inv, PublishInv
<1>2. /\ Sent(me) = Meant(me.kind, me.bundle) /\ me.kind \in {"archive", Pointer, "manifest"}
      /\ Stored(me) = objects[me.target][<<me.kind, Slot(me.target, me.kind, me.bundle.version)>>]
  BY AtObjectFacts DEF Name
<1>3. me.kind \in {"archive", Pointer, Last(me.target)}
  <2>1. CASE me.kind \in {"archive", Pointer}
    BY <2>1
  <2>2. CASE me.kind \notin {"archive", Pointer}
    <3>1. me.kind = "manifest" /\ Compat
      BY <1>2, <2>2 DEF Pointer
    <3>. QED  BY <1>1, <3>1 DEF GoodPublish, AtObject, Last
  <2>. QED  BY <2>1, <2>2
<1>. QED  BY <1>2, <1>3 DEF Differs, Meant

\* What a step of a publisher may do with the targets it still has.
RetryOK(p) ==
  \A t \in publishes[p].todo \ publishes'[p].todo :
    \/ faults' # faults
    \/ <<t, publishes[p].bundle>> \in receipts'
    \/ Differs(t, publishes[p].bundle)

LEMMA FaultCounts == ASSUME Inv, Fault PROVE faults' # faults
BY PipelineAssumption DEF Fault, Inv, PublishInv

LEMMA RetryStep ==
  ASSUME Inv, Exclusive, NEW p \in Publishers,
         \/ \E r \in Runs, todo \in {Targets} \cup {{t} : t \in Local} : Load(p, r, todo)
         \/ PublishStep(p) \/ UploadLost(p) \/ TargetFailed(p) \/ KillPublish(p)
  PROVE  RetryOK(p) /\ \A q \in Publishers \ {p} : publishes'[q] = publishes[q]
<1>. DEFINE me == publishes[p]
<1>1. CASE UploadLost(p) \/ TargetFailed(p) \/ KillPublish(p)
  <2>1. faults' # faults
    BY <1>1, FaultCounts DEF UploadLost, TargetFailed, KillPublish
  <2>2. \A q \in Publishers \ {p} : publishes'[q] = publishes[q]
    BY <1>1, TodoAfter DEF UploadLost, TargetFailed, KillPublish, TargetOver
  <2>. QED  BY <2>1, <2>2 DEF RetryOK
<1>2. ASSUME NEW r \in Runs, NEW todo, Load(p, r, todo)
      PROVE  RetryOK(p) /\ \A q \in Publishers \ {p} : publishes'[q] = publishes[q]
  <2>1. publishes[p].todo = {}
    <3>1. publishes[p] = NoPublish
      BY <1>2 DEF Load, Inv, PublishInv, GoodPublish
    <3>2. NoPublish.todo = {}
      BY DEF NoPublish
    <3>. QED  BY <3>1, <3>2
  <2>. QED  BY <1>2, <2>1, TodoAfter DEF Load, RetryOK
<1>3. ASSUME NEW t \in Targets, Open(p, t)
      PROVE  RetryOK(p) /\ \A q \in Publishers \ {p} : publishes'[q] = publishes[q]
  <2>1. publishes'[p].todo = publishes[p].todo
    BY <1>3, OpenStep
  <2>2. \A q \in Publishers \ {p} : publishes'[q] = publishes[q]
    BY <1>3, TodoAfter DEF Open
  <2>. QED  BY <2>1, <2>2 DEF RetryOK
<1>4. CASE Close(p)
  BY <1>4, TodoAfter DEF Close, RetryOK
<1>5. ASSUME NEW pc, me \in PublishRecords, Publisher(p, [me EXCEPT !.pc = pc])
      PROVE  RetryOK(p) /\ \A q \in Publishers \ {p} : publishes'[q] = publishes[q]
  <2>1. publishes'[p] = [me EXCEPT !.pc = pc]
    BY <1>5, TodoAfter
  <2>2. publishes'[p].todo = me.todo
    BY <1>5, <2>1 DEF PublishRecords
  <2>. QED  BY <1>5, <2>2, TodoAfter DEF RetryOK
<1>6. me \in PublishRecords
  BY DEF Inv, PublishInv
<1>7. ASSUME AtObject(me), TargetOver(p),
             <<me.target, me.bundle>> \in receipts' \/ Differs(me.target, me.bundle)
      PROVE  RetryOK(p) /\ \A q \in Publishers \ {p} : publishes'[q] = publishes[q]
  BY <1>7, TodoOver, TodoAfter DEF RetryOK, TargetOver
<1>8. CASE Head(p)
  <2>1. AtObject(me)
    BY <1>8 DEF Head, AtObject
  <2>2. CASE Publisher(p, [me EXCEPT !.pc = "put"]) \/ Publisher(p, [me EXCEPT !.pc = "verify"])
    BY <1>5, <1>6, <2>2
  <2>3. CASE Stored(me) \notin {None, Sent(me)} /\ TargetOver(p)
    BY <1>7, <2>1, <2>3, RefusedDiffers
  <2>. QED  BY <1>8, <2>2, <2>3 DEF Head
<1>9. CASE Upload(p)
  BY <1>5, <1>6, <1>9 DEF Upload
<1>10. CASE Compare(p)
  <2>1. AtObject(me) /\ me.pc = "verify"
    BY <1>10 DEF Compare, AtObject
  <2>2. Stored(me) = Sent(me)
    BY <2>1 DEF Inv, PublishInv, GoodPublish, Stored
  <2>3. CASE Publisher(p, [me EXCEPT !.pc = "head", !.kind = After(me.kind)])
    <3>1. publishes'[p] = [me EXCEPT !.pc = "head", !.kind = After(me.kind)]
      BY <2>3, TodoAfter
    <3>2. publishes'[p].todo = me.todo
      BY <1>6, <3>1 DEF PublishRecords
    <3>. QED  BY <2>3, <3>2, TodoAfter DEF RetryOK
  <2>4. CASE receipts' = receipts \cup {<<me.target, me.bundle>>} /\ TargetOver(p)
    BY <1>7, <2>1, <2>4
  <2>. QED  BY <1>10, <2>2, <2>3, <2>4 DEF Compare
<1>. QED  BY <1>1, <1>2, <1>3, <1>4, <1>8, <1>9, <1>10 DEF PublishStep

(* A publish command is done with a target, without a fault and without a    *)
(* receipt, only when other bytes stand there: an earlier attempt that       *)
(* failed half-way is completed by the next one.                             *)
THEOREM RetriesSucceed == ASSUME Exclusive PROVE Spec => RetrySucceeds
<1>1. ASSUME Inv, [Next]_vars
      PROVE  [\A p \in Publishers : RetryOK(p)]_vars
  <2>1. CASE UNCHANGED publishes
    BY <2>1 DEF RetryOK
  <2>2. ASSUME NEW p \in Publishers,
               \/ \E r \in Runs, todo \in {Targets} \cup {{t} : t \in Local} : Load(p, r, todo)
               \/ PublishStep(p) \/ UploadLost(p) \/ TargetFailed(p) \/ KillPublish(p)
        PROVE  \A q \in Publishers : RetryOK(q)
    BY <1>1, <2>2, RetryStep DEF RetryOK
  <2>3. CASE Next /\ publishes' # publishes
    <3>1. ASSUME NEW b \in Builders, AnyBuilderStep(b) PROVE UNCHANGED publishes
      BY <3>1 DEF AnyBuilderStep, BuilderStep, publishVars
    <3>2. ASSUME NEW carried, NEW allow, AcceptDebt(carried, allow) PROVE UNCHANGED publishes
      BY <3>2 DEF AcceptDebt, publishVars
    <3>. QED  BY <1>1, <2>2, <2>3, <3>1, <3>2, BuilderSteps DEF Next
  <2>. QED  BY <1>1, <2>1, <2>3 DEF vars
<1>. QED  BY <1>1, Invariance, PTL DEF Spec, RetrySucceeds, RetryOK
------------------------------------------------------------------------------
(* The pipeline implements Release.                                          *)

LEMMA CompleteIsDone ==
  ASSUME Inv, NEW b PROVE b \in complete <=> Done(b, output)
<1>1. ASSUME b \in complete PROVE Done(b, output)
  <2>1. PICK r \in Runs : Verified(r, output[r].manifest) /\ b = output[r].manifest
    BY <1>1 DEF complete
  <2>. QED  BY <2>1, VerifiedIsDone DEF Inv
<1>2. ASSUME Done(b, output) PROVE b \in complete
  BY <1>2, DoneIsVerified DEF complete, Inv
<1>. QED  BY <1>1, <1>2

LEMMA CompleteIsBundles == ASSUME Inv PROVE complete = {b \in Bundles : Done(b, output)}
BY CompleteIsDone DEF Done

LEMMA CompleteIsBundlesNext == ASSUME Inv' PROVE complete' = {b \in Bundles : Done(b, output')}
<1>1. (Inv => complete = {b \in Bundles : Done(b, output)})'
  BY CompleteIsBundles, PTL
<1>. QED  BY <1>1

LEMMA PromiseInit == Init => Promise!Init
<1>. SUFFICES ASSUME Init PROVE Promise!Init
  OBVIOUS
<1>1. complete = {}
  <2>1. \A r \in Runs : ~Verified(r, output[r].manifest)
    BY NothingTypes DEF Init, Verified
  <2>. QED  BY <2>1 DEF complete
<1>2. live = [t \in Targets |-> [s \in Slots |-> None]]
  BY Names DEF Init, live
<1>. QED  BY <1>1, <1>2 DEF Promise!Init

\* The files of other runs stay, and those of a run that is done.
LEMMA BuilderPromise ==
  ASSUME Inv, Inv', NEW b \in Builders, AnyBuilderStep(b)
  PROVE  Promise!Next \/ UNCHANGED <<complete, live>>
<1>1. PICK me \in BuildRecords, r \in Runs, o \in Outputs : BuilderStep(b, me, r, o)
  BY DEF AnyBuilderStep
<1>2. live' = live
  BY <1>1 DEF BuilderStep, publishVars, live
<1>3. /\ complete = {x \in Bundles : Done(x, output)}
      /\ complete' = {x \in Bundles : Done(x, output')}
  BY CompleteIsBundles, CompleteIsBundlesNext
<1>4. \A q \in Runs : output'[q] = IF q = r THEN o ELSE output[q]
  BY <1>1 DEF BuilderStep, Inv, BuildInv
<1>5. \A x \in Bundles : x.run \in Runs
  BY DEF Bundles
<1>6. CASE o.manifest = output[r].manifest
  <2>1. \A x \in Bundles : Done(x, output') <=> Done(x, output)
    BY <1>4, <1>5, <1>6 DEF Done
  <2>. QED  BY <1>2, <1>3, <2>1
<1>7. CASE o.manifest # output[r].manifest
  <2>1. output[r].manifest = None /\ o.manifest # None /\ o.manifest \in Bundles
    BY <1>1, <1>7 DEF BuilderStep, Outputs
  <2>2. o.manifest.run = r
    BY <1>1, <2>1 DEF BuilderStep, GoodFiles
  <2>3. \A x \in Bundles : Done(x, output') <=> (Done(x, output) \/ x = o.manifest)
    BY <1>4, <1>5, <2>1, <2>2, NoneIsNoRecord DEF Done
  <2>4. complete' = complete \cup {o.manifest}
    BY <1>3, <2>1, <2>3
  <2>5. o.manifest \notin complete
    BY <1>3, <2>1, <2>2, NoneIsNoRecord DEF Done
  <2>6. Promise!Complete(o.manifest)
    BY <1>2, <2>4, <2>5 DEF Promise!Complete
  <2>. QED  BY <2>1, <2>6 DEF Promise!Next
<1>. QED  BY <1>6, <1>7

LEMMA FilesDecide == ASSUME UNCHANGED output PROVE complete' = complete
BY DEF complete, Verified

LEMMA ObjectsDecide == ASSUME UNCHANGED objects PROVE live' = live
BY DEF live

\* An upload either leaves all pointers or points a free one to its bundle.
LEMMA UploadPromise ==
  ASSUME Inv, NEW p \in Publishers, Upload(p) \/ UploadLost(p)
  PROVE  Promise!Next \/ UNCHANGED <<complete, live>>
<1>. DEFINE me == publishes[p]
            slot == Slot(me.target, me.kind, me.bundle.version)
<1>1. me.pc = "put" /\ AtObject(me) /\ Store(me)
  BY DEF Upload, UploadLost, AtObject
<1>2. complete' = complete
  BY FilesDecide DEF Upload, UploadLost, buildVars
<1>3. /\ me \in PublishRecords /\ me.target \in Targets /\ me.bundle \in Bundles
      /\ Done(me.bundle, output) /\ me.kind \in {"archive", Pointer, "manifest"}
      /\ Sent(me) = Meant(me.kind, me.bundle)
  BY <1>1, AtObjectFacts
<1>4. Name(me) = <<me.kind, slot>> /\ slot \in Slots
  BY <1>3, NameType
<1>5. /\ objects[me.target][Name(me)] = None
      /\ \A t \in Targets, n \in Kinds \X Slots :
           objects'[t][n] = IF t = me.target /\ n = Name(me) THEN Sent(me) ELSE objects[t][n]
  BY <1>1, StoreFacts
<1>6. \A t \in Targets, s \in Slots :
        objects'[t][<<Pointer, s>>] =
          IF t = me.target /\ <<Pointer, s>> = Name(me) THEN Sent(me) ELSE objects[t][<<Pointer, s>>]
  BY <1>5, Names
<1>. HIDE DEF me, slot
<1>7. CASE me.kind # Pointer
  <2>1. \A t \in Targets, s \in Slots : objects'[t][<<Pointer, s>>] = objects[t][<<Pointer, s>>]
    BY <1>4, <1>6, <1>7
  <2>2. live' = live
    BY <2>1 DEF live
  <2>. QED  BY <1>2, <2>2
<1>8. CASE me.kind = Pointer
  <2>1. Sent(me) = me.bundle
    BY <1>3, <1>8, PointerFacts DEF Meant
  <2>2. live[me.target][slot] = None
    BY <1>3, <1>4, <1>5, <1>8 DEF live
  <2>3. \A t \in Targets, s \in Slots :
          objects'[t][<<Pointer, s>>] =
            IF t = me.target /\ s = slot THEN me.bundle ELSE objects[t][<<Pointer, s>>]
    BY <1>4, <1>6, <1>8, <2>1
  <2>4. live' = [live EXCEPT ![me.target][slot] = me.bundle]
    <3>1. objects \in [Targets -> [Kinds \X Slots -> Bytes]]
          /\ objects' \in [Targets -> [Kinds \X Slots -> Bytes]]
      BY <1>1, PublishTypes, StoreFacts DEF me
    <3>2. live \in [Targets -> [Slots -> Bytes]] /\ live' \in [Targets -> [Slots -> Bytes]]
      BY <3>1, Names DEF live
    <3>3. \A t \in Targets, s \in Slots :
            live'[t][s] = IF t = me.target /\ s = slot THEN me.bundle ELSE live[t][s]
      BY <2>3 DEF live
    <3>4. me.bundle \in Bytes
      BY <1>3 DEF Bytes
    <3>5. live'[me.target] = [live[me.target] EXCEPT ![slot] = me.bundle]
      BY <1>3, <1>4, <3>2, <3>3
    <3>6. ASSUME NEW t \in Targets, t # me.target PROVE live'[t] = live[t]
      BY <3>2, <3>3, <3>6
    <3>7. live' = [live EXCEPT ![me.target] = [live[me.target] EXCEPT ![slot] = me.bundle]]
      BY <1>3, <3>2, <3>5, <3>6
    <3>. QED  BY <3>7
  <2>5. me.bundle \in complete
    BY <1>3, CompleteIsDone
  <2>6. Promise!Publish(me.target, slot)
    BY <1>2, <2>2, <2>4, <2>5 DEF Promise!Publish
  <2>. QED  BY <1>3, <1>4, <2>6 DEF Promise!Next
<1>. QED  BY <1>7, <1>8

LEMMA PublisherPromise ==
  ASSUME Inv, NEW p \in Publishers,
         \/ \E r \in Runs, todo \in {Targets} \cup {{t} : t \in Local} : Load(p, r, todo)
         \/ PublishStep(p) \/ UploadLost(p) \/ TargetFailed(p) \/ KillPublish(p)
  PROVE  Promise!Next \/ UNCHANGED <<complete, live>>
<1>1. CASE Upload(p) \/ UploadLost(p)
  BY <1>1, UploadPromise
<1>2. CASE UNCHANGED <<buildVars, objects>>
  BY <1>2, FilesDecide, ObjectsDecide DEF buildVars
<1>. QED  BY <1>1, <1>2 DEF Load, PublishStep, Open, Close, Head, Compare, TargetFailed, KillPublish

(* The pipeline implements Release: through any kills, lost answers and      *)
(* repetitions a bundle becomes complete once and for all, and a pointer     *)
(* names a complete bundle and names it for ever.                            *)
THEOREM Implements == ASSUME Exclusive PROVE Spec => ImplementsRelease
<1>1. ASSUME Inv, Inv', [Next]_vars PROVE [Promise!Next]_(Promise!vars)
  <2>1. ASSUME NEW b \in Builders, AnyBuilderStep(b) PROVE Promise!Next \/ UNCHANGED <<complete, live>>
    BY <1>1, <2>1, BuilderPromise
  <2>2. ASSUME NEW carried, NEW allow, AcceptDebt(carried, allow) PROVE UNCHANGED <<complete, live>>
    BY <2>2, FilesDecide, ObjectsDecide DEF AcceptDebt, buildVars, publishVars
  <2>3. ASSUME UNCHANGED vars PROVE UNCHANGED <<complete, live>>
    BY <2>3, FilesDecide, ObjectsDecide DEF vars
  <2>4. ASSUME Next PROVE Promise!Next \/ UNCHANGED <<complete, live>>
    BY <1>1, <2>1, <2>2, <2>4, BuilderSteps, PublisherPromise DEF Next
  <2>5. Promise!Next \/ UNCHANGED <<complete, live>>
    BY <1>1, <2>3, <2>4
  <2>. QED  BY <2>5 DEF Promise!vars
<1>. QED  BY <1>1, PromiseInit, Invariance, PTL DEF Spec, ImplementsRelease, Promise!Spec
==============================================================================
