----------------------------- MODULE GraftEngine -----------------------------
(***************************************************************************)
(* The graft engine: how patch groups edit a kernel tree, what they leave  *)
(* behind when a write fails or the process dies, and how the tree is      *)
(* rolled back.  Sources: scripts/abk_backport_engine.py (GraftContext,    *)
(* PatchGroup, run_child, apply_steps), scripts/abk_common.py (write_text, *)
(* replace_once), scripts/stable_backport.sh (children and overlays) and   *)
(* scripts/abk_rollback.sh.                                                *)
(*                                                                         *)
(* A file's text is the set of the atoms (lines, anchors, payloads) it     *)
(* contains; a block of a step is a set of atoms, so "block in text" is    *)
(* inclusion.  LF and CRLF variants of a block are the same atoms.         *)
(***************************************************************************)
EXTENDS Integers, Sequences, FiniteSets

CONSTANTS
    Files,       \* paths below common_dir that the module reads or writes
    Atoms,       \* the pieces of text the steps tell apart
    NoFile, Created, \* two values outside Atoms, for None and Sentinel
    Trees,       \* the trees the module may be run on, before it ever ran
    Children,    \* the patch groups of each child, in composition order
    AddressC,    \* drivers/of/address.c
    AddressGate, \* the atoms of the 5.15.213 rework
    AddressText, \* files/drivers/of/address.c
    MoonC,       \* drivers/input/moon_kmsg.c, absent from a kernel tree
    MoonTexts,   \* the module versions of files/drivers/input/moon_kmsg.c
    MoonMakefile, MoonMarker,
    Targets,     \* ABK_MODULE_CHILD_ID: the children run alone; 0 for all
    MayDry,      \* whether somebody calls a child with --dry-run
    MayRollback, \* whether somebody calls abk_rollback.sh --apply
    Families,    \* {TRUE}: android13-5.15 only; FALSE: another kernel family
    Faults,      \* which faults may happen, a subset of FaultKinds
    MaxFaults,   \* bound: faults per behaviour
    MaxRuns      \* bound: passes and rollbacks per behaviour

Texts    == SUBSET Atoms
None     == {NoFile}   \* no such file / no snapshot / nothing written yet
Sentinel == {Created}  \* a snapshot that says "created by the module"
Torn     == {}         \* a write that died half-way: a truncated file

FaultKinds ==
    { "write",     \* writing a kernel file raises OSError (and may tear it)
      "crash",     \* the process dies; a kernel file being written may tear
      "snapshot",  \* writing a snapshot fails or dies, and may tear it
      "newfile" }  \* the process dies between a new file and its sentinel

Mark  == [file : Files, block : Texts]

(* A step is in the list an _apply function builds only if one of the      *)
(* `only` marks is in the tree and none of the `unless` marks.             *)
Step  == [file : Files, old : Texts, new : Texts, required : BOOLEAN,
          only : SUBSET Mark, unless : SUBSET Mark]

Status == {"applied", "partial", "already_present", "skip_suite_processed",
           "report_only", "blocked_by_missing_anchor", "blocked_by_shape"}
Landing == {"applied", "partial", "already_present"}

(* An early return: a status, where the `present` marks are in the tree    *)
(* and the `absent` ones are not.                                          *)
Check == [present : SUBSET Mark, absent : SUBSET Mark, status : Status]
Group == [checks : Seq(Check), steps : Seq(Step), onmiss : Seq(Check),
          hard : BOOLEAN]

ASSUME TreeAssumption ==
    /\ \A t \in Trees : t \in [Files -> Texts \cup {None}]
    /\ NoFile \notin Atoms /\ Created \notin Atoms /\ NoFile # Created
ASSUME GroupsAssumption == Children \in Seq(Seq(Group)) /\ Children # <<>>
ASSUME OverlayAssumption ==
    /\ {AddressC, MoonC, MoonMakefile} \subseteq Files
    /\ AddressGate \in Texts /\ AddressText \in Texts /\ MoonMarker \in Atoms
    /\ MoonTexts \subseteq Texts /\ MoonTexts # {}
    /\ MoonMakefile # MoonC
    /\ \A t \in Trees : t[AddressC] # None /\ t[MoonMakefile] # None
ASSUME BoundAssumption ==
    /\ Faults \subseteq FaultKinds /\ MayDry \in BOOLEAN /\ MayRollback \in BOOLEAN
    /\ Families \subseteq BOOLEAN /\ Targets \subseteq 0..Len(Children)
    /\ MaxFaults \in Nat /\ MaxRuns \in Nat

VARIABLES
    disk,     \* the kernel tree
    orig,     \* the .abk-orig sidecars
    texts,    \* GraftContext._texts, where it differs from a plain read
    dirty,    \* GraftContext._dirty
    before,   \* run_child's copy of the dirty texts before the group
    pc, sel, child, g, s,
    pending,  \* apply_steps' pending texts ...
    queue,    \* ... and their keys in insertion order; its head is being
              \* written (abk_rollback.sh: the file being restored)
    tally,    \* apply_steps' results, counted by status
    status,   \* the status the running group returned
    report,   \* the statuses of this pass, per child
    todo,     \* abk_rollback.sh: files whose snapshot is still to restore
    dry,      \* --dry-run
    enabled,  \* the family is android13-5.15
    moon,     \* the payload of the module version that runs
    faults,   \* history: the faults so far
    runs,     \* how many passes and rollbacks there were
    pristine, \* history: the tree before the module ever ran
    entry,    \* history: the tree when the running child started
    settled,  \* history: the tree the last complete pass left
    forecast  \* history: what a dry run of a child reported

tree == <<disk, orig>>
ctx  == <<texts, dirty, before>>
call == <<sel, dry, enabled, moon, runs>>
hist == <<pristine, entry, settled, forecast>>
vars == <<disk, orig, texts, dirty, before, pc, sel, child, g, s, pending,
          queue, tally, status, report, todo, dry, enabled, moon, faults,
          runs, pristine, entry, settled, forecast>>

NoTexts == [f \in Files |-> None]
Tallied == {"applied", "already_present", "missing_anchor"}
NoTally == [k \in Tallied |-> 0]
Resting == {"idle", "done", "aborted", "rolled"}

-----------------------------------------------------------------------------
(* Operators                                                               *)

(* ctx.read(): the cache, else the file.  Nobody else writes the tree while *)
(* a child runs, so an unwritten file reads as the disk has it.             *)
ReadDisk(f) == disk[f]                                          \* mutant
Read(f) == IF texts[f] = None THEN disk[f] ELSE texts[f]

Has(m) == Read(m.file) # None /\ m.block \subseteq Read(m.file)

(* replace_once(): the new block is looked for first.                      *)
ReplaceOnce(text, old, new) ==
    IF new \subseteq text THEN [text |-> text, status |-> "already_present"]
    ELSE IF old \subseteq text
         THEN [text |-> (text \ old) \cup new, status |-> "applied"]
         ELSE [text |-> text, status |-> "missing_anchor"]

(* The status apply_steps() returns once no required anchor is missing.    *)
StepsStatusLax(t) ==                                            \* mutant
    IF t.applied = 0 /\ t.already_present = 0 THEN "blocked_by_missing_anchor"
    ELSE IF t.missing_anchor = 0 THEN "already_present" ELSE "partial"
StepsStatus(t) ==
    IF t.applied = 0 /\ t.already_present = 0 THEN "blocked_by_missing_anchor"
    ELSE IF t.applied = 0 /\ t.missing_anchor = 0 THEN "already_present"
    ELSE IF t.missing_anchor > 0 THEN "partial"
    ELSE "applied"

Groups == Children[child]
Grp    == Groups[g]
Here   == Head(queue)

(* The children a pass runs: all of them, or the selected one.             *)
LastChild == IF sel = 0 THEN Len(Children) ELSE sel

-----------------------------------------------------------------------------
Init ==
    /\ pristine \in Trees /\ disk = pristine /\ orig = NoTexts
    /\ texts = NoTexts /\ dirty = {} /\ before = NoTexts
    /\ pc = "idle" /\ sel = 0 /\ child = 1 /\ g = 1 /\ s = 1
    /\ pending = NoTexts /\ queue = <<>> /\ tally = NoTally
    /\ status = "report_only" /\ report = [c \in DOMAIN Children |-> <<>>]
    /\ todo = {} /\ dry = FALSE /\ enabled = TRUE /\ moon \in MoonTexts
    /\ faults = <<>> /\ runs = 0
    /\ entry = pristine /\ settled = {} /\ forecast = {}

FreshChildCached(c) ==                                          \* mutant
    /\ child' = c /\ g' = 1 /\ pc' = "group"
    /\ UNCHANGED texts /\ dirty' = {} /\ before' = NoTexts
    /\ s' = 1 /\ pending' = NoTexts /\ queue' = <<>> /\ tally' = NoTally
    /\ status' = "report_only" /\ entry' = disk
(* A child is a process of its own: it starts with an empty GraftContext.  *)
FreshChild(c) ==
    /\ child' = c /\ g' = 1 /\ pc' = "group"
    /\ texts' = NoTexts /\ dirty' = {} /\ before' = NoTexts
    /\ s' = 1 /\ pending' = NoTexts /\ queue' = <<>> /\ tally' = NoTally
    /\ status' = "report_only" /\ entry' = disk

(* setup.sh after_patch: every child in order (c = 0), or the one that     *)
(* ABK_MODULE_CHILD_ID names; or a child's script called by hand with      *)
(* --dry-run.  ok says whether the target family is android13-5.15.        *)
StartRun(c, d, v, ok) ==
    /\ pc \in Resting /\ runs < MaxRuns
    /\ d => MayDry /\ c # 0 /\ ok /\ v = moon
    /\ FreshChild(IF c = 0 THEN 1 ELSE c)
    /\ sel' = c /\ dry' = d /\ moon' = v /\ enabled' = ok /\ runs' = runs + 1
    /\ report' = [k \in DOMAIN Children |-> <<>>]
    /\ settled' = IF v = moon THEN settled ELSE {}
    /\ UNCHANGED <<tree, todo, faults, pristine, forecast>>

-----------------------------------------------------------------------------
(* run_child(): one group after the other                                  *)

(* An unsupported family: the group is reported and nothing is read.       *)
ReportOnly ==
    /\ pc = "group" /\ g <= Len(Groups) /\ ~enabled
    /\ report' = [report EXCEPT ![child] = Append(@, "report_only")]
    /\ g' = g + 1
    /\ UNCHANGED <<tree, ctx, call, hist, pc, child, s, pending, queue,
                   tally, status, todo, faults>>

(* The early returns of an _apply function, tried in order.                *)
Fires(c) == (\A m \in c.present : Has(m)) /\ (\A m \in c.absent : ~Has(m))
Clear(checks) == \A i \in DOMAIN checks : ~Fires(checks[i])
Returns(checks, v) ==
    \E i \in DOMAIN checks :
        /\ Fires(checks[i]) /\ \A j \in 1..(i - 1) : ~Fires(checks[j])
        /\ v = checks[i].status

(* PatchGroup.run() up to apply_steps(), after run_child took `before`.    *)
StartGroup ==
    /\ pc = "group" /\ g <= Len(Groups) /\ enabled
    /\ before' = [f \in Files |-> IF f \in dirty THEN texts[f] ELSE None]
    /\ IF Clear(Grp.checks) THEN pc' = "steps" /\ UNCHANGED status
       ELSE pc' = "judge" /\ status' \in Status /\ Returns(Grp.checks, status')
    /\ s' = 1 /\ pending' = NoTexts /\ queue' = <<>> /\ tally' = NoTally
    /\ UNCHANGED <<tree, texts, dirty, call, hist, child, g, report, todo,
                   faults>>

(* PatchGroup.run() on an exception: a hard group ends the child, any      *)
(* other one is reported as blocked_by_shape.                              *)
Raise ==
    IF Grp.hard THEN pc' = "aborted" /\ UNCHANGED status
                ELSE pc' = "judge" /\ status' = "blocked_by_shape"

(* A required anchor is missing: apply_steps() returns None before it      *)
(* writes anything, and the _apply function looks again why.               *)
Abandon ==
    IF Clear(Grp.onmiss) THEN Raise
    ELSE pc' = "judge" /\ status' \in Status /\ Returns(Grp.onmiss, status')

(* pending.get(rel, ctx.read(rel))                                         *)
StagedStale(f) == Read(f)                                       \* mutant
Staged(f) == IF pending[f] = None THEN Read(f) ELSE pending[f]

Listed(st) == (st.only = {} \/ \E m \in st.only : Has(m))
              /\ \A m \in st.unless : ~Has(m)

(* A step the _apply function left out of its list.                        *)
OmitStep ==
    /\ pc = "steps" /\ s <= Len(Grp.steps) /\ ~Listed(Grp.steps[s])
    /\ s' = s + 1
    /\ UNCHANGED <<tree, ctx, call, hist, pc, child, g, pending, queue, tally,
                   status, report, todo, faults>>

(* One turn of apply_steps()' first loop: the edit is staged in `pending`. *)
StageStep ==
    /\ pc = "steps" /\ s <= Len(Grp.steps) /\ Listed(Grp.steps[s])
    /\ LET st   == Grp.steps[s]
           text == Staged(st.file)
           r    == IF text = None
                   THEN [text |-> None, status |-> "missing_anchor"]
                   ELSE ReplaceOnce(text, st.old, st.new)
       IN /\ tally' = [tally EXCEPT ![r.status] = @ + 1]
          /\ IF r.status = "missing_anchor"
             THEN /\ UNCHANGED <<pending, queue>>
                  /\ IF st.required THEN Abandon ELSE UNCHANGED <<pc, status>>
             ELSE /\ pending' = [pending EXCEPT ![st.file] = r.text]
                  /\ queue' = IF pending[st.file] = None
                              THEN Append(queue, st.file) ELSE queue
                  /\ UNCHANGED <<pc, status>>
    /\ s' = s + 1
    /\ UNCHANGED <<tree, ctx, call, hist, child, g, report, todo, faults>>

(* apply_steps()' second loop starts once every step is staged.            *)
StartWrites ==
    /\ pc = "steps" /\ s > Len(Grp.steps)
    /\ pc' = "write"
    /\ UNCHANGED <<tree, ctx, call, hist, child, g, s, pending, queue, tally,
                   status, report, todo, faults>>

-----------------------------------------------------------------------------
(* apply_steps()' second loop, GraftContext.write() and write_text()       *)

(* A text equal to the one in the cache is not written.                    *)
SkipWrite ==
    /\ pc = "write" /\ queue # <<>> /\ pending[Here] = Read(Here)
    /\ queue' = Tail(queue)
    /\ UNCHANGED <<tree, ctx, call, hist, pc, child, g, s, pending, tally,
                   status, report, todo, faults>>

(* ctx.write() puts the new text in the cache first; a dry run stops there. *)
CtxWrite ==
    /\ pc = "write" /\ queue # <<>> /\ pending[Here] # Read(Here)
    /\ texts' = [texts EXCEPT ![Here] = pending[Here]]
    /\ IF dry THEN /\ dirty' = dirty \cup {Here} /\ queue' = Tail(queue)
                   /\ UNCHANGED pc
              ELSE /\ pc' = "snapshot" /\ UNCHANGED <<dirty, queue>>
    /\ UNCHANGED <<tree, before, call, hist, child, g, s, pending, tally,
                   status, report, todo, faults>>

(* write_text(): the sidecar is written once and never again.              *)
SnapshotAlways(f) == [orig EXCEPT ![f] = disk[f]]               \* mutant
SnapshotNever(f) == orig                                        \* mutant
SnapshotOf(f) ==
    IF orig[f] = None THEN [orig EXCEPT ![f] = disk[f]] ELSE orig

Snapshot ==
    /\ pc = "snapshot" /\ orig' = SnapshotOf(Here) /\ pc' = "target"
    /\ UNCHANGED <<disk, ctx, call, hist, child, g, s, pending, queue, tally,
                   status, report, todo, faults>>

WriteTarget ==
    /\ pc = "target"
    /\ disk' = [disk EXCEPT ![Here] = pending[Here]]
    /\ dirty' = dirty \cup {Here} /\ queue' = Tail(queue) /\ pc' = "write"
    /\ UNCHANGED <<orig, texts, before, call, hist, child, g, s, pending,
                   tally, status, report, todo, faults>>

(* OSError from write_text(): PatchGroup.run() turns it into               *)
(* blocked_by_shape, except for a hard group.  The file that was being     *)
(* written is untouched or truncated.                                      *)
Fault(kind) ==
    kind \in Faults /\ Len(faults) < MaxFaults /\ faults' = Append(faults, kind)

SnapshotFails ==
    /\ pc = "snapshot" /\ orig[Here] = None /\ Fault("snapshot") /\ Raise
    /\ orig' \in {orig, [orig EXCEPT ![Here] = Torn]}
    /\ UNCHANGED <<disk, ctx, call, hist, child, g, s, pending, queue, tally,
                   report, todo>>

WriteFails ==
    /\ pc = "target" /\ Fault("write") /\ Raise
    /\ disk' \in {disk, [disk EXCEPT ![Here] = Torn]}
    /\ UNCHANGED <<orig, ctx, call, hist, child, g, s, pending, queue, tally,
                   report, todo>>

(* Everything is written: apply_steps() returns and so does the group.     *)
EndSteps ==
    /\ pc = "write" /\ queue = <<>>
    /\ status' = StepsStatus(tally) /\ pc' = "judge"
    /\ UNCHANGED <<tree, ctx, call, hist, child, g, s, pending, queue, tally,
                   report, todo, faults>>

(* run_child() on what the group did: a degraded group must not have       *)
(* written, an applied or partial one must have.                           *)
Changed == {f \in dirty : texts[f] # before[f]}

Refused ==
    \/ status \notin Landing /\ Changed # {}
    \/ status \in {"applied", "partial"} /\ Changed = {}

Judge ==
    /\ pc = "judge"
    /\ report' = [report EXCEPT ![child] = Append(@, status)]
    /\ IF Refused THEN pc' = "aborted" /\ UNCHANGED g
                  ELSE pc' = "group" /\ g' = g + 1
    /\ UNCHANGED <<tree, ctx, call, hist, child, s, pending, queue, tally,
                   status, todo, faults>>

(* The child exits 0: the next child, or the overlays that ride with it.   *)
AfterChildren ==
    IF dry THEN "finish"
    ELSE CASE sel \in {0, 1} -> "address"
           [] sel = 2 -> "moon"
           [] OTHER -> "finish"

EndChild ==
    /\ pc = "group" /\ g > Len(Groups)
    /\ IF child < LastChild THEN FreshChild(child + 1)
       ELSE /\ pc' = AfterChildren
            /\ UNCHANGED <<ctx, child, g, s, pending, queue, tally, status, entry>>
    /\ UNCHANGED <<tree, call, report, todo, faults, pristine, settled, forecast>>

(* The pass is over.  History: a complete pass settles the tree, a dry run *)
(* of a child forecasts the report of a real one.                          *)
Finish ==
    /\ pc = "finish" /\ pc' = "done"
    /\ settled' = IF sel = 0 /\ enabled THEN {disk} ELSE settled
    /\ forecast' = IF dry /\ enabled
                   THEN {[child |-> child, tree |-> entry, report |-> report[child]]}
                   ELSE forecast
    /\ UNCHANGED <<tree, ctx, call, pristine, entry, child, g, s, pending, queue, tally,
                   status, report, todo, faults>>

-----------------------------------------------------------------------------
(* stable_backport.sh: the overlays                                        *)

engine == <<ctx, call, hist, child, g, s, pending, queue, tally, status,
            report, todo, faults>>

AfterAddress == IF sel = 0 THEN "moon" ELSE "finish"

(* overlay_of_address: only a tree that carries the rework is overlaid.    *)
OverlayAddressSkip ==
    /\ pc = "address" /\ disk[AddressC] # None
    /\ (disk[AddressC] \cap AddressGate = {} \/ disk[AddressC] = AddressText)
    /\ pc' = AfterAddress /\ UNCHANGED <<tree, engine>>

OverlayAddressSnapshot ==
    /\ pc = "address" /\ disk[AddressC] # None
    /\ disk[AddressC] \cap AddressGate # {} /\ disk[AddressC] # AddressText
    /\ orig' = SnapshotOf(AddressC) /\ pc' = "address_cp"
    /\ UNCHANGED <<disk, engine>>

OverlayAddressCopy ==
    /\ pc = "address_cp" /\ disk' = [disk EXCEPT ![AddressC] = AddressText]
    /\ pc' = AfterAddress /\ UNCHANGED <<orig, engine>>

(* overlay_moon_kmsg: a new file, whose sidecar is a sentinel ...          *)
OverlayMoonNew ==
    /\ pc = "moon" /\ disk[MoonC] = None
    /\ disk' = [disk EXCEPT ![MoonC] = moon] /\ pc' = "moon_sentinel"
    /\ UNCHANGED <<orig, engine>>

OverlayMoonSentinel ==
    /\ pc = "moon_sentinel" /\ orig' = [orig EXCEPT ![MoonC] = Sentinel]
    /\ pc' = "makefile" /\ UNCHANGED <<disk, engine>>

(* ... or the refresh of an older payload ...                              *)
OverlayMoonSnapshot ==
    /\ pc = "moon" /\ disk[MoonC] \notin {None, moon}
    /\ orig' = SnapshotOf(MoonC) /\ pc' = "moon_cp" /\ UNCHANGED <<disk, engine>>

OverlayMoonCopy ==
    /\ pc = "moon_cp" /\ disk' = [disk EXCEPT ![MoonC] = moon]
    /\ pc' = "makefile" /\ UNCHANGED <<orig, engine>>

OverlayMoonInPlace ==
    /\ pc = "moon" /\ disk[MoonC] = moon /\ pc' = "makefile"
    /\ UNCHANGED <<tree, engine>>

(* ... and the line that builds it.                                        *)
OverlayMakefileSnapshot ==
    /\ pc = "makefile" /\ disk[MoonMakefile] # None
    /\ IF MoonMarker \in disk[MoonMakefile]
       THEN pc' = "finish" /\ UNCHANGED orig
       ELSE pc' = "makefile_append" /\ orig' = SnapshotOf(MoonMakefile)
    /\ UNCHANGED <<disk, engine>>

OverlayMakefileAppend ==
    /\ pc = "makefile_append"
    /\ disk' = [disk EXCEPT ![MoonMakefile] = @ \cup {MoonMarker}]
    /\ pc' = "finish" /\ UNCHANGED <<orig, engine>>

Overlay ==
    \/ OverlayAddressSkip \/ OverlayAddressSnapshot \/ OverlayAddressCopy
    \/ OverlayMoonNew \/ OverlayMoonSentinel \/ OverlayMoonSnapshot
    \/ OverlayMoonCopy \/ OverlayMoonInPlace
    \/ OverlayMakefileSnapshot \/ OverlayMakefileAppend

-----------------------------------------------------------------------------
(* abk_rollback.sh --apply                                                 *)

StartRollback ==
    /\ MayRollback /\ pc \in Resting /\ runs < MaxRuns /\ runs' = runs + 1
    /\ pc' = "rollback" /\ todo' = {f \in Files : orig[f] # None}
    /\ settled' = {}
    /\ UNCHANGED <<tree, ctx, sel, dry, enabled, moon, pristine, entry,
                   forecast, child, g, s, pending, queue, tally, status, report, faults>>

(* What the snapshot of a file says the file was: the file itself, or      *)
(* nothing when the module created it.                                     *)
RestoredVerbatim(f) == orig[f]                                  \* mutant
Restored(f) == IF orig[f] = Sentinel THEN None ELSE orig[f]

RollbackCopy(f) ==
    /\ pc = "rollback" /\ f \in todo
    /\ disk' = [disk EXCEPT ![f] = Restored(f)]
    /\ queue' = <<f>> /\ pc' = "rollback_rm"
    /\ UNCHANGED <<orig, ctx, call, hist, child, g, s, pending, tally, status,
                   report, todo, faults>>

RollbackRemove ==
    /\ pc = "rollback_rm"
    /\ orig' = [orig EXCEPT ![Here] = None]
    /\ todo' = todo \ {Here} /\ pc' = "rollback" /\ queue' = <<>>
    /\ UNCHANGED <<disk, ctx, call, hist, child, g, s, pending, tally, status,
                   report, faults>>

EndRollback ==
    /\ pc = "rollback" /\ todo = {} /\ pc' = "rolled"
    /\ UNCHANGED <<tree, engine>>

-----------------------------------------------------------------------------
(* The process dies (killed, power lost; for the shell steps also a failed *)
(* cp under set -e).  A file it was writing may be left truncated.         *)

FileInFlight ==
    CASE pc = "target"     -> {Here}
      [] pc = "address_cp" -> {AddressC}
      [] pc = "moon_cp"    -> {MoonC}
      [] pc = "rollback"   -> {f \in todo : orig[f] # Sentinel}
      [] OTHER             -> {}

Crash ==
    /\ pc \notin Resting
    /\ IF pc = "moon_sentinel" THEN Fault("newfile") ELSE Fault("crash")
    /\ disk' \in {disk} \cup {[disk EXCEPT ![f] = Torn] : f \in FileInFlight}
    /\ pc' = "idle"
    /\ UNCHANGED <<orig, ctx, call, hist, child, g, s, pending, queue, tally,
                   status, report, todo>>

-----------------------------------------------------------------------------
Pass ==
    \/ ReportOnly \/ StartGroup \/ OmitStep \/ StageStep \/ StartWrites
    \/ SkipWrite \/ CtxWrite \/ Snapshot \/ WriteTarget
    \/ EndSteps \/ Judge \/ EndChild \/ Finish

Next ==
    \/ \E c \in Targets, d \in BOOLEAN, v \in MoonTexts, ok \in Families :
           StartRun(c, d, v, ok)
    \/ Pass \/ Overlay
    \/ SnapshotFails \/ WriteFails \/ Crash
    \/ StartRollback \/ (\E f \in Files : RollbackCopy(f))
    \/ RollbackRemove \/ EndRollback

Spec == Init /\ [][Next]_vars

-----------------------------------------------------------------------------
(* Properties                                                              *)

PCs == Resting \cup
    {"group", "steps", "write", "snapshot", "target", "judge", "finish",
     "address", "address_cp", "moon", "moon_sentinel", "moon_cp",
     "makefile", "makefile_append", "rollback", "rollback_rm"}

(* Type invariant: the tree, the sidecars and the cache hold texts.        *)
TypeOK ==
    /\ disk \in [Files -> Texts \cup {None}] /\ pristine \in Trees
    /\ orig \in [Files -> Texts \cup {None, Sentinel}]
    /\ texts \in [Files -> Texts \cup {None}]
    /\ before \in [Files -> Texts \cup {None}]
    /\ pending \in [Files -> Texts \cup {None}]
    /\ dirty \subseteq Files /\ todo \subseteq Files
    /\ queue \in Seq(Files)
    /\ pc \in PCs /\ status \in Status /\ moon \in MoonTexts
    /\ tally \in [Tallied -> Nat]
    /\ dry \in BOOLEAN /\ enabled \in BOOLEAN
    /\ sel \in 0..Len(Children) /\ child \in 1..Len(Children)
    /\ g \in Nat \ {0} /\ s \in Nat \ {0}

(* A snapshot is the file as it was before the module ever touched it, or  *)
(* the sentinel of a file the pristine tree does not have: no sequence of  *)
(* passes, overlays, failed writes, crashes and rollbacks makes write_text *)
(* snapshot a text the module itself wrote (abk_common.py:28-33).          *)
SnapshotPristine ==
    \A f \in Files :
        orig[f] # None =>
            orig[f] = IF pristine[f] = None THEN Sentinel ELSE pristine[f]

(* Whatever differs from the pristine tree can be rolled back: its sidecar *)
(* exists, also after a crash between two writes (abk_common.py:28-33).    *)
ModifiedIsCovered ==
    pc # "moon_sentinel" =>
        \A f \in Files : disk[f] # pristine[f] => orig[f] # None

(* So a rollback may start at any point: what the sidecars hold is right,  *)
(* and nothing is missing from them.                                       *)
SnapshotsSound == SnapshotPristine /\ ModifiedIsCovered

(* A sidecar is written "exactly once (never overwritten)"                 *)
(* (docs/porting_policy.md:565-566): whatever fails, only the rollback     *)
(* that has restored the file takes it away.                               *)
SnapshotNeverOverwritten ==
    [][\A f \in Files : orig[f] # None /\ orig'[f] # orig[f] =>
           /\ pc = "rollback_rm" /\ orig'[f] = None
           /\ disk[f] = IF orig[f] = Sentinel THEN None ELSE orig[f]]_vars

(* abk_rollback.sh --apply that runs to its end leaves the pristine tree   *)
(* and no sidecar, whatever happened before it (abk_rollback.sh:30-62).    *)
RollbackRestores ==
    pc = "rolled" => disk = pristine /\ orig = NoTexts

(* A pass over a tree that a complete pass left changes no file, reports   *)
(* no edit (abk_common.py:44: "a second pass must report already_present") *)
(* and runs to its end: no group raises, and run_child() refuses none.     *)
SecondPassStable ==
    settled # {} =>
        /\ settled = {disk} /\ pc # "aborted"
        /\ pc \notin Resting => \A c \in DOMAIN report :
              \A i \in DOMAIN report[c] : report[c][i] \notin {"applied"}

(* An edit of the step is in the tree.                                     *)
Landed(st) == disk[st.file] # None /\ (st.new \ st.old) \cap disk[st.file] # {}
LandedBefore(st) ==
    pristine[st.file] # None /\ (st.new \ st.old) \cap pristine[st.file] # {}

(* A group reported as degraded has left no edit in the tree               *)
(* (abk_backport_engine.py:216: "A degraded group must not have written"). *)
DegradedLeavesNoTrace ==
    pc \notin {"rollback", "rollback_rm"} =>
    \A c \in DOMAIN report : \A i \in DOMAIN report[c] :
        report[c][i] \in {"blocked_by_shape", "blocked_by_missing_anchor"} =>
            \A k \in DOMAIN Children[c][i].steps :
                LET st == Children[c][i].steps[k] IN Landed(st) => LandedBefore(st)

(* A later step of some group has rewritten what the step added.           *)
Rewritten(st) ==
    \E c \in DOMAIN Children : \E i \in DOMAIN Children[c] :
        \E k \in DOMAIN Children[c][i].steps :
            LET next == Children[c][i].steps[k]
            IN /\ next.file = st.file /\ (st.new \ st.old) \cap next.old # {}
               /\ Landed(next)

(* A pass that ends reports a group as applied or already present only if  *)
(* every required edit of the group is in the tree, in all of its files,   *)
(* or a later group has rewritten it (docs/group_recipe.md:125-128: one    *)
(* payload means "the whole group is already in").                         *)
WholeGroups ==
    pc = "done" /\ ~dry =>
    \A c \in DOMAIN report : \A i \in DOMAIN report[c] :
        report[c][i] \in Landing =>
            \A k \in DOMAIN Children[c][i].steps :
                LET st == Children[c][i].steps[k]
                IN st.required /\ st.only = {} /\ st.unless = {} =>
                       Landed(st) \/ Rewritten(st)

(* When apply_steps() returns (abk_backport_engine.py:339-343), every      *)
(* required step that is always in the list is on the disk, whichever file *)
(* it edits, or a later step of the group has edited the same text again:  *)
(* no step gets lost between the staged texts, the cache and the disk.     *)
GroupsLandWhole ==
    ~dry /\ pc = "write" /\ queue = <<>> =>
        \A k \in DOMAIN Grp.steps :
            LET st == Grp.steps[k]
            IN st.required /\ st.only = {} /\ st.unless = {} =>
                   \/ disk[st.file] # None /\ st.new \subseteq disk[st.file]
                   \/ \E j \in DOMAIN Grp.steps :
                         /\ j > k /\ Grp.steps[j].file = st.file
                         /\ Grp.steps[j].old \cap st.new # {}

(* A group that reports no edit has changed no text.  run_child() looks    *)
(* for the degraded group that wrote (abk_backport_engine.py:216), and     *)
(* never meets one; it does not look for a group that wrote and says       *)
(* already_present, and there is none either.                              *)
Edited == {"applied", "partial"}
OnlyEditedChanges == pc = "judge" /\ status \notin Edited => Changed = {}

(* A child that has reported no edit so far has left the tree as it found  *)
(* it, also when it is ended by a group that raises.                       *)
QuietLeavesTree ==
    /\ pc \in {"group", "aborted"}
    /\ \A i \in DOMAIN report[child] : report[child][i] \notin Edited
    => disk = entry

(* What the report does not show is not in the tree, group by group and    *)
(* for the child as a whole (abk_backport_engine.py:197-232).              *)
ReportsEveryEdit == OnlyEditedChanges /\ QuietLeavesTree

(* A dry run of a child foretells the real one: on the same tree the real  *)
(* run reports, group by group, the statuses the dry run reported.         *)
DryRunForecasts ==
    \A p \in forecast :
        /\ ~dry /\ enabled /\ pc \notin {"rollback", "rollback_rm", "rolled"}
        /\ p.child = child /\ p.tree = entry
        => /\ pc # "aborted"
           /\ \A i \in DOMAIN report[child] : report[child][i] = p.report[i]
=============================================================================
