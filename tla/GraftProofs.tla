----------------------------- MODULE GraftProofs -----------------------------
(***************************************************************************)
(* What TLAPS proves of GraftEngine for every tree, every list of groups   *)
(* and every bound.  The types.  As long as no snapshot write is torn and  *)
(* no crash falls between a new file and its sentinel: snapshots stay      *)
(* pristine and cover every modified file, so that a completed rollback    *)
(* restores the tree.  As long as no write fails: a dry run foretells the  *)
(* real one, what a group stages is on the disk when it returns, and what  *)
(* the report does not show has not been written.                          *)
(***************************************************************************)
EXTENDS GraftEngine, TLAPS

InGroup == {"steps", "write", "snapshot", "target", "judge"}

(* The running group exists; the queue holds files with a staged text, and *)
(* a file that is being written is its head; the Makefile that is about to *)
(* be appended to exists.                                                  *)
LoopOK ==
    /\ pc \in InGroup => g <= Len(Groups)
    /\ pc \in {"snapshot", "target", "rollback_rm"} => queue # <<>>
    /\ pc \in InGroup => \A i \in 1..Len(queue) : pending[queue[i]] # None
    /\ pc = "makefile_append" => disk[MoonMakefile] # None

TypeInv == TypeOK /\ LoopOK

(* A text is neither of the two markers.                                   *)
LEMMA TextsNotNone ==
    /\ \A t \in Texts : t # None /\ t # Sentinel
    /\ None # Sentinel
  BY TreeAssumption DEF Texts, None, Sentinel

(* The running group, its steps and their files have their types.          *)
LEMMA GroupType ==
    ASSUME TypeOK, g <= Len(Groups)
    PROVE  /\ Grp \in Group
           /\ \A k \in 1..Len(Grp.steps) : Grp.steps[k] \in Step
<1>1. Children[child] \in Seq(Group)
  BY GroupsAssumption DEF TypeOK
<1>2. Grp \in Group
  BY <1>1 DEF TypeOK, Grp, Groups
<1>3. Grp.steps \in Seq(Step)
  BY <1>2 DEF Group
<1> QED
  BY <1>2, <1>3

(* ctx.read() returns a text or None.                                      *)
LEMMA ReadType ==
    ASSUME TypeOK, NEW f \in Files
    PROVE  Read(f) \in Texts \cup {None}
  BY DEF TypeOK, Read

(* replace_once() returns a text and a status that apply_steps() counts.   *)
LEMMA ReplaceOnceType ==
    ASSUME NEW text \in Texts, NEW old \in Texts, NEW new \in Texts
    PROVE  /\ ReplaceOnce(text, old, new).text \in Texts
           /\ ReplaceOnce(text, old, new).status \in Tallied
  BY DEF ReplaceOnce, Texts, Tallied

(* An exception or a missing anchor ends the group or the child.           *)
LEMMA AbandonType ==
    ASSUME TypeOK, Abandon \/ Raise
    PROVE  pc' \in {"judge", "aborted"} /\ status' \in Status
  BY DEF Abandon, Raise, TypeOK, Status

(* Nothing changes the tree the module was first run on.                   *)
LEMMA PristineKept == [Next]_vars => pristine' = pristine
<1> USE DEF hist, engine
<1>1. Pass => pristine' = pristine
  BY DEF Pass, ReportOnly, StartGroup, OmitStep, StageStep, StartWrites,
     SkipWrite, CtxWrite, Snapshot, WriteTarget, EndSteps, Judge, EndChild, Finish
<1>2. Overlay => pristine' = pristine
  BY DEF Overlay, OverlayAddressSkip, OverlayAddressSnapshot,
     OverlayAddressCopy, OverlayMoonNew, OverlayMoonSentinel,
     OverlayMoonSnapshot, OverlayMoonCopy, OverlayMoonInPlace,
     OverlayMakefileSnapshot, OverlayMakefileAppend
<1> QED
  BY <1>1, <1>2 DEF Next, vars, StartRun, SnapshotFails, WriteFails, Crash,
     StartRollback, RollbackCopy, RollbackRemove, EndRollback

(* What apply_steps() returns is a status.                                 *)
LEMMA StepsStatusType ==
    ASSUME NEW t
    PROVE  StepsStatus(t) \in Status
  BY DEF StepsStatus, Status

-----------------------------------------------------------------------------
(* Types                                                                   *)

(* The initial state has its types.                                        *)
LEMMA TypeInit == Init => TypeInv
<1> SUFFICES ASSUME Init PROVE TypeInv
  OBVIOUS
<1>1. Len(Children) \in Nat /\ Len(Children) >= 1
  BY GroupsAssumption
<1>2. sel \in 0..Len(Children) /\ child \in 1..Len(Children)
  BY <1>1 DEF Init
<1>3. NoTexts \in [Files -> Texts \cup {None}] /\ NoTally \in [Tallied -> Nat]
  BY DEF NoTexts, NoTally
<1>4. NoTexts \in [Files -> Texts \cup {None, Sentinel}]
  BY DEF NoTexts
<1>5. /\ disk \in [Files -> Texts \cup {None}]
      /\ orig \in [Files -> Texts \cup {None, Sentinel}]
      /\ texts \in [Files -> Texts \cup {None}]
      /\ before \in [Files -> Texts \cup {None}]
      /\ pending \in [Files -> Texts \cup {None}]
      /\ tally \in [Tallied -> Nat] /\ pristine \in Trees
  BY <1>3, <1>4, TreeAssumption DEF Init
<1>6. /\ dirty \subseteq Files /\ todo \subseteq Files
      /\ queue \in Seq(Files) /\ pc \in PCs /\ status \in Status
      /\ moon \in MoonTexts
      /\ g \in Nat \ {0} /\ s \in Nat \ {0}
  BY DEF Init, PCs, Resting, Status
<1>7. dry \in BOOLEAN /\ enabled \in BOOLEAN
  BY Zenon DEF Init
<1>8. LoopOK
  BY DEF Init, LoopOK, InGroup
<1> QED
  BY <1>2, <1>5, <1>6, <1>7, <1>8 DEF TypeInv, TypeOK

(* A child starts with an empty context.                                   *)
LEMMA TypeFresh ==
    ASSUME TypeInv, NEW c \in 1..Len(Children), FreshChild(c),
           UNCHANGED <<disk, orig, todo, pristine>>,
           sel' \in 0..Len(Children), dry' \in BOOLEAN, enabled' \in BOOLEAN,
           moon' \in MoonTexts
    PROVE  TypeInv'
  BY DEF FreshChild, TypeInv, TypeOK, LoopOK, PCs, Resting, Status, Tallied,
         NoTexts, NoTally, InGroup

(* One turn of apply_steps()' first loop.                                  *)
LEMMA TypeStage == TypeInv /\ StageStep => TypeInv'
<1> SUFFICES ASSUME TypeInv, StageStep PROVE TypeInv'
  OBVIOUS
<1> DEFINE st == Grp.steps[s]
           text == Staged(st.file)
           r == IF text = None THEN [text |-> None, status |-> "missing_anchor"]
                ELSE ReplaceOnce(text, st.old, st.new)
<1>1. Grp \in Group /\ st \in Step
  BY GroupType DEF TypeInv, TypeOK, LoopOK, StageStep, InGroup
<1>2. st.file \in Files /\ st.old \in Texts /\ st.new \in Texts
  BY <1>1 DEF Step
<1>3. text \in Texts \cup {None}
  BY <1>2, ReadType DEF Staged, TypeInv, TypeOK
<1>4. /\ r.status \in Tallied
      /\ r.status # "missing_anchor" => r.text \in Texts
  <2>1. CASE text = None
    BY <2>1 DEF Tallied
  <2>2. CASE text # None
    BY <2>2, <1>2, <1>3, ReplaceOnceType
  <2> QED BY <2>1, <2>2
<1>5. /\ tally' = [tally EXCEPT ![r.status] = @ + 1]
      /\ \/ /\ UNCHANGED <<pending, queue>>
            /\ Abandon \/ UNCHANGED <<pc, status>>
         \/ /\ r.status # "missing_anchor"
            /\ pending' = [pending EXCEPT ![st.file] = r.text]
            /\ queue' = IF pending[st.file] = None
                        THEN Append(queue, st.file) ELSE queue
            /\ UNCHANGED <<pc, status>>
      /\ s' = s + 1
      /\ UNCHANGED <<disk, orig, texts, dirty, before, sel, dry, enabled, moon,
                     child, g, todo, pristine>>
      /\ pc = "steps" /\ g <= Len(Groups)
  BY DEF StageStep, tree, ctx, call, hist, TypeInv, LoopOK, InGroup
<1> HIDE DEF st, text, r
<1>6. tally' \in [Tallied -> Nat]
  BY <1>4, <1>5 DEF TypeInv, TypeOK
<1>7. pc' \in {"steps", "judge", "aborted"} /\ status' \in Status
  BY <1>5, AbandonType DEF TypeInv, TypeOK
<1>8. CASE UNCHANGED <<pending, queue>>
  <2>1. TypeOK'
    BY <1>5, <1>6, <1>7, <1>8 DEF TypeInv, TypeOK, PCs, Resting
  <2>2. g' <= Len(Groups') /\ pc' \notin {"snapshot", "target", "rollback_rm", "makefile_append"}
    BY <1>5, <1>7 DEF Groups
  <2>3. \A i \in 1..Len(queue') : pending'[queue'[i]] # None
    BY <1>5, <1>8 DEF TypeInv, LoopOK, InGroup
  <2> QED
    BY <2>1, <2>2, <2>3 DEF TypeInv, LoopOK
<1>9. CASE /\ r.status # "missing_anchor"
           /\ pending' = [pending EXCEPT ![st.file] = r.text]
           /\ queue' = IF pending[st.file] = None
                       THEN Append(queue, st.file) ELSE queue
  <2>1. r.text \in Texts /\ r.text # None
    BY <1>4, <1>9, TextsNotNone
  <2>2. pending' \in [Files -> Texts \cup {None}] /\ queue' \in Seq(Files)
    BY <2>1, <1>2, <1>9 DEF TypeInv, TypeOK
  <2>3. \A i \in 1..Len(queue') : pending'[queue'[i]] # None
    BY <2>1, <1>2, <1>5, <1>9 DEF TypeInv, TypeOK, LoopOK, InGroup
  <2> QED
    BY <2>2, <2>3, <1>5, <1>6, <1>7 DEF TypeInv, TypeOK, LoopOK, InGroup, PCs,
       Resting, Groups
<1> QED
  BY <1>5, <1>8, <1>9

(* run_child() and apply_steps(), without the loop's body.                 *)
LEMMA TypePass ==
    ASSUME TypeInv, Pass
    PROVE  TypeInv'
<1> USE DEF TypeInv, TypeOK, LoopOK, InGroup, PCs, Resting, Groups, tree, ctx,
        call, hist
<1>1. CASE ReportOnly
  BY <1>1 DEF ReportOnly
<1>2. CASE StartGroup
  <2>1. pc' \in {"steps", "judge"} /\ status' \in Status
    BY <1>2 DEF StartGroup
  <2>2. pending' = NoTexts /\ NoTexts \in [Files -> Texts \cup {None}]
    BY <1>2 DEF StartGroup, NoTexts
  <2>3. tally' \in [Tallied -> Nat]
    BY <1>2 DEF StartGroup, NoTally
  <2>4. queue' = <<>> /\ s' = 1
    BY <1>2 DEF StartGroup
  <2> QED
    BY <2>1, <2>2, <2>3, <2>4, <1>2 DEF StartGroup
<1>3. CASE StageStep
  BY <1>3, TypeStage
<1>4. CASE StartWrites \/ OmitStep
  BY <1>4 DEF StartWrites, OmitStep
<1>5. CASE SkipWrite
  BY <1>5 DEF SkipWrite
<1>6. CASE CtxWrite
  <2>1. Here \in Files
    BY <1>6 DEF CtxWrite, Here
  <2>2. texts' \in [Files -> Texts \cup {None}] /\ dirty' \subseteq Files
    BY <2>1, <1>6 DEF CtxWrite
  <2>3. (queue' = queue \/ queue' = Tail(queue)) /\ queue # <<>>
    BY <1>6, Zenon DEF CtxWrite
  <2>4. queue' \in Seq(Files)
        /\ \A i \in 1..Len(queue') : pending[queue'[i]] # None
    <3>1. pc = "write"
      BY <1>6 DEF CtxWrite
    <3>2. CASE queue' = queue
      BY <3>1, <3>2
    <3>3. CASE queue' = Tail(queue)
      BY <2>3, <3>1, <3>3
    <3> QED
      BY <2>3, <3>2, <3>3
  <2>5. (pc' = "snapshot" /\ queue' = queue) \/ pc' = "write"
    BY <1>6 DEF CtxWrite
  <2> QED
    BY <2>2, <2>4, <2>5, <1>6 DEF CtxWrite
<1>7. CASE Snapshot
  BY <1>7 DEF Snapshot, SnapshotOf, Here
<1>8. CASE WriteTarget
  BY <1>8 DEF WriteTarget, Here
<1>9. CASE EndSteps
  BY <1>9, StepsStatusType DEF EndSteps
<1>10. CASE Judge
  BY <1>10 DEF Judge
<1>11. CASE EndChild
  <2>1. CASE child < LastChild
    <3>1. child + 1 \in 1..Len(Children)
      BY <2>1, GroupsAssumption DEF LastChild
    <3>2. FreshChild(child + 1)
      BY <2>1, <1>11 DEF EndChild
    <3>3. /\ UNCHANGED <<disk, orig, todo, pristine>>
          /\ UNCHANGED <<sel, dry, enabled, moon>>
      BY <1>11 DEF EndChild
    <3> QED
      BY <3>1, <3>2, <3>3, TypeFresh
  <2>2. CASE ~(child < LastChild)
    BY <2>2, <1>11 DEF EndChild, AfterChildren
  <2> QED
    BY <2>1, <2>2
<1>12. CASE Finish
  BY <1>12 DEF Finish
<1> QED
  BY <1>1, <1>2, <1>3, <1>4, <1>5, <1>6, <1>7, <1>8, <1>9, <1>10, <1>11, <1>12
     DEF Pass

(* The overlays of stable_backport.sh.                                     *)
LEMMA TypeOverlay ==
    ASSUME TypeInv, Overlay
    PROVE  TypeInv'
<1> USE DEF TypeInv, TypeOK, LoopOK, InGroup, PCs, Resting, Groups
<1>1. UNCHANGED <<texts, dirty, before, sel, dry, enabled, moon, child, g, s,
                  pending, queue, tally, status, todo, pristine>>
  BY DEF Overlay, OverlayAddressSkip, OverlayAddressSnapshot,
     OverlayAddressCopy, OverlayMoonNew, OverlayMoonSentinel,
     OverlayMoonSnapshot, OverlayMoonCopy, OverlayMoonInPlace,
     OverlayMakefileSnapshot, OverlayMakefileAppend, engine, ctx, call, hist
<1>2. pc' \in {"moon", "finish", "address_cp", "moon_sentinel", "makefile",
               "moon_cp", "makefile_append"}
  BY DEF Overlay, OverlayAddressSkip, OverlayAddressSnapshot,
     OverlayAddressCopy, OverlayMoonNew, OverlayMoonSentinel,
     OverlayMoonSnapshot, OverlayMoonCopy, OverlayMoonInPlace,
     OverlayMakefileSnapshot, OverlayMakefileAppend, AfterAddress
<1>3. orig' \in [Files -> Texts \cup {None, Sentinel}]
  BY OverlayAssumption DEF Overlay, OverlayAddressSkip, OverlayAddressSnapshot,
     OverlayAddressCopy, OverlayMoonNew, OverlayMoonSentinel,
     OverlayMoonSnapshot, OverlayMoonCopy, OverlayMoonInPlace,
     OverlayMakefileSnapshot, OverlayMakefileAppend, SnapshotOf, tree
<1>4. disk' \in [Files -> Texts \cup {None}]
  <2>1. CASE OverlayMakefileAppend
    <3>1. disk[MoonMakefile] \in Texts /\ {MoonMarker} \in Texts
      BY <2>1, OverlayAssumption DEF OverlayMakefileAppend, Texts
    <3>2. disk[MoonMakefile] \cup {MoonMarker} \in Texts
      BY <3>1 DEF Texts
    <3> QED
      BY <2>1, <3>2 DEF OverlayMakefileAppend
  <2>2. CASE ~OverlayMakefileAppend
    BY <2>2, OverlayAssumption DEF Overlay, OverlayAddressSkip,
       OverlayAddressSnapshot, OverlayAddressCopy, OverlayMoonNew,
       OverlayMoonSentinel, OverlayMoonSnapshot, OverlayMoonCopy,
       OverlayMoonInPlace, OverlayMakefileSnapshot, tree
  <2> QED
    BY <2>1, <2>2
<1>5. pc' = "makefile_append" => disk'[MoonMakefile] # None
  BY DEF Overlay, OverlayAddressSkip, OverlayAddressSnapshot,
     OverlayAddressCopy, OverlayMoonNew, OverlayMoonSentinel,
     OverlayMoonSnapshot, OverlayMoonCopy, OverlayMoonInPlace,
     OverlayMakefileSnapshot, OverlayMakefileAppend, AfterAddress
<1> QED
  BY <1>1, <1>2, <1>3, <1>4, <1>5

(* Starts, faults, the rollback.                                           *)
LEMMA TypeNext == TypeInv /\ [Next]_vars => TypeInv'
<1> SUFFICES ASSUME TypeInv, [Next]_vars PROVE TypeInv'
  OBVIOUS
<1> USE DEF TypeInv, TypeOK, LoopOK, InGroup, PCs, Resting, Groups
<1>1. CASE Pass
  BY <1>1, TypePass
<1>2. CASE Overlay
  BY <1>2, TypeOverlay
<1>3. ASSUME NEW c \in Targets, NEW d \in BOOLEAN, NEW v \in MoonTexts,
             NEW ok \in Families, StartRun(c, d, v, ok)
      PROVE  TypeInv'
  <2>1. (IF c = 0 THEN 1 ELSE c) \in 1..Len(Children)
    BY GroupsAssumption, BoundAssumption
  <2>2. /\ FreshChild(IF c = 0 THEN 1 ELSE c)
        /\ UNCHANGED <<disk, orig, todo, pristine>>
        /\ sel' = c /\ dry' = d /\ moon' = v /\ enabled' = ok
    BY <1>3 DEF StartRun, tree
  <2>3. enabled' \in BOOLEAN
    BY <2>2, BoundAssumption
  <2> QED
    BY <2>1, <2>2, <2>3, <1>3, TypeFresh, BoundAssumption
<1>4. CASE SnapshotFails
  BY <1>4, AbandonType DEF SnapshotFails, Torn, Texts, Here, ctx, call, hist
<1>5. CASE WriteFails
  BY <1>5, AbandonType DEF WriteFails, Torn, Texts, Here, ctx, call, hist
<1>6. CASE Crash
  BY <1>6 DEF Crash, Torn, Texts, ctx, call, hist
<1>7. CASE StartRollback
  BY <1>7 DEF StartRollback, tree, ctx
<1>8. ASSUME NEW f \in Files, RollbackCopy(f) PROVE TypeInv'
  BY <1>8 DEF RollbackCopy, Restored, ctx, call, hist
<1>9. CASE RollbackRemove
  <2>1. /\ orig' \in [Files -> Texts \cup {None, Sentinel}]
        /\ todo' \subseteq Files
    BY <1>9 DEF RollbackRemove
  <2>2. queue' \in Seq(Files) /\ pc' = "rollback"
    BY <1>9 DEF RollbackRemove
  <2> QED
    BY <1>9, <2>1, <2>2 DEF RollbackRemove, ctx, call, hist
<1>10. CASE EndRollback
  BY <1>10 DEF EndRollback, tree, engine, ctx, call, hist
<1>11. CASE UNCHANGED vars
  BY <1>11 DEF vars
<1> QED
  BY <1>1, <1>2, <1>3, <1>4, <1>5, <1>6, <1>7, <1>8, <1>9, <1>10, <1>11
     DEF Next

(* The engine, the overlays and the rollback keep texts in the tree, in    *)
(* the sidecars and in the cache, whatever fails.                          *)
THEOREM TypeCorrect == Spec => []TypeOK
<1>1. TypeInv => TypeOK
  BY DEF TypeInv
<1> QED
  BY <1>1, TypeInit, TypeNext, PTL DEF Spec

-----------------------------------------------------------------------------
(* Snapshots                                                               *)

(* The two faults that leave a file without its snapshot do not happen.    *)
NoTear == "snapshot" \notin Faults /\ "newfile" \notin Faults

InPass == {"group"} \cup InGroup

(* A file that differs is covered, up to the new file whose sentinel is    *)
(* written next; a file that is gone was never there.                      *)
CoveredOK ==
    /\ \A f \in Files : disk[f] # pristine[f] =>
           orig[f] # None \/ (pc = "moon_sentinel" /\ f = MoonC)
    /\ \A f \in Files : disk[f] = None => pristine[f] = None

(* Who is about to write a file has snapshotted it.                        *)
WriterOK ==
    /\ pc = "target" => orig[Here] # None
    /\ pc = "address_cp" => orig[AddressC] # None
    /\ pc = "moon_cp" => orig[MoonC] # None
    /\ pc = "makefile_append" => orig[MoonMakefile] # None
    /\ pc = "moon_sentinel" => pristine[MoonC] = None /\ disk[MoonC] # None

(* Only files that exist are staged or cached.                             *)
StagedOK ==
    pc \in InPass => \A f \in Files :
        pending[f] # None \/ texts[f] # None => disk[f] # None

(* The rollback knows every snapshot, and removes one only after restoring *)
(* its file.                                                               *)
RollbackOK ==
    /\ pc \in {"rollback", "rollback_rm"} =>
           \A f \in Files : orig[f] # None <=> f \in todo
    /\ pc = "rollback_rm" => disk[Here] = pristine[Here]
    /\ pc = "rolled" =>
           \A f \in Files : orig[f] = None /\ disk[f] = pristine[f]

SafeInv ==
    /\ TypeInv /\ SnapshotPristine
    /\ CoveredOK /\ WriterOK /\ StagedOK /\ RollbackOK

(* A pristine tree without sidecars is safe.                               *)
LEMMA SafeInit == Init => SafeInv
<1> SUFFICES ASSUME Init PROVE SafeInv
  OBVIOUS
<1>1. pc = "idle" /\ disk = pristine /\ \A f \in Files : orig[f] = None
  BY DEF Init, NoTexts
<1> QED
  BY <1>1, TypeInit DEF SafeInv, SnapshotPristine, CoveredOK, WriterOK,
     StagedOK, RollbackOK, InPass, InGroup

(* write_text() and the overlays snapshot a file that exists: afterwards   *)
(* it has a snapshot, and every snapshot is still pristine.                *)
LEMMA SnapshotOfExisting ==
    ASSUME SafeInv, NEW f \in Files, disk[f] # None, pc # "moon_sentinel",
           orig' = SnapshotOf(f), pristine' = pristine
    PROVE  /\ orig'[f] # None
           /\ \A x \in Files : orig[x] # None => orig'[x] = orig[x]
           /\ \A x \in Files : orig'[x] # None =>
                  orig'[x] = IF pristine[x] = None THEN Sentinel ELSE pristine[x]
  BY TextsNotNone, TreeAssumption DEF SafeInv, TypeInv, TypeOK, CoveredOK, SnapshotPristine,
     SnapshotOf

(* The file being written is a file of the tree.                           *)
LEMMA HereType ==
    ASSUME TypeInv, queue # <<>>
    PROVE  Here \in Files
  BY DEF TypeInv, TypeOK, Here

(* A step that leaves the tree and the sidecars alone, and that does not   *)
(* enter a place with an obligation of its own.                            *)
LEMMA SafeQuiet ==
    ASSUME SafeInv, TypeInv', UNCHANGED <<disk, orig, pristine>>, StagedOK', RollbackOK',
           pc # "moon_sentinel",
           pc' \notin {"target", "address_cp", "moon_cp", "makefile_append",
                       "moon_sentinel"}
    PROVE  SafeInv'
  BY DEF SafeInv, SnapshotPristine, CoveredOK, WriterOK

(* A pass writes a file only after its snapshot.                           *)
LEMMA SafePass ==
    ASSUME SafeInv, Pass
    PROVE  SafeInv'
<1> USE DEF InPass, InGroup
<1>1. TypeInv /\ TypeInv' /\ pristine' = pristine
  BY TypePass, PristineKept DEF SafeInv, Next
<1>2. CASE ReportOnly
  <2>1. StagedOK' /\ RollbackOK'
    BY <1>2 DEF ReportOnly, SafeInv, StagedOK, RollbackOK, ctx, tree
  <2> QED
    BY <1>1, <1>2, <2>1, SafeQuiet DEF ReportOnly, tree
<1>3. CASE StartGroup
  <2>1. StagedOK' /\ RollbackOK'
    BY <1>3 DEF StartGroup, SafeInv, StagedOK, RollbackOK, tree, NoTexts
  <2> QED
    BY <1>1, <1>3, <2>1, SafeQuiet DEF StartGroup, tree
<1>4. CASE StageStep
  <2> DEFINE st == Grp.steps[s]
             text == Staged(st.file)
             r == IF text = None THEN [text |-> None, status |-> "missing_anchor"]
                  ELSE ReplaceOnce(text, st.old, st.new)
  <2>1. /\ UNCHANGED <<disk, orig, texts>>
        /\ pc = "steps" /\ pc' \in {"steps", "judge", "aborted"}
        /\ \/ UNCHANGED pending
           \/ /\ pending' = [pending EXCEPT ![st.file] = r.text]
              /\ r.status # "missing_anchor"
    BY <1>1, <1>4, AbandonType DEF StageStep, tree, ctx, TypeInv
  <2>2. r.status # "missing_anchor" => text # None
    OBVIOUS
  <2> HIDE DEF r
  <2>3. \A f \in Files : pending'[f] # None => pending[f] # None \/ (f = st.file /\ text # None)
    BY <2>1, <2>2, <1>1 DEF TypeInv, TypeOK
  <2>4. StagedOK'
    BY <2>1, <2>3 DEF SafeInv, StagedOK, Staged, Read
  <2>5. RollbackOK'
    BY <2>1 DEF RollbackOK
  <2> QED
    BY <1>1, <2>1, <2>4, <2>5, SafeQuiet
<1>5. CASE OmitStep \/ StartWrites \/ SkipWrite \/ EndSteps
  <2>1. StagedOK' /\ RollbackOK'
    BY <1>5 DEF OmitStep, StartWrites, SkipWrite, EndSteps, SafeInv, StagedOK, RollbackOK,
       ctx, tree
  <2> QED
    BY <1>1, <1>5, <2>1, SafeQuiet DEF OmitStep, StartWrites, SkipWrite, EndSteps, tree
<1>6. CASE CtxWrite
  <2>1. Here \in Files /\ pending[Here] # None
    BY <1>1, <1>6 DEF CtxWrite, TypeInv, TypeOK, LoopOK, Here
  <2>2. pc = "write" /\ pc' \in {"write", "snapshot"}
    BY <1>6 DEF CtxWrite
  <2>3. StagedOK'
    BY <2>1, <2>2, <1>1, <1>6 DEF CtxWrite, SafeInv, StagedOK, tree, TypeInv, TypeOK
  <2>4. RollbackOK'
    BY <2>2 DEF RollbackOK
  <2> QED
    BY <1>1, <1>6, <2>2, <2>3, <2>4, SafeQuiet DEF CtxWrite, tree
<1>7. CASE Snapshot
  <2>1. Here \in Files /\ disk[Here] # None
    BY <1>1, <1>7 DEF Snapshot, SafeInv, StagedOK, TypeInv, TypeOK, LoopOK, Here
  <2>2. /\ orig'[Here] # None
        /\ \A x \in Files : orig[x] # None => orig'[x] = orig[x]
        /\ SnapshotPristine'
    BY <2>1, <1>1, <1>7, SnapshotOfExisting DEF Snapshot, SnapshotPristine
  <2> QED
    BY <1>1, <1>7, <2>1, <2>2
       DEF Snapshot, SafeInv, CoveredOK, WriterOK, StagedOK, RollbackOK, ctx, Here
<1>8. CASE WriteTarget
  <2>1. Here \in Files /\ pending[Here] # None /\ orig[Here] # None
    BY <1>1, <1>8 DEF WriteTarget, SafeInv, WriterOK, TypeInv, TypeOK, LoopOK,
       Here
  <2>2. /\ orig' = orig /\ pending' = pending /\ texts' = texts
        /\ pc = "target" /\ pc' = "write"
        /\ disk' = [disk EXCEPT ![Here] = pending[Here]]
    BY <1>8 DEF WriteTarget
  <2> QED
    BY <1>1, <2>1, <2>2 DEF SafeInv, SnapshotPristine, CoveredOK, WriterOK,
       StagedOK, RollbackOK, TypeInv, TypeOK
<1>9. CASE Judge
  <2>1. StagedOK' /\ RollbackOK'
    BY <1>9 DEF Judge, SafeInv, StagedOK, RollbackOK, ctx, tree
  <2> QED
    BY <1>1, <1>9, <2>1, SafeQuiet DEF Judge, tree
<1>10. CASE EndChild
  <2>1. /\ UNCHANGED <<disk, orig>> /\ pc = "group"
        /\ pc' \in {"group", "finish", "address", "moon"}
        /\ pc' = "group" => texts' = NoTexts /\ pending' = NoTexts
    BY <1>10 DEF EndChild, FreshChild, AfterChildren, tree
  <2>2. StagedOK' /\ RollbackOK'
    BY <2>1 DEF StagedOK, RollbackOK, NoTexts
  <2> QED
    BY <1>1, <2>1, <2>2, SafeQuiet
<1>11. CASE Finish
  <2>1. StagedOK' /\ RollbackOK'
    BY <1>11 DEF Finish, StagedOK, RollbackOK
  <2> QED
    BY <1>1, <1>11, <2>1, SafeQuiet DEF Finish, tree
<1> QED
  BY <1>2, <1>3, <1>4, <1>5, <1>6, <1>7, <1>8, <1>9, <1>10, <1>11 DEF Pass

(* So do the overlays; the new file is covered one step later.             *)
LEMMA SafeOverlay ==
    ASSUME SafeInv, Overlay
    PROVE  SafeInv'
<1> USE DEF InPass, InGroup
<1>1. TypeInv /\ TypeInv' /\ pristine' = pristine
  BY TypeOverlay, PristineKept DEF SafeInv, Next
<1>2. /\ {AddressC, MoonC, MoonMakefile} \subseteq Files /\ MoonMakefile # MoonC
      /\ AddressText # None /\ moon # None
  BY <1>1, TextsNotNone, OverlayAssumption DEF TypeInv, TypeOK
<1>3. CASE OverlayAddressSkip \/ OverlayMoonInPlace
  <2>1. /\ UNCHANGED <<disk, orig>> /\ pc # "moon_sentinel"
        /\ pc' \in {"moon", "finish", "makefile"}
    BY <1>3 DEF OverlayAddressSkip, OverlayMoonInPlace, AfterAddress, tree
  <2>2. StagedOK' /\ RollbackOK'
    BY <2>1 DEF StagedOK, RollbackOK
  <2> QED
    BY <1>1, <2>1, <2>2, SafeQuiet
<1>4. ASSUME NEW f \in {AddressC, MoonC, MoonMakefile}, disk[f] # None,
             pc # "moon_sentinel", orig' = SnapshotOf(f), disk' = disk,
             \/ pc' = "address_cp" /\ f = AddressC
             \/ pc' = "moon_cp" /\ f = MoonC
             \/ pc' = "makefile_append" /\ f = MoonMakefile
      PROVE  SafeInv'
  <2>1. /\ orig'[f] # None
        /\ \A x \in Files : orig[x] # None => orig'[x] = orig[x]
        /\ SnapshotPristine'
    BY <1>1, <1>2, <1>4, SnapshotOfExisting DEF SnapshotPristine
  <2> QED
    BY <1>1, <1>4, <2>1
       DEF SafeInv, CoveredOK, WriterOK, StagedOK, RollbackOK
<1>5. CASE OverlayAddressSnapshot
  BY <1>4, <1>5 DEF OverlayAddressSnapshot
<1>6. CASE OverlayMoonSnapshot
  BY <1>4, <1>6 DEF OverlayMoonSnapshot
<1>7. CASE OverlayMakefileSnapshot
  <2>1. CASE MoonMarker \in disk[MoonMakefile]
    <3>1. /\ UNCHANGED <<disk, orig>> /\ pc = "makefile" /\ pc' = "finish"
      BY <1>7, <2>1 DEF OverlayMakefileSnapshot
    <3>2. StagedOK' /\ RollbackOK'
      BY <3>1 DEF StagedOK, RollbackOK
    <3> QED
      BY <1>1, <3>1, <3>2, SafeQuiet
  <2>2. CASE MoonMarker \notin disk[MoonMakefile]
    BY <1>4, <1>7, <2>2 DEF OverlayMakefileSnapshot
  <2> QED
    BY <2>1, <2>2
<1>8. ASSUME NEW f \in Files, NEW t, t # None, orig[f] # None, orig' = orig,
             disk' = [disk EXCEPT ![f] = t], pc # "moon_sentinel",
             pc' \in {"moon", "makefile", "finish"}
      PROVE  SafeInv'
  BY <1>1, <1>8 DEF SafeInv, SnapshotPristine, CoveredOK, WriterOK, StagedOK,
     RollbackOK, TypeInv, TypeOK
<1>9. CASE OverlayAddressCopy
  BY <1>2, <1>8, <1>9 DEF OverlayAddressCopy, AfterAddress, SafeInv, WriterOK
<1>10. CASE OverlayMoonCopy
  BY <1>2, <1>8, <1>10 DEF OverlayMoonCopy, SafeInv, WriterOK
<1>11. CASE OverlayMakefileAppend
  <2>1. disk[MoonMakefile] \cup {MoonMarker} \in Texts
    <3>1. disk[MoonMakefile] \in Texts /\ {MoonMarker} \in Texts
      BY <1>1, <1>11, OverlayAssumption DEF OverlayMakefileAppend, TypeInv,
         TypeOK, LoopOK, Texts
    <3> QED
      BY <3>1 DEF Texts
  <2> QED
    BY <2>1, <1>2, <1>8, <1>11, TextsNotNone DEF OverlayMakefileAppend, SafeInv,
       WriterOK
<1>12. CASE OverlayMoonNew
  <2>1. /\ pc = "moon" /\ pc' = "moon_sentinel" /\ orig' = orig
        /\ disk[MoonC] = None /\ disk' = [disk EXCEPT ![MoonC] = moon]
    BY <1>12 DEF OverlayMoonNew
  <2>2. pristine[MoonC] = None
    BY <2>1, <1>2 DEF SafeInv, CoveredOK
  <2> QED
    BY <1>1, <1>2, <2>1, <2>2 DEF SafeInv, SnapshotPristine, CoveredOK, WriterOK,
       StagedOK, RollbackOK, TypeInv, TypeOK
<1>13. CASE OverlayMoonSentinel
  <2>1. /\ pc = "moon_sentinel" /\ pc' = "makefile" /\ disk' = disk
        /\ orig' = [orig EXCEPT ![MoonC] = Sentinel]
    BY <1>13 DEF OverlayMoonSentinel
  <2>2. pristine[MoonC] = None /\ disk[MoonC] # None
    BY <2>1 DEF SafeInv, WriterOK
  <2>3. Sentinel # None
    BY TextsNotNone
  <2> QED
    BY <1>1, <1>2, <2>1, <2>2, <2>3 DEF SafeInv, SnapshotPristine, CoveredOK,
       WriterOK, StagedOK, RollbackOK, TypeInv, TypeOK
<1> QED
  BY <1>3, <1>5, <1>6, <1>7, <1>9, <1>10, <1>11, <1>12, <1>13 DEF Overlay

(* Every step keeps the invariant when no snapshot is torn.                *)
LEMMA SafeNext == ASSUME NoTear PROVE SafeInv /\ [Next]_vars => SafeInv'
<1> SUFFICES ASSUME SafeInv, [Next]_vars PROVE SafeInv'
  OBVIOUS
<1> USE DEF InPass, InGroup
<1>1. TypeInv /\ TypeInv' /\ pristine' = pristine
  BY TypeNext, PristineKept DEF SafeInv
<1>2. CASE Pass
  BY <1>2, SafePass
<1>3. CASE Overlay
  BY <1>3, SafeOverlay
<1>4. ASSUME NEW c \in Targets, NEW d \in BOOLEAN, NEW v \in MoonTexts,
             NEW ok \in Families, StartRun(c, d, v, ok)
      PROVE  SafeInv'
  <2>1. /\ UNCHANGED <<disk, orig>> /\ pc # "moon_sentinel" /\ pc' = "group"
        /\ texts' = NoTexts /\ pending' = NoTexts
    BY <1>4 DEF StartRun, FreshChild, tree, Resting
  <2>2. StagedOK' /\ RollbackOK'
    BY <2>1 DEF StagedOK, RollbackOK, NoTexts
  <2> QED
    BY <1>1, <2>1, <2>2, SafeQuiet
<1>5. CASE SnapshotFails
  BY <1>5 DEF SnapshotFails, Fault, NoTear
<1>6. CASE WriteFails
  <2>1. /\ orig' = orig /\ pending' = pending /\ texts' = texts
        /\ pc = "target" /\ pc' \in {"judge", "aborted"}
        /\ \/ disk' = disk
           \/ disk' = [disk EXCEPT ![Here] = Torn]
    BY <1>1, <1>6, AbandonType DEF WriteFails, ctx, TypeInv
  <2>2. Here \in Files /\ orig[Here] # None
    BY <2>1, <1>1, HereType DEF SafeInv, WriterOK, TypeInv, LoopOK
  <2>3. Torn # None
    BY TextsNotNone DEF Torn, Texts
  <2> QED
    BY <1>1, <2>1, <2>2, <2>3 DEF SafeInv, SnapshotPristine, CoveredOK, WriterOK,
       StagedOK, RollbackOK, TypeInv, TypeOK
<1>7. CASE Crash
  <2>1. pc # "moon_sentinel" /\ pc' = "idle" /\ orig' = orig
    BY <1>7 DEF Crash, Fault, NoTear
  <2>2. \A f \in FileInFlight : f \in Files => orig[f] # None
    <3>1. CASE pc = "target"
      BY <3>1 DEF FileInFlight, SafeInv, WriterOK
    <3>2. CASE pc = "address_cp"
      BY <3>2 DEF FileInFlight, SafeInv, WriterOK
    <3>3. CASE pc = "moon_cp"
      BY <3>3 DEF FileInFlight, SafeInv, WriterOK
    <3>4. CASE pc = "rollback"
      <4>1. FileInFlight \subseteq todo
        BY <3>4 DEF FileInFlight
      <4> QED
        BY <3>4, <4>1 DEF SafeInv, RollbackOK
    <3>5. CASE pc \notin {"target", "address_cp", "moon_cp", "rollback"}
      BY <3>5 DEF FileInFlight
    <3> QED
      BY <3>1, <3>2, <3>3, <3>4, <3>5
  <2>3. disk' = disk \/ \E f \in FileInFlight : disk' = [disk EXCEPT ![f] = Torn]
    BY <1>7 DEF Crash
  <2>4. Torn # None
    BY TextsNotNone DEF Torn, Texts
  <2> QED
    BY <1>1, <2>1, <2>2, <2>3, <2>4 DEF SafeInv, SnapshotPristine, CoveredOK,
       WriterOK, StagedOK, RollbackOK, TypeInv, TypeOK
<1>8. CASE StartRollback
  <2>1. /\ UNCHANGED <<disk, orig>> /\ pc # "moon_sentinel" /\ pc' = "rollback"
        /\ todo' = {f \in Files : orig[f] # None}
    BY <1>8 DEF StartRollback, tree, Resting
  <2>2. StagedOK' /\ RollbackOK'
    BY <2>1 DEF StagedOK, RollbackOK
  <2> QED
    BY <1>1, <2>1, <2>2, SafeQuiet
<1>9. ASSUME NEW f \in Files, RollbackCopy(f) PROVE SafeInv'
  <2>1. /\ pc = "rollback" /\ pc' = "rollback_rm" /\ f \in todo
        /\ orig' = orig /\ todo' = todo /\ queue' = <<f>>
        /\ disk' = [disk EXCEPT ![f] = Restored(f)]
    BY <1>9 DEF RollbackCopy
  <2>2. orig[f] # None /\ Restored(f) = pristine[f]
    BY <2>1, TextsNotNone, TreeAssumption
       DEF SafeInv, TypeInv, TypeOK, RollbackOK, SnapshotPristine, Restored
  <2>3. Here' = f
    BY <2>1 DEF Here
  <2> QED
    BY <1>1, <2>1, <2>2, <2>3 DEF SafeInv, SnapshotPristine, CoveredOK, WriterOK,
       StagedOK, RollbackOK, TypeInv, TypeOK
<1>10. CASE RollbackRemove
  <2>1. /\ pc = "rollback_rm" /\ pc' = "rollback" /\ disk' = disk
        /\ orig' = [orig EXCEPT ![Here] = None] /\ todo' = todo \ {Here}
    BY <1>10 DEF RollbackRemove
  <2>2. Here \in Files /\ disk[Here] = pristine[Here]
    BY <2>1, <1>1, HereType DEF SafeInv, RollbackOK, TypeInv, LoopOK
  <2> QED
    BY <1>1, <2>1, <2>2 DEF SafeInv, SnapshotPristine, CoveredOK, WriterOK,
       StagedOK, RollbackOK, TypeInv, TypeOK
<1>11. CASE EndRollback
  <2>1. /\ pc = "rollback" /\ pc' = "rolled" /\ todo = {}
        /\ UNCHANGED <<disk, orig>>
    BY <1>11 DEF EndRollback, tree
  <2>2. \A f \in Files : orig[f] = None /\ disk[f] = pristine[f]
    BY <2>1 DEF SafeInv, RollbackOK, CoveredOK
  <2>3. StagedOK' /\ RollbackOK'
    BY <1>1, <2>1, <2>2 DEF StagedOK, RollbackOK
  <2> QED
    BY <1>1, <2>1, <2>3, SafeQuiet
<1>12. CASE UNCHANGED vars
  BY <1>1, <1>12 DEF vars, SafeInv, SnapshotPristine, CoveredOK, WriterOK, StagedOK,
     RollbackOK, Here
<1> QED
  BY <1>2, <1>3, <1>4, <1>5, <1>6, <1>7, <1>8, <1>9, <1>10, <1>11, <1>12
     DEF Next

(* No sequence of passes, overlays, failed writes, crashes and rollbacks   *)
(* makes a snapshot of a text the module wrote, and every file that        *)
(* differs from the pristine tree has a snapshot at every point where the  *)
(* process may die, whatever the groups are (abk_common.py:28-33).         *)
THEOREM SnapshotsStaySound == ASSUME NoTear PROVE Spec => []SnapshotsSound
<1>1. SafeInv => SnapshotsSound
  BY DEF SafeInv, CoveredOK, ModifiedIsCovered, SnapshotsSound
<1> QED
  BY <1>1, SafeInit, SafeNext, PTL DEF Spec

(* A completed abk_rollback.sh --apply leaves the pristine tree and no     *)
(* sidecar, after any sequence of passes and crashes before it.            *)
THEOREM RollbackRestoresTree == ASSUME NoTear PROVE Spec => []RollbackRestores
<1>1. SafeInv => RollbackRestores
  <2> SUFFICES ASSUME SafeInv, pc = "rolled" PROVE disk = pristine /\ orig = NoTexts
    BY DEF RollbackRestores
  <2>1. \A f \in Files : orig[f] = None /\ disk[f] = pristine[f]
    BY DEF SafeInv, RollbackOK
  <2> QED
    BY <2>1, TreeAssumption DEF SafeInv, TypeInv, TypeOK, NoTexts
<1> QED
  BY <1>1, SafeInit, SafeNext, PTL DEF Spec

(* A sidecar is written once; only the rollback that has restored its file *)
(* takes it away (docs/porting_policy.md:565-566) whatever the groups are. *)
THEOREM SnapshotsWrittenOnce ==
    ASSUME NoTear PROVE Spec => SnapshotNeverOverwritten
<1> DEFINE Kept(f) == orig[f] # None /\ orig'[f] # orig[f] =>
               /\ pc = "rollback_rm" /\ orig'[f] = None
               /\ disk[f] = IF orig[f] = Sentinel THEN None ELSE orig[f]
           Once == \A f \in Files : Kept(f)
<1>1. ASSUME SafeInv, [Next]_vars PROVE [Once]_vars
  <2> SUFFICES ASSUME NEW f \in Files, orig[f] # None, orig'[f] # orig[f]
               PROVE  /\ pc = "rollback_rm" /\ orig'[f] = None
                      /\ disk[f] = IF orig[f] = Sentinel THEN None ELSE orig[f]
    OBVIOUS
  <2>1. CASE \E x \in Files \cup {Here} : orig' = SnapshotOf(x)
    BY <1>1, <2>1 DEF SnapshotOf, SafeInv, TypeInv, TypeOK
  <2>2. CASE OverlayMoonSentinel
    <3>1. pristine[MoonC] = None /\ orig' = [orig EXCEPT ![MoonC] = Sentinel]
      BY <1>1, <2>2 DEF OverlayMoonSentinel, SafeInv, WriterOK
    <3> QED
      BY <1>1, <3>1 DEF SafeInv, SnapshotPristine, TypeInv, TypeOK
  <2>3. CASE RollbackRemove
    <3>1. pc = "rollback_rm" /\ orig' = [orig EXCEPT ![Here] = None]
      BY <2>3 DEF RollbackRemove
    <3>2. f = Here /\ orig'[f] = None
      BY <1>1, <3>1 DEF SafeInv, TypeInv, TypeOK
    <3>3. disk[f] = pristine[f]
      BY <1>1, <3>1, <3>2 DEF SafeInv, RollbackOK
    <3> QED
      BY <1>1, <3>1, <3>2, <3>3, TextsNotNone, TreeAssumption
         DEF SafeInv, TypeInv, TypeOK, SnapshotPristine
  <2>4. CASE UNCHANGED orig
    BY <2>4
  <2>5. \/ UNCHANGED orig \/ RollbackRemove \/ OverlayMoonSentinel
        \/ \E x \in Files \cup {Here} : orig' = SnapshotOf(x)
    <3>1. CASE Pass
      BY <3>1 DEF Pass, ReportOnly, StartGroup, StageStep, StartWrites,
         OmitStep, SkipWrite, CtxWrite, Snapshot, WriteTarget, EndSteps, Judge,
         EndChild, Finish, tree
    <3>2. CASE Overlay
      BY <3>2, OverlayAssumption DEF Overlay, OverlayAddressSkip,
         OverlayAddressSnapshot, OverlayAddressCopy, OverlayMoonNew,
         OverlayMoonSnapshot, OverlayMoonCopy, OverlayMoonInPlace,
         OverlayMakefileSnapshot, OverlayMakefileAppend, tree
    <3>3. CASE SnapshotFails
      BY <3>3 DEF SnapshotFails, Fault, NoTear
    <3>4. CASE \/ \E c \in Targets, d \in BOOLEAN, v \in MoonTexts,
                     ok \in Families : StartRun(c, d, v, ok)
               \/ WriteFails \/ Crash \/ StartRollback
               \/ (\E x \in Files : RollbackCopy(x)) \/ EndRollback
      BY <3>4 DEF StartRun, WriteFails, Crash, StartRollback, RollbackCopy,
         EndRollback, tree
    <3>5. CASE UNCHANGED vars
      BY <3>5 DEF vars
    <3> QED
      BY <1>1, <3>1, <3>2, <3>3, <3>4, <3>5 DEF Next
  <2> QED
    BY <2>1, <2>2, <2>3, <2>4, <2>5
<1> QED
  BY <1>1, SafeInit, SafeNext, PTL DEF Spec, SnapshotNeverOverwritten

-----------------------------------------------------------------------------
(* Where a machine leads: what follows a state of U along the pairs of R   *)

(* No pair of R leaves S.                                                  *)
Closed(R, S) == \A e \in R : e[1] \in S => e[2] \in S

(* The states that x leads to: those in every closed set around x.         *)
Leads(U, R, x) == {y \in U : \A S \in SUBSET U : x \in S /\ Closed(R, S) => y \in S}

(* A state leads to itself, and on to what follows.                        *)
LEMMA LeadsOn ==
    ASSUME NEW U, NEW R \in SUBSET (U \X U), NEW x \in U
    PROVE  /\ x \in Leads(U, R, x)
           /\ \A e \in R : e[1] \in Leads(U, R, x) => e[2] \in Leads(U, R, x)
<1>1. x \in Leads(U, R, x)
  BY DEF Leads
<1>2. ASSUME NEW e \in R, e[1] \in Leads(U, R, x) PROVE e[2] \in Leads(U, R, x)
  <2>1. e[2] \in U
    OBVIOUS
  <2>2. ASSUME NEW S \in SUBSET U, x \in S, Closed(R, S) PROVE e[2] \in S
    BY <1>2, <2>2 DEF Leads, Closed
  <2> QED
    BY <2>1, <2>2 DEF Leads
<1> QED
  BY <1>1, <1>2

(* A closed set holds all its states lead to.                              *)
LEMMA LeadsWithin ==
    ASSUME NEW U, NEW R, NEW S \in SUBSET U, Closed(R, S), NEW x \in S
    PROVE  Leads(U, R, x) \subseteq S
  BY DEF Leads

(* A state that nothing follows leads nowhere else.                        *)
LEMMA LeadsNowhere ==
    ASSUME NEW U, NEW R, NEW x \in U, \A e \in R : e[1] # x
    PROVE  Leads(U, R, x) = {x}
<1>1. x \in Leads(U, R, x)
  BY DEF Leads
<1>2. Closed(R, {x})
  BY DEF Closed
<1>3. {x} \in SUBSET U
  OBVIOUS
<1> QED
  BY <1>1, <1>2, <1>3, LeadsWithin

(* When one state at most follows each, whatever x leads to leads to the   *)
(* state at which the machine stops.                                       *)
LEMMA LeadsToEnd ==
    ASSUME NEW U, NEW R \in SUBSET (U \X U), \A e, d \in R : e[1] = d[1] => e[2] = d[2],
           NEW x \in U, NEW z \in Leads(U, R, x), \A e \in R : e[1] # z,
           NEW y \in Leads(U, R, x)
    PROVE  z \in Leads(U, R, y)
<1> DEFINE S == {v \in U : z \in Leads(U, R, v)}
<1>1. ASSUME NEW e \in R, e[1] \in S PROVE e[2] \in S
  <2> DEFINE T == {e[1]} \cup Leads(U, R, e[2])
  <2>1. e[1] \in U /\ e[2] \in U
    OBVIOUS
  <2>2. ASSUME NEW d \in R, d[1] \in T PROVE d[2] \in T
    <3>1. CASE d[1] = e[1]
      BY <2>1, <3>1, LeadsOn
    <3>2. CASE d[1] \in Leads(U, R, e[2])
      BY <2>1, <3>2, LeadsOn
    <3> QED
      BY <2>2, <3>1, <3>2
  <2>3. T \in SUBSET U
    BY <2>1 DEF Leads
  <2> HIDE DEF T
  <2>4. Closed(R, T)
    BY <2>2 DEF Closed
  <2>5. e[1] \in T
    BY DEF T
  <2>6. z \in T
    BY <1>1, <2>3, <2>4, <2>5, LeadsWithin
  <2>7. z \in Leads(U, R, e[2])
    BY <2>6 DEF T
  <2> QED
    BY <2>1, <2>7
<1>2. x \in S /\ S \in SUBSET U
  OBVIOUS
<1> HIDE DEF S
<1>3. Closed(R, S)
  BY <1>1 DEF Closed
<1>4. y \in S
  BY <1>2, <1>3, LeadsWithin
<1> QED
  BY <1>4 DEF S

-----------------------------------------------------------------------------
(* A run of a child as a machine on what the engine sees: the texts that   *)
(* ctx.read() returns, not the tree they are on.  A dry run and a real one *)
(* are the same machine.                                                   *)
View == [f \in Files |-> Read(f)]

(* What the probes and checks of a group see in a view.                    *)
HasIn(v, m) == v[m.file] # None /\ m.block \subseteq v[m.file]
FiresIn(v, c) == (\A m \in c.present : HasIn(v, m)) /\ (\A m \in c.absent : ~HasIn(v, m))
ClearIn(v, checks) == \A i \in DOMAIN checks : ~FiresIn(v, checks[i])
ReturnsIn(v, checks, w) ==
    \E i \in DOMAIN checks :
        /\ FiresIn(v, checks[i]) /\ \A j \in 1..(i - 1) : ~FiresIn(v, checks[j])
        /\ w = checks[i].status
ListedIn(v, st) ==
    (st.only = {} \/ \E m \in st.only : HasIn(v, m)) /\ \A m \in st.unless : ~HasIn(v, m)
Verdict(v, checks) == CHOOSE w \in Status : ReturnsIn(v, checks, w)

(* The places of a run.                                                    *)
Place == [view : [Files -> Texts \cup {None}], dirty : SUBSET Files,
          before : [Files -> Texts \cup {None}], pc : {"group", "steps", "write", "judge", "aborted"},
          g : Nat, s : Nat, pending : [Files -> Texts \cup {None}], queue : Seq(Files),
          tally : [Tallied -> Nat], status : Status, report : Seq(Status)]

(* The place of a run: a file whose cached text is not yet on the disk is  *)
(* as good as written.                                                     *)
Writing == pc \in {"snapshot", "target"}
PlaceDirty == IF Writing THEN dirty \cup {Here} ELSE dirty
PlaceQueue == IF Writing THEN Tail(queue) ELSE queue
PlacePc == IF Writing THEN "write" ELSE pc
Record(v, d, b, p, i, j, pend, q, t, w, r) ==
    [view |-> v, dirty |-> d, before |-> b, pc |-> p, g |-> i, s |-> j, pending |-> pend,
     queue |-> q, tally |-> t, status |-> w, report |-> r]
Now == Record(View, PlaceDirty, before, PlacePc, g, s, pending, PlaceQueue, tally, status,
            report[child])

(* The place of a child that starts on the tree t.                         *)
Start(t) == Record(t, {}, NoTexts, "group", 1, 1, NoTexts, <<>>, NoTally, "report_only", <<>>)

(* The texts of the files in d; a text put into a view.                    *)
Taken(v, d) == [f \in Files |-> IF f \in d THEN v[f] ELSE None]
Put(v, f, t) == [v EXCEPT ![f] = t]

(* The same place with another pc and status; with another step staged;    *)
(* with the head of the queue dealt with; with a group reported.           *)
To(x, p, w) ==
    Record(x.view, x.dirty, x.before, p, x.g, x.s, x.pending, x.queue, x.tally, w, x.report)
NextStep(x, pend, q, t) ==
    Record(x.view, x.dirty, x.before, x.pc, x.g, x.s + 1, pend, q, t, x.status, x.report)
Dequeued(x, v, d) ==
    Record(v, d, x.before, x.pc, x.g, x.s, x.pending, Tail(x.queue), x.tally, x.status, x.report)
Reported(x, p, i) ==
    Record(x.view, x.dirty, x.before, p, i, x.s, x.pending, x.queue, x.tally, x.status,
           Append(x.report, x.status))

(* PatchGroup.run() up to apply_steps().                                   *)
Entered(x, p, w) ==
    Record(x.view, x.dirty, Taken(x.view, x.dirty), p, x.g, 1, NoTexts, <<>>, NoTally, w, x.report)
GroupTurn(grp, x) ==
    IF ClearIn(x.view, grp.checks) THEN Entered(x, "steps", x.status)
    ELSE Entered(x, "judge", Verdict(x.view, grp.checks))

(* A required anchor is missing.                                           *)
AbandonTurn(grp, x) ==
    IF ~ClearIn(x.view, grp.onmiss) THEN To(x, "judge", Verdict(x.view, grp.onmiss))
    ELSE IF grp.hard THEN To(x, "aborted", x.status)
    ELSE To(x, "judge", "blocked_by_shape")

(* A turn of apply_steps()' first loop.                                    *)
Edit(v, pend, st) ==
    LET text == IF pend[st.file] = None THEN v[st.file] ELSE pend[st.file]
    IN IF text = None THEN [text |-> None, status |-> "missing_anchor"]
       ELSE ReplaceOnce(text, st.old, st.new)
Counted(t, r) == [t EXCEPT ![r.status] = @ + 1]
Queued(pend, q, st) == IF pend[st.file] = None THEN Append(q, st.file) ELSE q
StageTurn(grp, x) ==
    LET st == grp.steps[x.s]
        r  == Edit(x.view, x.pending, st)
        y  == NextStep(x, x.pending, x.queue, Counted(x.tally, r))
    IN IF r.status = "missing_anchor"
       THEN IF st.required THEN AbandonTurn(grp, y) ELSE y
       ELSE NextStep(x, Put(x.pending, st.file, r.text), Queued(x.pending, x.queue, st),
                     Counted(x.tally, r))
StepsTurn(grp, x) ==
    IF x.s > Len(grp.steps) THEN To(x, "write", x.status)
    ELSE IF ~ListedIn(x.view, grp.steps[x.s]) THEN NextStep(x, x.pending, x.queue, x.tally)
    ELSE StageTurn(grp, x)

(* A turn of the second loop.                                              *)
WriteTurn(x) ==
    LET f == Head(x.queue)
    IN IF x.queue = <<>> THEN To(x, "judge", StepsStatus(x.tally))
       ELSE IF x.pending[f] = x.view[f] THEN Dequeued(x, x.view, x.dirty)
       ELSE Dequeued(x, Put(x.view, f, x.pending[f]), x.dirty \cup {f})

(* run_child() on what the group did.                                      *)
RefusedIn(x) ==
    LET changed == {f \in x.dirty : x.view[f] # x.before[f]}
    IN \/ x.status \notin Landing /\ changed # {}
       \/ x.status \in {"applied", "partial"} /\ changed = {}
JudgeTurn(x) ==
    IF RefusedIn(x) THEN Reported(x, "aborted", x.g) ELSE Reported(x, "group", x.g + 1)

(* A turn is taken while there is a group to run.                          *)
Runs(gs, x) == x.pc # "aborted" /\ x.g <= Len(gs)
Turn(gs, x) ==
    IF x.pc = "group" THEN GroupTurn(gs[x.g], x)
    ELSE IF x.pc = "steps" THEN StepsTurn(gs[x.g], x)
    ELSE IF x.pc = "write" THEN WriteTurn(x)
    ELSE JudgeTurn(x)

(* The turns of child c, as pairs.                                         *)
Turns(c) == {e \in Place \X Place : Runs(Children[c], e[1]) /\ e[2] = Turn(Children[c], e[1])}

(* Where a run of child c on the tree t passes, and where it ends.         *)
Course(c, t) == Leads(Place, Turns(c), Start(t))
Through(c, x) == x.pc = "group" /\ x.g > Len(Children[c])

(* A turn reports one group or none, after the reported ones.              *)
Extends(p, q) == Len(p) <= Len(q) /\ \A i \in 1..Len(p) : q[i] = p[i]

(* A turn reports nothing or the status of its group.                      *)
LEMMA TurnReports ==
    ASSUME NEW gs, NEW x
    PROVE  Turn(gs, x).report \in {x.report, Append(x.report, x.status)}
<1>1. ASSUME NEW y
      PROVE  /\ \A p, w : To(y, p, w).report = y.report /\ Entered(y, p, w).report = y.report
             /\ \A pend, q, t : NextStep(y, pend, q, t).report = y.report
             /\ \A v, d : Dequeued(y, v, d).report = y.report
             /\ \A p, i : Reported(y, p, i).report = Append(y.report, y.status)
  BY DEF To, Entered, NextStep, Dequeued, Reported, Record
<1>2. ASSUME NEW grp PROVE StepsTurn(grp, x).report = x.report
  <2>1. ASSUME NEW y PROVE AbandonTurn(grp, y).report = y.report
    BY <1>1 DEF AbandonTurn
  <2>2. StageTurn(grp, x).report = x.report
    BY <1>1, <2>1 DEF StageTurn
  <2> QED
    BY <1>1, <2>2 DEF StepsTurn
<1>3. ASSUME NEW grp PROVE GroupTurn(grp, x).report = x.report
  BY <1>1 DEF GroupTurn
<1>4. WriteTurn(x).report = x.report
  BY <1>1 DEF WriteTurn
<1>5. JudgeTurn(x).report = Append(x.report, x.status)
  BY <1>1 DEF JudgeTurn
<1> QED
  BY <1>2, <1>3, <1>4, <1>5 DEF Turn

(* The reports along a course grow.                                        *)
LEMMA ReportsGrow ==
    ASSUME NEW c \in 1..Len(Children), NEW x \in Place, NEW y \in Leads(Place, Turns(c), x)
    PROVE  Extends(x.report, y.report)
<1> DEFINE S == {v \in Place : Extends(x.report, v.report)}
<1>1. x \in S
  BY DEF Extends, Place
<1>2. ASSUME NEW e \in Turns(c), e[1] \in S PROVE e[2] \in S
  <2>1. /\ e[1] \in Place /\ e[2] \in Place
        /\ e[2].report \in {e[1].report, Append(e[1].report, e[1].status)}
    <3>1. e[1] \in Place /\ e[2] \in Place /\ e[2] = Turn(Children[c], e[1])
      BY DEF Turns
    <3> QED
      BY <3>1, TurnReports
  <2>2. e[1].report \in Seq(Status) /\ e[1].status \in Status /\ x.report \in Seq(Status)
    BY <2>1 DEF Place
  <2>3. Extends(x.report, e[1].report)
    BY <1>2
  <2>4. Extends(x.report, e[2].report)
    <3>1. CASE e[2].report = e[1].report
      BY <2>3, <3>1
    <3>2. CASE e[2].report = Append(e[1].report, e[1].status)
      BY <2>2, <2>3, <3>2 DEF Extends
    <3> QED
      BY <2>1, <3>1, <3>2
  <2> QED
    BY <2>1, <2>4
<1>3. S \in SUBSET Place
  OBVIOUS
<1> HIDE DEF S
<1>4. Closed(Turns(c), S)
  BY <1>2 DEF Closed
<1>5. y \in S
  BY <1>1, <1>3, <1>4, LeadsWithin
<1> QED
  BY <1>5 DEF S

(* Two runs of a child on one tree report the same, as far as they get,    *)
(* when one of them gets through; the other one does not end the child.    *)
LEMMA CoursesAgree ==
    ASSUME NEW c \in 1..Len(Children), NEW t, Start(t) \in Place,
           NEW z \in Course(c, t), Through(c, z), NEW y \in Course(c, t)
    PROVE  Extends(y.report, z.report) /\ y.pc # "aborted"
<1>1. Turns(c) \in SUBSET (Place \X Place)
  BY DEF Turns
<1>2. \A e, d \in Turns(c) : e[1] = d[1] => e[2] = d[2]
  BY DEF Turns
<1>3. y \in Place /\ z \in Place
  BY DEF Course, Leads
<1>4. \A e \in Turns(c) : e[1] # z
  <2>1. ~Runs(Children[c], z)
    <3>1. z.g \in Nat /\ z.g > Len(Children[c])
      BY <1>3 DEF Through, Place
    <3>2. Len(Children[c]) \in Nat
      BY GroupsAssumption
    <3> QED
      BY <3>1, <3>2 DEF Runs
  <2>2. ASSUME NEW e \in Turns(c) PROVE Runs(Children[c], e[1])
    BY DEF Turns
  <2> QED
    BY <2>1, <2>2
<1>5. z \in Leads(Place, Turns(c), y)
  BY <1>1, <1>2, <1>4, LeadsToEnd DEF Course
<1>6. Extends(y.report, z.report)
  BY <1>3, <1>5, ReportsGrow
<1>7. y.pc # "aborted"
  <2> SUFFICES ASSUME y.pc = "aborted" PROVE FALSE
    OBVIOUS
  <2>1. \A e \in Turns(c) : e[1] # y
    BY DEF Turns, Runs
  <2>2. z = y
    BY <1>3, <1>5, <2>1, LeadsNowhere
  <2> QED
    BY <2>2 DEF Through
<1> QED
  BY <1>6, <1>7

-----------------------------------------------------------------------------
(* The engine takes the turns of that machine                              *)

(* The child's process is in a group, or its run has been aborted.         *)
Running == {"group", "aborted"} \cup InGroup

(* What a place is made of: the reports of this pass, the tree the child   *)
(* started on, and a cache that holds what is dirty or being written.      *)
SeenOK ==
    /\ report \in [1..Len(Children) -> Seq(Status)]
    /\ \A k \in 1..Len(Children) : k > child => report[k] = <<>>
    /\ entry \in [Files -> Texts \cup {None}]
    /\ \A f \in dirty : texts[f] # None
    /\ Writing => texts[Here] = pending[Here]

(* The engine sees its view.                                               *)
LEMMA ViewHas ==
    ASSUME NEW m \in Mark
    PROVE  HasIn(View, m) <=> Has(m)
<1>1. View[m.file] = Read(m.file)
  BY DEF View, Mark
<1> QED
  BY <1>1, Zenon DEF HasIn, Has

(* A check fires in the view just when it fires.                           *)
LEMMA ViewFires ==
    ASSUME NEW c \in Check
    PROVE  FiresIn(View, c) <=> Fires(c)
<1>1. c.present \in SUBSET Mark /\ c.absent \in SUBSET Mark
  BY DEF Check
<1>2. \A m \in Mark : HasIn(View, m) <=> Has(m)
  BY ViewHas
<1> QED
  BY <1>1, <1>2 DEF FiresIn, Fires

(* The same checks return the same.                                        *)
LEMMA ViewChecks ==
    ASSUME NEW checks \in Seq(Check)
    PROVE  /\ ClearIn(View, checks) <=> Clear(checks)
           /\ \A w : ReturnsIn(View, checks, w) <=> Returns(checks, w)
<1>1. \A i \in DOMAIN checks : FiresIn(View, checks[i]) <=> Fires(checks[i])
  <2> SUFFICES ASSUME NEW i \in DOMAIN checks
               PROVE  FiresIn(View, checks[i]) <=> Fires(checks[i])
    OBVIOUS
  <2>1. checks[i] \in Check
    OBVIOUS
  <2> QED
    BY <2>1, ViewFires
<1>2. \A i \in DOMAIN checks : \A j \in 1..(i - 1) : j \in DOMAIN checks
  OBVIOUS
<1>3. ClearIn(View, checks) <=> Clear(checks)
  BY <1>1 DEF ClearIn, Clear
<1>4. ASSUME NEW w PROVE ReturnsIn(View, checks, w) <=> Returns(checks, w)
  BY <1>1, <1>2 DEF ReturnsIn, Returns
<1> QED
  BY <1>3, <1>4

(* The same steps are listed.                                              *)
LEMMA ViewListed ==
    ASSUME NEW st \in Step
    PROVE  ListedIn(View, st) <=> Listed(st)
<1>1. st.only \in SUBSET Mark /\ st.unless \in SUBSET Mark
  BY DEF Step
<1>2. \A m \in Mark : HasIn(View, m) <=> Has(m)
  BY ViewHas
<1> QED
  BY <1>1, <1>2 DEF ListedIn, Listed

(* The first check that fires is the one that returns.                     *)
LEMMA OneVerdict ==
    ASSUME NEW checks \in Seq(Check), NEW w \in Status, Returns(checks, w)
    PROVE  w = Verdict(View, checks)
<1>1. ReturnsIn(View, checks, w)
  BY ViewChecks
<1>2. ASSUME NEW u, ReturnsIn(View, checks, u) PROVE u = w
  <2>1. PICK i \in DOMAIN checks :
            /\ FiresIn(View, checks[i]) /\ \A j \in 1..(i - 1) : ~FiresIn(View, checks[j])
            /\ w = checks[i].status
    BY <1>1 DEF ReturnsIn
  <2>2. PICK k \in DOMAIN checks :
            /\ FiresIn(View, checks[k]) /\ \A j \in 1..(k - 1) : ~FiresIn(View, checks[j])
            /\ u = checks[k].status
    BY <1>2 DEF ReturnsIn
  <2>3. i \in Nat \ {0} /\ k \in Nat \ {0}
    OBVIOUS
  <2>4. ~(i < k) /\ ~(k < i)
    BY <2>1, <2>2, <2>3
  <2>5. i = k
    BY <2>3, <2>4
  <2> QED
    BY <2>1, <2>2, <2>5
<1> QED
  BY <1>1, <1>2 DEF Verdict

(* The checks of the running group.                                        *)
LEMMA GroupChecks ==
    ASSUME TypeOK, g <= Len(Groups)
    PROVE  Grp.checks \in Seq(Check) /\ Grp.onmiss \in Seq(Check)
  BY GroupType DEF Group

(* A step that neither caches nor writes a text sees the same.             *)
LEMMA ViewKept ==
    ASSUME UNCHANGED <<disk, texts>>
    PROVE  View' = View
  BY DEF View, Read

(* The place of a run is a place.                                          *)
LEMMA NowType ==
    ASSUME TypeInv, SeenOK, pc \in Running
    PROVE  Now \in Place
<1>1. View \in [Files -> Texts \cup {None}]
  BY ReadType DEF View, TypeInv
<1>2. /\ PlaceDirty \in SUBSET Files /\ PlaceQueue \in Seq(Files)
      /\ PlacePc \in {"group", "steps", "write", "judge", "aborted"}
  <2>1. CASE Writing
    <3>1. queue # <<>> /\ Here \in Files
      BY <2>1, HereType DEF Writing, TypeInv, LoopOK
    <3> QED
      BY <2>1, <3>1 DEF PlaceDirty, PlaceQueue, PlacePc, TypeInv, TypeOK
  <2>2. CASE ~Writing
    BY <2>2 DEF Writing, PlaceDirty, PlaceQueue, PlacePc, TypeInv, TypeOK, Running, InGroup
  <2> QED
    BY <2>1, <2>2
<1>3. /\ before \in [Files -> Texts \cup {None}] /\ g \in Nat /\ s \in Nat
      /\ pending \in [Files -> Texts \cup {None}] /\ tally \in [Tallied -> Nat]
      /\ status \in Status
  BY DEF TypeInv, TypeOK
<1>4. report[child] \in Seq(Status)
  BY DEF TypeInv, TypeOK, SeenOK
<1> QED
  BY <1>1, <1>2, <1>3, <1>4 DEF Now, Record, Place

(* A step of the running group that is a turn, or none.                    *)
Turned == Runs(Groups, Now) /\ Now' = Turn(Groups, Now)

(* The parts of the place when nothing is being written.                   *)
LEMMA NotWriting ==
    /\ ~Writing => PlaceDirty = dirty /\ PlaceQueue = queue /\ PlacePc = pc
    /\ ~Writing' => PlaceDirty' = dirty' /\ PlaceQueue' = queue' /\ PlacePc' = pc'
  BY DEF PlaceDirty, PlaceQueue, PlacePc

(* The fields of the place of the run.                                     *)
LEMMA NowFields ==
    /\ Now.view = View /\ Now.dirty = PlaceDirty /\ Now.before = before /\ Now.pc = PlacePc
    /\ Now.g = g /\ Now.s = s /\ Now.pending = pending /\ Now.queue = PlaceQueue
    /\ Now.tally = tally /\ Now.status = status /\ Now.report = report[child]
  BY DEF Now, Record

(* StartGroup is a turn: it only looks at the view.                        *)
LEMMA TurnsStartGroup ==
    ASSUME TypeInv, SeenOK, StartGroup
    PROVE  Turned
<1>1. /\ pc = "group" /\ g <= Len(Groups)
      /\ before' = [f \in Files |-> IF f \in dirty THEN texts[f] ELSE None]
      /\ s' = 1 /\ pending' = NoTexts /\ queue' = <<>> /\ tally' = NoTally
      /\ UNCHANGED <<disk, texts, dirty, child, g, report>>
      /\ IF Clear(Grp.checks) THEN pc' = "steps" /\ status' = status
         ELSE pc' = "judge" /\ status' \in Status /\ Returns(Grp.checks, status')
  BY DEF StartGroup, tree
<1>2. ~Writing /\ ~Writing'
  BY <1>1 DEF Writing
<1>3. View' = View
  BY <1>1, ViewKept
<1>4. Grp.checks \in Seq(Check)
  BY <1>1, GroupChecks DEF TypeInv
<1>5. ClearIn(View, Grp.checks) <=> Clear(Grp.checks)
  BY <1>4, ViewChecks
<1>6. /\ pc' = IF ClearIn(View, Grp.checks) THEN "steps" ELSE "judge"
      /\ status' = IF ClearIn(View, Grp.checks) THEN status ELSE Verdict(View, Grp.checks)
  <2>1. CASE Clear(Grp.checks)
    BY <1>1, <1>5, <2>1
  <2>2. CASE ~Clear(Grp.checks)
    <3>1. status' = Verdict(View, Grp.checks)
      BY <1>1, <1>4, <2>2, OneVerdict
    <3> QED
      BY <1>1, <1>5, <2>2, <3>1
  <2> QED
    BY <2>1, <2>2
<1>7. before' = Taken(View, dirty)
  BY <1>1 DEF SeenOK, View, Read, Taken
<1>8. Now' = GroupTurn(Grp, Now)
  BY <1>1, <1>2, <1>3, <1>6, <1>7, NowFields, NotWriting DEF Now, GroupTurn, Entered
<1> QED
  BY <1>1, <1>2, <1>8, NowFields, NotWriting DEF Turned, Turn, Runs, Grp

(* OmitStep is a turn.                                                     *)
LEMMA TurnsOmit ==
    ASSUME TypeInv, SeenOK, OmitStep
    PROVE  Turned
<1>1. /\ pc = "steps" /\ s <= Len(Grp.steps) /\ ~Listed(Grp.steps[s]) /\ s' = s + 1
      /\ UNCHANGED <<disk, texts, dirty, before, pc, child, g, pending, queue, tally,
                     status, report>>
  BY DEF OmitStep, tree, ctx
<1>2. ~Writing /\ ~Writing' /\ g <= Len(Groups)
  BY <1>1 DEF Writing, TypeInv, LoopOK, InGroup
<1>3. View' = View
  BY <1>1, ViewKept
<1>4. Grp.steps[s] \in Step
  BY <1>1, <1>2, GroupType DEF TypeInv, TypeOK
<1>5. ~ListedIn(View, Grp.steps[s])
  BY <1>1, <1>4, ViewListed
<1>6. ~(s > Len(Grp.steps))
  BY <1>1, <1>2, GroupType DEF TypeInv, TypeOK, Group
<1>7. Now' = StepsTurn(Grp, Now)
  BY <1>1, <1>2, <1>3, <1>5, <1>6, NowFields, NotWriting DEF Now, StepsTurn, NextStep
<1> QED
  BY <1>1, <1>2, <1>7, NowFields, NotWriting DEF Turned, Turn, Runs, Grp

(* StartWrites is a turn.                                                  *)
LEMMA TurnsStartWrites ==
    ASSUME TypeInv, SeenOK, StartWrites
    PROVE  Turned
<1>1. /\ pc = "steps" /\ s > Len(Grp.steps) /\ pc' = "write"
      /\ UNCHANGED <<disk, texts, dirty, before, child, g, s, pending, queue, tally,
                     status, report>>
  BY DEF StartWrites, tree, ctx
<1>2. ~Writing /\ ~Writing' /\ g <= Len(Groups)
  BY <1>1 DEF Writing, TypeInv, LoopOK, InGroup
<1>3. View' = View
  BY <1>1, ViewKept
<1>4. Now' = StepsTurn(Grp, Now)
  BY <1>1, <1>2, <1>3, NowFields, NotWriting DEF Now, StepsTurn, To
<1> QED
  BY <1>1, <1>2, <1>4, NowFields, NotWriting DEF Turned, Turn, Runs, Grp

(* EndSteps is a turn.                                                     *)
LEMMA TurnsEndSteps ==
    ASSUME TypeInv, SeenOK, EndSteps
    PROVE  Turned
<1>1. /\ pc = "write" /\ queue = <<>> /\ pc' = "judge" /\ status' = StepsStatus(tally)
      /\ UNCHANGED <<disk, texts, dirty, before, child, g, s, pending, queue, tally,
                     report>>
  BY DEF EndSteps, tree, ctx
<1>2. ~Writing /\ ~Writing' /\ g <= Len(Groups)
  BY <1>1 DEF Writing, TypeInv, LoopOK, InGroup
<1>3. View' = View
  BY <1>1, ViewKept
<1>4. Now' = WriteTurn(Now)
  BY <1>1, <1>2, <1>3, NowFields, NotWriting DEF Now, WriteTurn, To
<1> QED
  BY <1>1, <1>2, <1>4, NowFields, NotWriting DEF Turned, Turn, Runs

(* SkipWrite is a turn.                                                    *)
LEMMA TurnsSkipWrite ==
    ASSUME TypeInv, SeenOK, SkipWrite
    PROVE  Turned
<1>1. /\ pc = "write" /\ queue # <<>> /\ pending[Here] = Read(Here) /\ queue' = Tail(queue)
      /\ UNCHANGED <<disk, texts, dirty, before, pc, child, g, s, pending, tally,
                     status, report>>
  BY DEF SkipWrite, tree, ctx
<1>2. ~Writing /\ ~Writing' /\ g <= Len(Groups)
  BY <1>1 DEF Writing, TypeInv, LoopOK, InGroup
<1>3. View' = View
  BY <1>1, ViewKept
<1>4. View[Here] = pending[Here]
  BY <1>1, HereType DEF View
<1>5. Now' = WriteTurn(Now)
  BY <1>1, <1>2, <1>3, <1>4, NowFields, NotWriting DEF Now, WriteTurn, Dequeued, Here
<1> QED
  BY <1>1, <1>2, <1>5, NowFields, NotWriting DEF Turned, Turn, Runs

(* CtxWrite is a turn, of a dry run and of a real one: the text is cached. *)
LEMMA TurnsCtxWrite ==
    ASSUME TypeInv, SeenOK, CtxWrite
    PROVE  Turned
<1>1. /\ pc = "write" /\ queue # <<>> /\ pending[Here] # Read(Here)
      /\ texts' = [texts EXCEPT ![Here] = pending[Here]]
      /\ \/ dirty' = dirty \cup {Here} /\ queue' = Tail(queue) /\ pc' = "write"
         \/ pc' = "snapshot" /\ dirty' = dirty /\ queue' = queue
      /\ UNCHANGED <<disk, before, child, g, s, pending, tally, status, report>>
  BY DEF CtxWrite, tree
<1>2. ~Writing /\ g <= Len(Groups)
  BY <1>1 DEF Writing, TypeInv, LoopOK, InGroup
<1>3. Here \in Files /\ pending[Here] # None
  BY <1>1, HereType DEF TypeInv, LoopOK, InGroup, Here, TypeOK
<1>4. View' = Put(View, Here, pending[Here])
  BY <1>1, <1>3 DEF View, Read, Put, TypeInv, TypeOK
<1>5. View[Here] # pending[Here]
  BY <1>1, <1>3 DEF View
<1>6. PlaceDirty' = dirty \cup {Here} /\ PlaceQueue' = Tail(queue) /\ PlacePc' = "write"
  <2>1. CASE pc' = "write"
    BY <1>1, <2>1 DEF PlaceDirty, PlaceQueue, PlacePc, Writing
  <2>2. CASE pc' = "snapshot"
    BY <1>1, <2>2 DEF PlaceDirty, PlaceQueue, PlacePc, Writing, Here
  <2> QED
    BY <1>1, <2>1, <2>2
<1>7. Now' = WriteTurn(Now)
  BY <1>1, <1>2, <1>4, <1>5, <1>6, NowFields, NotWriting DEF Now, WriteTurn, Dequeued, Here
<1> QED
  BY <1>1, <1>2, <1>7, NowFields, NotWriting DEF Turned, Turn, Runs

(* The snapshot and the file itself: the place was there already.          *)
LEMMA WritesStay ==
    ASSUME TypeInv, SeenOK, Snapshot \/ WriteTarget
    PROVE  Now' = Now
<1>1. CASE Snapshot
  <2>1. /\ pc = "snapshot" /\ pc' = "target"
        /\ UNCHANGED <<disk, texts, dirty, before, child, g, s, pending, queue, tally,
                       status, report>>
    BY <1>1 DEF Snapshot, ctx
  <2>2. View' = View
    BY <2>1, ViewKept
  <2>3. PlaceDirty' = PlaceDirty /\ PlaceQueue' = PlaceQueue /\ PlacePc' = PlacePc
    BY <2>1 DEF PlaceDirty, PlaceQueue, PlacePc, Writing, Here
  <2> QED
    BY <2>1, <2>2, <2>3 DEF Now
<1>2. CASE WriteTarget
  <2>1. /\ pc = "target" /\ pc' = "write" /\ disk' = [disk EXCEPT ![Here] = pending[Here]]
        /\ dirty' = dirty \cup {Here} /\ queue' = Tail(queue)
        /\ UNCHANGED <<texts, before, child, g, s, pending, tally, status, report>>
    BY <1>2 DEF WriteTarget
  <2>2. Here \in Files /\ texts[Here] # None
    BY <2>1, HereType DEF TypeInv, LoopOK, InGroup, Here, TypeOK, SeenOK, Writing
  <2>3. View' = View
    BY <2>1, <2>2 DEF View, Read, TypeInv, TypeOK
  <2>4. PlaceDirty' = PlaceDirty /\ PlaceQueue' = PlaceQueue /\ PlacePc' = PlacePc
    BY <2>1 DEF PlaceDirty, PlaceQueue, PlacePc, Writing
  <2> QED
    BY <2>1, <2>3, <2>4 DEF Now
<1> QED
  BY <1>1, <1>2

(* Judge is a turn: what changed is told from the view.                    *)
LEMMA TurnsJudge ==
    ASSUME TypeInv, SeenOK, Judge
    PROVE  Turned
<1>1. /\ pc = "judge" /\ report' = [report EXCEPT ![child] = Append(@, status)]
      /\ IF Refused THEN pc' = "aborted" /\ g' = g ELSE pc' = "group" /\ g' = g + 1
      /\ UNCHANGED <<disk, texts, dirty, before, child, s, pending, queue, tally, status>>
  BY DEF Judge, tree, ctx
<1>2. ~Writing /\ ~Writing' /\ g <= Len(Groups)
  BY <1>1 DEF Writing, TypeInv, LoopOK, InGroup
<1>3. View' = View
  BY <1>1, ViewKept
<1>4. {f \in dirty : View[f] # before[f]} = Changed
  BY DEF SeenOK, Changed, View, Read, TypeInv, TypeOK
<1>5. RefusedIn(Now) <=> Refused
  BY <1>2, <1>4, NowFields, NotWriting DEF RefusedIn, Refused
<1>6. report'[child] = Append(report[child], status)
  BY <1>1 DEF SeenOK, TypeInv, TypeOK
<1>7. Now' = JudgeTurn(Now)
  <2>1. CASE Refused
    BY <1>1, <1>2, <1>3, <1>5, <1>6, <2>1, NowFields, NotWriting DEF Now, JudgeTurn, Reported
  <2>2. CASE ~Refused
    BY <1>1, <1>2, <1>3, <1>5, <1>6, <2>2, NowFields, NotWriting DEF Now, JudgeTurn, Reported
  <2> QED
    BY <2>1, <2>2
<1> QED
  BY <1>1, <1>2, <1>7, NowFields, NotWriting DEF Turned, Turn, Runs

(* StageStep is a turn: the texts it reads are those of the view, and the  *)
(* staged ones.                                                            *)
LEMMA TurnsStage ==
    ASSUME TypeInv, SeenOK, StageStep
    PROVE  Turned
<1> DEFINE st == Grp.steps[s]
           r  == Edit(View, pending, st)
           y  == NextStep(Now, pending, queue, Counted(tally, r))
<1>1. /\ pc = "steps" /\ s <= Len(Grp.steps) /\ Listed(st) /\ s' = s + 1
      /\ UNCHANGED <<disk, texts, dirty, before, child, g, report>>
  BY DEF StageStep, tree, ctx
<1>2. ~Writing /\ g <= Len(Groups)
  BY <1>1 DEF Writing, TypeInv, LoopOK, InGroup
<1>3. View' = View
  BY <1>1, ViewKept
<1>4. st \in Step /\ st.file \in Files /\ Len(Grp.steps) \in Nat
  BY <1>1, <1>2, GroupType DEF TypeInv, TypeOK, Group, Step
<1>5. ListedIn(View, st) /\ ~(s > Len(Grp.steps))
  BY <1>1, <1>4, ViewListed DEF TypeInv, TypeOK
<1>6. /\ tally' = Counted(tally, r)
      /\ IF r.status = "missing_anchor"
         THEN /\ UNCHANGED <<pending, queue>>
              /\ IF st.required THEN Abandon ELSE UNCHANGED <<pc, status>>
         ELSE /\ pending' = Put(pending, st.file, r.text)
              /\ queue' = Queued(pending, queue, st)
              /\ UNCHANGED <<pc, status>>
  <2>1. View[st.file] = Read(st.file)
    BY <1>4 DEF View
  <2>2. Staged(st.file) = IF pending[st.file] = None THEN View[st.file] ELSE pending[st.file]
    BY <2>1 DEF Staged
  <2>3. r = IF Staged(st.file) = None THEN [text |-> None, status |-> "missing_anchor"]
            ELSE ReplaceOnce(Staged(st.file), st.old, st.new)
    BY <2>2 DEF Edit
  <2> QED
    BY <2>3 DEF StageStep, Counted, Put, Queued
<1> HIDE DEF r, st
<1>7. ~Writing'
  <2>1. pc' \in {"steps", "judge", "aborted"}
    BY <1>1, <1>6, AbandonType DEF TypeInv
  <2> QED
    BY <2>1 DEF Writing
<1>8. CASE r.status # "missing_anchor"
  <2>1. Now' = NextStep(Now, Put(pending, st.file, r.text), Queued(pending, queue, st),
                        Counted(tally, r))
    <3>1. /\ pending' = Put(pending, st.file, r.text) /\ queue' = Queued(pending, queue, st)
          /\ tally' = Counted(tally, r) /\ UNCHANGED <<pc, status>>
      BY <1>6, <1>8
    <3>2. PlaceDirty' = dirty /\ PlacePc' = pc /\ PlaceQueue' = queue' /\ Now.dirty = dirty
          /\ Now.pc = pc
      BY <1>1, <1>2, <1>7, <3>1, NowFields, NotWriting
    <3>3. Now' = Record(View, dirty, before, pc, g, s + 1, Put(pending, st.file, r.text),
                        Queued(pending, queue, st), Counted(tally, r), status, report[child])
      BY <1>1, <1>3, <3>1, <3>2 DEF Now
    <3> QED
      BY <3>2, <3>3, NowFields DEF NextStep
  <2>2. Now' = StageTurn(Grp, Now)
    BY <1>2, <1>8, <2>1, NowFields, NotWriting, Zenon DEF StageTurn, r, st
  <2> QED
    BY <1>1, <1>2, <1>5, <2>2, NowFields, NotWriting DEF Turned, Turn, StepsTurn, Runs, Grp, st
<1>9. CASE r.status = "missing_anchor"
  <2>1. /\ y = Record(View, dirty, before, pc, g, s + 1, pending, queue, Counted(tally, r),
                      status, report[child])
        /\ UNCHANGED <<pending, queue>>
    BY <1>2, <1>6, <1>9, NowFields, NotWriting DEF NextStep, Writing
  <2>2. \A p, w : To(y, p, w) = Record(View, dirty, before, p, g, s + 1, pending, queue,
                                      Counted(tally, r), w, report[child])
    BY <2>1 DEF To, Record
  <2>3. y.view = View /\ y.status = status
    BY <2>1 DEF Record
  <2> HIDE DEF y
  <2>4. Now' = Record(View, dirty, before, pc', g, s + 1, pending, queue, Counted(tally, r),
                      status', report[child])
    BY <1>1, <1>3, <1>6, <1>7, <2>1, NotWriting DEF Now
  <2>5. Now' = IF st.required THEN AbandonTurn(Grp, y) ELSE y
    <3>1. CASE ~st.required
      BY <1>6, <1>9, <2>1, <2>4, <3>1
    <3>2. CASE st.required /\ Clear(Grp.onmiss)
      <4>1. ClearIn(View, Grp.onmiss)
        BY <1>2, <3>2, GroupChecks, ViewChecks DEF TypeInv
      <4>2. IF Grp.hard THEN pc' = "aborted" /\ status' = status
                        ELSE pc' = "judge" /\ status' = "blocked_by_shape"
        BY <1>6, <1>9, <3>2, Zenon DEF Abandon, Raise
      <4> QED
        BY <2>2, <2>3, <2>4, <3>2, <4>1, <4>2 DEF AbandonTurn
    <3>3. CASE st.required /\ ~Clear(Grp.onmiss)
      <4>1. ~ClearIn(View, Grp.onmiss)
        BY <1>2, <3>3, GroupChecks, ViewChecks DEF TypeInv
      <4>2. pc' = "judge" /\ status' \in Status /\ Returns(Grp.onmiss, status')
        BY <1>6, <1>9, <3>3, Zenon DEF Abandon
      <4>3. status' = Verdict(View, Grp.onmiss)
        BY <1>2, <4>2, GroupChecks, OneVerdict DEF TypeInv
      <4> QED
        BY <2>2, <2>3, <2>4, <3>3, <4>1, <4>2, <4>3 DEF AbandonTurn
    <3> QED
      BY <3>1, <3>2, <3>3
  <2>6. Now' = StageTurn(Grp, Now)
    BY <1>2, <1>9, <2>5, NowFields, NotWriting DEF StageTurn, r, st, y
  <2> QED
    BY <1>1, <1>2, <1>5, <2>6, NowFields, NotWriting DEF Turned, Turn, StepsTurn, Runs, Grp, st
<1> QED
  BY <1>8, <1>9

-----------------------------------------------------------------------------
(* A dry run foretells the real one                                        *)

(* No write of a kernel file or of a snapshot fails; the process may die.  *)
WritesSucceed == "write" \notin Faults /\ "snapshot" \notin Faults

(* The child is through; its overlays are next.                            *)
After == {"finish", "address", "address_cp", "moon", "moon_sentinel", "moon_cp",
          "makefile", "makefile_append", "done"}

(* What is reported is what a course of the child on its tree reports: the *)
(* running child is on that course, a child that has ended is through it,  *)
(* and so was every dry run that made a forecast.                          *)
OnCourse(c, t, r) == \E x \in Course(c, t) : x.report = r
GotThrough(c, t, r) == \E x \in Course(c, t) : Through(c, x) /\ x.report = r
CourseOK ==
    /\ enabled => /\ OnCourse(child, entry, report[child])
                  /\ pc \in Running => Now \in Course(child, entry)
                  /\ pc \in After => GotThrough(child, entry, report[child])
    /\ \A p \in forecast : GotThrough(p.child, p.tree, p.report)

(* The inductive invariant.                                                *)
ForecastInv == TypeInv /\ SeenOK /\ CourseOK

(* The start of a run is a place, on any tree.                             *)
LEMMA StartType ==
    ASSUME NEW t \in [Files -> Texts \cup {None}]
    PROVE  Start(t) \in Place
<1>1. NoTexts \in [Files -> Texts \cup {None}] /\ NoTally \in [Tallied -> Nat]
  BY DEF NoTexts, NoTally
<1> QED
  BY <1>1 DEF Start, Record, Place, Status

(* A child starts at the start of its course.                              *)
LEMMA FreshPlace ==
    ASSUME TypeInv, NEW c \in 1..Len(Children), FreshChild(c), disk' = disk,
           report' \in [1..Len(Children) -> Seq(Status)],
           \A k \in 1..Len(Children) : k >= c => report'[k] = <<>>
    PROVE  /\ SeenOK' /\ pc' = "group" /\ Start(disk) \in Place
           /\ Now' = Start(disk) /\ entry' = disk /\ child' = c
           /\ Now' \in Course(c, disk) /\ report'[c] = <<>>
<1>1. /\ child' = c /\ g' = 1 /\ pc' = "group" /\ texts' = NoTexts /\ dirty' = {}
      /\ before' = NoTexts /\ s' = 1 /\ pending' = NoTexts /\ queue' = <<>>
      /\ tally' = NoTally /\ status' = "report_only" /\ entry' = disk
  BY DEF FreshChild
<1>2. disk \in [Files -> Texts \cup {None}] /\ report'[c] = <<>> /\ ~Writing'
  BY <1>1 DEF TypeInv, TypeOK, Writing
<1>3. View' = disk
  BY <1>1, <1>2 DEF View, Read, NoTexts
<1>4. Now' = Start(disk)
  BY <1>1, <1>2, <1>3, NotWriting DEF Now, Start
<1>5. SeenOK'
  BY <1>1, <1>2 DEF SeenOK
<1>6. Start(disk) \in Place
  BY <1>2, StartType
<1>7. Start(disk) \in Course(c, disk)
  BY <1>6 DEF Course, Leads
<1> QED
  BY <1>1, <1>2, <1>4, <1>5, <1>6, <1>7

(* The steps of the running group.                                         *)
Turning == \/ StartGroup \/ OmitStep \/ StageStep \/ StartWrites \/ SkipWrite
           \/ CtxWrite \/ EndSteps \/ Judge
Storing == Snapshot \/ WriteTarget

(* They stay in the group or end it, on the same child, tree and pass.     *)
LEMMA GroupSteps ==
    ASSUME TypeInv, SeenOK, Turning \/ Storing
    PROVE  /\ pc \in Running /\ pc' \in Running
           /\ UNCHANGED <<child, entry, enabled, forecast>>
<1> USE DEF Running, InGroup, hist, call
<1>1. CASE StageStep
  BY <1>1, AbandonType DEF StageStep, TypeInv
<1>2. CASE StartGroup
  BY <1>2 DEF StartGroup
<1>3. CASE OmitStep \/ StartWrites \/ SkipWrite \/ CtxWrite
  BY <1>3 DEF OmitStep, StartWrites, SkipWrite, CtxWrite
<1>4. CASE EndSteps \/ Judge \/ Storing
  BY <1>4 DEF EndSteps, Judge, Storing, Snapshot, WriteTarget
<1> QED
  BY <1>1, <1>2, <1>3, <1>4 DEF Turning

(* Every step keeps what a place is made of.                               *)
LEMMA SeenGroup ==
    ASSUME TypeInv, SeenOK, Turning \/ Storing
    PROVE  SeenOK'
<1> USE DEF SeenOK, Writing, TypeInv, TypeOK
<1>0. UNCHANGED <<child, entry>>
  BY GroupSteps
<1>1. CASE StageStep
  <2>1. pc' \in {"steps", "judge", "aborted"} /\ UNCHANGED <<texts, dirty, report>>
    BY <1>1, AbandonType DEF StageStep, ctx
  <2> QED
    BY <1>0, <2>1
<1>2. CASE StartGroup
  <2>1. pc' \in {"steps", "judge"} /\ UNCHANGED <<texts, dirty, report>>
    BY <1>2 DEF StartGroup
  <2> QED
    BY <1>0, <2>1
<1>3. CASE OmitStep \/ StartWrites \/ SkipWrite \/ EndSteps
  <2>1. pc' \in {"steps", "write", "judge"} /\ UNCHANGED <<texts, dirty, report>>
    BY <1>3 DEF OmitStep, StartWrites, SkipWrite, EndSteps, ctx
  <2> QED
    BY <1>0, <2>1
<1>4. CASE CtxWrite
  <2>1. /\ pc = "write" /\ queue # <<>> /\ texts' = [texts EXCEPT ![Here] = pending[Here]]
        /\ \/ dirty' = dirty \cup {Here} /\ pc' = "write"
           \/ pc' = "snapshot" /\ dirty' = dirty /\ queue' = queue
        /\ UNCHANGED <<report, pending>>
    BY <1>4 DEF CtxWrite
  <2>2. Here \in Files /\ pending[Here] # None
    BY <2>1, HereType DEF LoopOK, InGroup, Here
  <2> QED
    BY <1>0, <2>1, <2>2 DEF Here
<1>5. CASE Snapshot
  <2>1. /\ pc = "snapshot" /\ pc' = "target"
        /\ UNCHANGED <<texts, dirty, report, pending, queue>>
    BY <1>5 DEF Snapshot, ctx
  <2> QED
    BY <1>0, <2>1 DEF Here
<1>6. CASE WriteTarget
  <2>1. /\ pc = "target" /\ pc' = "write" /\ dirty' = dirty \cup {Here}
        /\ UNCHANGED <<texts, report>>
    BY <1>6 DEF WriteTarget
  <2>2. texts[Here] # None
    BY <2>1, HereType DEF LoopOK, InGroup, Here
  <2> QED
    BY <1>0, <2>1, <2>2
<1>7. CASE Judge
  <2>1. /\ pc' \in {"aborted", "group"} /\ UNCHANGED <<texts, dirty>>
        /\ report' = [report EXCEPT ![child] = Append(@, status)]
    BY <1>7 DEF Judge, ctx
  <2> QED
    BY <1>0, <2>1
<1> QED
  BY <1>1, <1>2, <1>3, <1>4, <1>5, <1>6, <1>7 DEF Turning, Storing

(* They keep the child on its course.                                      *)
LEMMA CourseGroup ==
    ASSUME ForecastInv, TypeInv', enabled, Turning \/ Storing
    PROVE  Now' \in Course(child, entry) /\ Now'.report = report'[child]
<1>0. TypeInv /\ SeenOK /\ SeenOK' /\ pc \in Running /\ pc' \in Running /\ child' = child
  BY SeenGroup, GroupSteps DEF ForecastInv
<1>1. Now \in Place /\ Now' \in Place /\ Now \in Course(child, entry)
  <2>1. Now \in Place
    BY <1>0, NowType
  <2>2. (TypeInv /\ SeenOK /\ pc \in Running => Now \in Place)'
    BY NowType, PTL
  <2> QED
    BY <1>0, <2>1, <2>2 DEF ForecastInv, CourseOK
<1>2. Now'.report = report'[child]
  <2>1. (Now.report = report[child])'
    BY NowFields, PTL
  <2> QED
    BY <1>0, <2>1
<1>3. CASE Turned
  <2>1. <<Now, Now'>> \in Turns(child)
    BY <1>1, <1>3 DEF Turns, Turned, Groups
  <2>2. Start(entry) \in Place
    BY <1>0, StartType DEF SeenOK
  <2>3. Turns(child) \in SUBSET (Place \X Place)
    BY DEF Turns
  <2>4. Now' \in Course(child, entry)
    <3>1. \A e \in Turns(child) : e[1] \in Course(child, entry) => e[2] \in Course(child, entry)
      BY <2>2, <2>3, LeadsOn DEF Course
    <3> QED
      BY <1>1, <2>1, <3>1
  <2> QED
    BY <1>2, <2>4
<1>4. CASE Now' = Now
  BY <1>1, <1>2, <1>4
<1> QED
  BY <1>0, <1>3, <1>4, TurnsStartGroup, TurnsOmit, TurnsStage, TurnsStartWrites,
     TurnsSkipWrite, TurnsCtxWrite, TurnsEndSteps, TurnsJudge, WritesStay
     DEF Turning, Storing

(* A step outside the groups that leaves the child's reports alone.        *)
LEMMA CourseQuiet ==
    ASSUME SeenOK, CourseOK, UNCHANGED <<child, entry, enabled, report, forecast, texts, dirty>>,
           pc' \notin Running, pc' \in After => pc \in After
    PROVE  SeenOK' /\ CourseOK'
<1>1. ~Writing'
  BY DEF Writing, Running, InGroup
<1>2. SeenOK'
  BY <1>1 DEF SeenOK
<1>3. CourseOK'
  BY DEF CourseOK
<1> QED
  BY <1>2, <1>3

(* It holds at first, and every step keeps it.                             *)
LEMMA ForecastInit == Init => ForecastInv
<1> SUFFICES ASSUME Init PROVE ForecastInv
  OBVIOUS
<1>1. TypeInv
  BY TypeInit
<1>2. /\ entry = pristine /\ pristine \in [Files -> Texts \cup {None}] /\ child = 1
      /\ pc = "idle" /\ dirty = {} /\ forecast = {} /\ Len(Children) \in Nat \ {0}
      /\ report = [c \in DOMAIN Children |-> <<>>]
  BY TreeAssumption, GroupsAssumption DEF Init
<1>3. report \in [1..Len(Children) -> Seq(Status)] /\ \A k \in 1..Len(Children) : report[k] = <<>>
  <2>1. DOMAIN Children = 1..Len(Children)
    BY GroupsAssumption
  <2> QED
    BY <1>2, <2>1
<1>4. SeenOK
  BY <1>2, <1>3 DEF SeenOK, Writing
<1>5. OnCourse(child, entry, report[child])
  <2>1. Start(entry) \in Place /\ Start(entry).report = <<>>
    BY <1>2, StartType DEF Start, Record
  <2>2. Start(entry) \in Course(child, entry)
    BY <2>1 DEF Course, Leads
  <2> QED
    BY <1>2, <1>3, <2>1, <2>2 DEF OnCourse
<1>6. CourseOK
  BY <1>2, <1>5 DEF CourseOK, Running, InGroup, After
<1> QED
  BY <1>1, <1>4, <1>6 DEF ForecastInv

(* A child that starts is on its course, whatever was reported before.     *)
LEMMA FreshCourse ==
    ASSUME ForecastInv, NEW c \in 1..Len(Children), FreshChild(c), disk' = disk,
           report' \in [1..Len(Children) -> Seq(Status)],
           \A k \in 1..Len(Children) : k >= c => report'[k] = <<>>, forecast' = forecast
    PROVE  SeenOK' /\ CourseOK'
<1>1. /\ SeenOK' /\ pc' = "group" /\ Now' = Start(disk) /\ entry' = disk /\ child' = c
      /\ Now' \in Course(c, disk) /\ report'[c] = <<>>
  BY FreshPlace DEF ForecastInv
<1>2. Start(disk).report = <<>>
  BY DEF Start, Record
<1>3. OnCourse(child', entry', report'[child'])
  BY <1>1, <1>2 DEF OnCourse
<1>4. CourseOK'
  BY <1>1, <1>3 DEF ForecastInv, CourseOK, After
<1> QED
  BY <1>1, <1>4

(* The first child of a run.                                               *)
LEMMA ForecastStart ==
    ASSUME ForecastInv, NEW c \in Targets, NEW d, NEW v, NEW ok, StartRun(c, d, v, ok)
    PROVE  SeenOK' /\ CourseOK'
<1>1. Len(Children) \in Nat \ {0} /\ Targets \subseteq 0..Len(Children)
  BY GroupsAssumption, BoundAssumption
<1>2. PICK e \in 1..Len(Children) : FreshChild(e)
  BY <1>1 DEF StartRun
<1>3. report' = [k \in DOMAIN Children |-> <<>>] /\ disk' = disk /\ forecast' = forecast
  BY DEF StartRun, tree
<1>4. /\ report' \in [1..Len(Children) -> Seq(Status)]
      /\ \A k \in 1..Len(Children) : report'[k] = <<>>
  <2>1. DOMAIN Children = 1..Len(Children)
    BY GroupsAssumption
  <2> QED
    BY <1>3, <2>1
<1> QED
  BY <1>2, <1>3, <1>4, FreshCourse

(* The next child, or the end of the last one: it is through its course.   *)
LEMMA ForecastEndChild ==
    ASSUME ForecastInv, EndChild
    PROVE  SeenOK' /\ CourseOK'
<1>1. /\ pc = "group" /\ g > Len(Groups) /\ UNCHANGED <<disk, report, enabled, forecast>>
      /\ child \in 1..Len(Children) /\ LastChild \in 0..Len(Children)
      /\ report \in [1..Len(Children) -> Seq(Status)]
  <2>1. Len(Children) \in Nat
    BY GroupsAssumption
  <2> QED
    BY <2>1 DEF EndChild, tree, call, ForecastInv, TypeInv, TypeOK, SeenOK, LastChild
<1>2. CASE child < LastChild
  <2>1. child + 1 \in 1..Len(Children) /\ FreshChild(child + 1)
    <3>1. Len(Children) \in Nat
      BY GroupsAssumption
    <3> QED
      BY <1>1, <1>2, <3>1 DEF EndChild
  <2>2. \A k \in 1..Len(Children) : k >= child + 1 => report'[k] = <<>>
    BY <1>1 DEF ForecastInv, SeenOK
  <2> QED
    BY <1>1, <2>1, <2>2, FreshCourse
<1>3. CASE ~(child < LastChild)
  <2>1. pc' \in After /\ UNCHANGED <<texts, dirty, child, entry>>
    BY <1>3 DEF EndChild, ctx, AfterChildren, After
  <2>2. pc' \notin Running /\ ~Writing'
    BY <2>1 DEF Writing, Running, InGroup, After
  <2>3. SeenOK'
    BY <1>1, <2>1, <2>2 DEF ForecastInv, SeenOK
  <2>4. enabled => GotThrough(child, entry, report[child])
    <3> SUFFICES ASSUME enabled PROVE GotThrough(child, entry, report[child])
      OBVIOUS
    <3>1. pc \in Running
      BY <1>1 DEF Running
    <3>2. Now \in Course(child, entry)
      BY <3>1 DEF ForecastInv, CourseOK
    <3>3. Now.pc = pc /\ Now.g = g /\ Now.report = report[child]
      BY <1>1, NowFields, NotWriting DEF Writing, Now, Record
    <3>4. Through(child, Now)
      BY <1>1, <3>3 DEF Through, Groups
    <3> QED
      BY <3>2, <3>3, <3>4 DEF GotThrough
  <2>5. CourseOK'
    BY <1>1, <2>1, <2>2, <2>4 DEF ForecastInv, CourseOK
  <2> QED
    BY <2>3, <2>5
<1> QED
  BY <1>2, <1>3

(* A dry run that ends forecasts what it reported.                         *)
LEMMA ForecastFinish ==
    ASSUME ForecastInv, Finish
    PROVE  SeenOK' /\ CourseOK'
<1>1. /\ pc = "finish" /\ pc' = "done"
      /\ UNCHANGED <<child, entry, enabled, report, texts, dirty>>
  BY DEF Finish, ctx, call
<1>2. pc \in After /\ pc' \in After /\ pc' \notin Running /\ ~Writing'
  BY <1>1 DEF After, Running, InGroup, Writing
<1>3. SeenOK'
  BY <1>1, <1>2 DEF ForecastInv, SeenOK
<1>4. enabled => GotThrough(child, entry, report[child])
  BY <1>2 DEF ForecastInv, CourseOK
<1>5. ASSUME NEW p \in forecast' PROVE GotThrough(p.child, p.tree, p.report)
  <2>1. CASE p \in forecast
    BY <2>1 DEF ForecastInv, CourseOK
  <2>2. CASE enabled /\ p = [child |-> child, tree |-> entry, report |-> report[child]]
    BY <1>4, <2>2
  <2> QED
    BY <1>5, <2>1, <2>2 DEF Finish
<1>6. CourseOK'
  BY <1>1, <1>2, <1>4, <1>5 DEF ForecastInv, CourseOK
<1> QED
  BY <1>3, <1>6

(* An unsupported family: nothing is said of a course.                     *)
LEMMA ForecastReportOnly ==
    ASSUME ForecastInv, ReportOnly
    PROVE  SeenOK' /\ CourseOK'
<1>1. /\ ~enabled /\ pc = "group" /\ UNCHANGED <<pc, child, entry, enabled, forecast, texts, dirty>>
      /\ report' = [report EXCEPT ![child] = Append(@, "report_only")]
  BY DEF ReportOnly, ctx, call, hist
<1>2. SeenOK'
  <2>1. child \in 1..Len(Children) /\ "report_only" \in Status
    BY DEF ForecastInv, TypeInv, TypeOK, Status
  <2>2. ~Writing'
    BY <1>1 DEF Writing
  <2> QED
    BY <1>1, <2>1, <2>2 DEF ForecastInv, SeenOK
<1>3. CourseOK'
  BY <1>1 DEF ForecastInv, CourseOK
<1> QED
  BY <1>2, <1>3

(* The steps of a group.                                                   *)
LEMMA ForecastGroup ==
    ASSUME ForecastInv, TypeInv', Turning \/ Storing
    PROVE  SeenOK' /\ CourseOK'
<1>1. SeenOK'
  BY SeenGroup DEF ForecastInv
<1>2. pc' \in Running /\ UNCHANGED <<child, entry, enabled, forecast>>
  BY GroupSteps DEF ForecastInv
<1>3. pc' \notin After
  BY <1>2 DEF Running, InGroup, After
<1>4. enabled => Now' \in Course(child, entry) /\ Now'.report = report'[child]
  BY CourseGroup
<1>5. enabled => OnCourse(child, entry, report'[child])
  BY <1>4 DEF OnCourse
<1>6. CourseOK'
  BY <1>2, <1>3, <1>4, <1>5 DEF ForecastInv, CourseOK
<1> QED
  BY <1>1, <1>6

(* The overlays, a rollback and the death of the process leave the child's *)
(* reports and its cache alone.                                            *)
LEMMA QuietSteps ==
    ASSUME \/ Overlay \/ Crash \/ StartRollback \/ \E f \in Files : RollbackCopy(f)
           \/ RollbackRemove \/ EndRollback
    PROVE  /\ UNCHANGED <<child, entry, enabled, report, forecast, texts, dirty>>
           /\ pc' \notin Running /\ (pc' \in After => pc \in After)
<1> USE DEF Running, InGroup, After, ctx, call, hist, engine
<1>1. CASE OverlayAddressSkip \/ OverlayAddressSnapshot \/ OverlayAddressCopy
  BY <1>1 DEF OverlayAddressSkip, OverlayAddressSnapshot, OverlayAddressCopy, AfterAddress
<1>2. CASE OverlayMoonNew \/ OverlayMoonSentinel \/ OverlayMoonSnapshot
  BY <1>2 DEF OverlayMoonNew, OverlayMoonSentinel, OverlayMoonSnapshot
<1>3. CASE OverlayMoonCopy \/ OverlayMoonInPlace
  BY <1>3 DEF OverlayMoonCopy, OverlayMoonInPlace
<1>4. CASE OverlayMakefileSnapshot \/ OverlayMakefileAppend
  BY <1>4 DEF OverlayMakefileSnapshot, OverlayMakefileAppend
<1>5. CASE Crash
  BY <1>5 DEF Crash
<1>6. CASE StartRollback
  BY <1>6 DEF StartRollback
<1>7. CASE \E f \in Files : RollbackCopy(f)
  BY <1>7 DEF RollbackCopy
<1>8. CASE RollbackRemove \/ EndRollback
  BY <1>8 DEF RollbackRemove, EndRollback
<1> QED
  BY <1>1, <1>2, <1>3, <1>4, <1>5, <1>6, <1>7, <1>8 DEF Overlay

(* All steps together; no write fails.                                     *)
LEMMA ForecastNext ==
    ASSUME WritesSucceed
    PROVE  ForecastInv /\ [Next]_vars => ForecastInv'
<1> SUFFICES ASSUME ForecastInv, [Next]_vars PROVE ForecastInv'
  OBVIOUS
<1>1. TypeInv'
  BY TypeNext DEF ForecastInv
<1>2. SeenOK' /\ CourseOK'
  <2>1. CASE \E c \in Targets, d \in BOOLEAN, v \in MoonTexts, ok \in Families :
                 StartRun(c, d, v, ok)
    BY <2>1, ForecastStart
  <2>2. CASE Turning \/ Storing
    BY <1>1, <2>2, ForecastGroup
  <2>3. CASE ReportOnly \/ EndChild \/ Finish
    BY <2>3, ForecastReportOnly, ForecastEndChild, ForecastFinish
  <2>4. CASE \/ Overlay \/ Crash \/ StartRollback \/ \E f \in Files : RollbackCopy(f)
             \/ RollbackRemove \/ EndRollback
    BY <2>4, QuietSteps, CourseQuiet DEF ForecastInv
  <2>5. ~SnapshotFails /\ ~WriteFails
    BY DEF WritesSucceed, SnapshotFails, WriteFails, Fault
  <2>6. CASE UNCHANGED vars
    <3>1. UNCHANGED <<child, entry, enabled, report, forecast, texts, dirty, pc>>
      BY <2>6 DEF vars
    <3>2. UNCHANGED <<disk, before, g, s, pending, queue, tally, status>>
      BY <2>6 DEF vars
    <3>3. SeenOK'
      BY <3>1, <3>2 DEF ForecastInv, SeenOK, Writing, Here
    <3>4. Now' = Now
      BY <3>1, <3>2 DEF Now, Record, View, Read, PlaceDirty, PlaceQueue, PlacePc, Writing, Here
    <3>5. CourseOK'
      BY <3>1, <3>4 DEF ForecastInv, CourseOK
    <3> QED
      BY <3>3, <3>5
  <2> QED
    BY <2>1, <2>2, <2>3, <2>4, <2>5, <2>6 DEF Next, Pass, Turning, Storing
<1> QED
  BY <1>1, <1>2 DEF ForecastInv

(* The reports of a run that a dry run foretold.                           *)
LEMMA ForecastHolds == ForecastInv => DryRunForecasts
<1> SUFFICES ASSUME ForecastInv, NEW p \in forecast, enabled, p.child = child, p.tree = entry
             PROVE  /\ pc # "aborted"
                    /\ \A i \in DOMAIN report[child] : report[child][i] = p.report[i]
  BY DEF DryRunForecasts
<1>1. PICK z \in Course(child, entry) : Through(child, z) /\ z.report = p.report
  BY DEF ForecastInv, CourseOK, GotThrough
<1>2. Start(entry) \in Place /\ child \in 1..Len(Children) /\ report[child] \in Seq(Status)
  BY StartType DEF ForecastInv, TypeInv, TypeOK, SeenOK
<1>3. pc # "aborted"
  <2> SUFFICES ASSUME pc = "aborted" PROVE FALSE
    OBVIOUS
  <2>1. Now \in Course(child, entry)
    BY DEF ForecastInv, CourseOK, Running
  <2>2. Now.pc = "aborted"
    BY NotWriting DEF Writing, Now, Record
  <2> QED
    BY <1>1, <1>2, <2>1, <2>2, CoursesAgree
<1>4. PICK y \in Course(child, entry) : y.report = report[child]
  BY DEF ForecastInv, CourseOK, OnCourse
<1>5. Extends(y.report, z.report)
  BY <1>1, <1>2, <1>4, CoursesAgree
<1>6. \A i \in DOMAIN report[child] : report[child][i] = p.report[i]
  BY <1>1, <1>2, <1>4, <1>5 DEF Extends
<1> QED
  BY <1>3, <1>6

(* When no write fails, a real run of a child reports, group by group,     *)
(* what a dry run of it reported on the same tree, and does not end the    *)
(* child: for every list of groups and every tree, also when a process     *)
(* died before or the run does.  An apply_steps() that decides by what is  *)
(* on the disk, not by ctx.read(), would break it                          *)
(* (abk_backport_engine.py:35, 259).                                       *)
THEOREM DryRunsForecast ==
    ASSUME WritesSucceed
    PROVE  Spec => []DryRunForecasts
<1>1. Spec => []ForecastInv
  BY ForecastInit, ForecastNext, PTL DEF Spec
<1> QED
  BY <1>1, ForecastHolds, PTL

-----------------------------------------------------------------------------
(* What a group does to the tree                                           *)

(* Outside of a write the cache of a real run agrees with the disk, and    *)
(* within one it differs in the file being written only.                   *)
CacheOK ==
    ~dry =>
    /\ pc \in {"group", "steps", "write", "judge"} =>
           \A f \in Files : texts[f] # None => disk[f] = texts[f]
    /\ Writing => \A f \in Files : f # Here /\ texts[f] # None => disk[f] = texts[f]

(* While no edit was applied, what is staged is what ctx.read() returns,   *)
(* so that nothing will be written.                                        *)
Unapplied == tally.applied = 0
StagedAsRead == \A f \in Files : pending[f] # None => pending[f] = Read(f)
TouchOK ==
    /\ pc = "steps" => Changed = {} /\ (Unapplied => StagedAsRead)
    /\ pc = "write" /\ Unapplied => Changed = {} /\ StagedAsRead
    /\ Writing => ~Unapplied
    /\ OnlyEditedChanges

(* A required edit that is not optional in the list, once staged, stays    *)
(* staged until a later step of the group edits it; what is staged is      *)
(* queued; what is no longer queued is on the disk.                        *)
Sure(st) == st.required /\ st.only = {} /\ st.unless = {}
EditedAgain(k) ==
    \E j \in DOMAIN Grp.steps :
        /\ j > k /\ Grp.steps[j].file = Grp.steps[k].file
        /\ Grp.steps[j].old \cap Grp.steps[k].new # {}
InQueue(f) == \E i \in DOMAIN queue : queue[i] = f
StepStaged(k) ==
    /\ pending[Grp.steps[k].file] # None
    /\ Grp.steps[k].new \subseteq pending[Grp.steps[k].file] \/ EditedAgain(k)
LandOK ==
    /\ pc = "steps" \/ pc = "write" \/ Writing =>
           \A k \in DOMAIN Grp.steps : k < s /\ Sure(Grp.steps[k]) => StepStaged(k)
    /\ pc = "write" \/ Writing => s > Len(Grp.steps)
    /\ pc = "steps" => \A f \in Files : pending[f] # None => InQueue(f)
    /\ ~dry /\ (pc = "write" \/ Writing) =>
           \A f \in Files : pending[f] # None => InQueue(f) \/ disk[f] = pending[f]

(* Until an edit is reported, or is about to be, the tree is the one the   *)
(* child found; in a dry run always.                                       *)
Quiet == \A i \in DOMAIN report[child] : report[child][i] \notin Edited
QuietOK ==
    /\ dry => ~Writing /\ (pc \in Running => disk = entry)
    /\ Quiet =>
           /\ pc \in {"group", "aborted", "steps"} => disk = entry
           /\ pc = "write" /\ Unapplied => disk = entry
           /\ pc = "judge" /\ status \notin Edited => disk = entry

(* The inductive invariant.                                                *)
GroupInv == ForecastInv /\ CacheOK /\ TouchOK /\ LandOK /\ QuietOK

(* Outside of the groups there is nothing to show but the cache, which is  *)
(* empty when a child starts, and the tree it then finds.                  *)
LEMMA GroupOutside ==
    ASSUME GroupInv,
           \/ pc' \notin Running
           \/ pc' = "group" /\ texts' = NoTexts /\ entry' = disk'
           \/ /\ pc' = "group" /\ pc = "group" /\ UNCHANGED <<disk, texts, dry, entry>>
              /\ Quiet' => Quiet
    PROVE  CacheOK' /\ TouchOK' /\ LandOK' /\ QuietOK'
<1> USE DEF Running, InGroup
<1>1. ~Writing'
  BY DEF Writing
<1>2. TouchOK'
  BY <1>1 DEF TouchOK, OnlyEditedChanges
<1>3. LandOK'
  BY <1>1 DEF LandOK
<1>4. CacheOK' /\ QuietOK'
  <2>1. CASE pc' \notin Running
    BY <1>1, <2>1 DEF CacheOK, QuietOK
  <2>2. CASE pc' = "group" /\ texts' = NoTexts /\ entry' = disk'
    BY <1>1, <2>2 DEF CacheOK, NoTexts, QuietOK
  <2>3. CASE /\ pc' = "group" /\ pc = "group" /\ UNCHANGED <<disk, texts, dry, entry>>
             /\ Quiet' => Quiet
    BY <1>1, <2>3 DEF GroupInv, CacheOK, QuietOK
  <2> QED
    BY <2>1, <2>2, <2>3
<1> QED
  BY <1>2, <1>3, <1>4

(* Only CtxWrite and WriteTarget touch the cache or the disk.              *)
LEMMA CacheGroup ==
    ASSUME GroupInv, TypeInv', Turning \/ Storing
    PROVE  CacheOK'
<1> USE DEF Writing
<1>1. TypeInv /\ SeenOK /\ CacheOK
  BY DEF GroupInv, ForecastInv
<1>2. CASE /\ UNCHANGED <<disk, texts, dry>> /\ ~Writing'
           /\ pc \in {"group", "steps", "write", "judge"}
  BY <1>1, <1>2 DEF CacheOK
<1>3. CASE StartGroup \/ OmitStep \/ StartWrites \/ SkipWrite \/ EndSteps \/ Judge
  <2>1. /\ UNCHANGED <<disk, texts, dry>> /\ pc \in {"group", "steps", "write", "judge"}
        /\ pc' \in {"group", "steps", "write", "judge", "aborted"}
    BY <1>3 DEF StartGroup, OmitStep, StartWrites, SkipWrite, EndSteps, Judge, tree, ctx, call
  <2> QED
    BY <1>2, <2>1
<1>4. CASE StageStep
  <2>1. /\ UNCHANGED <<disk, texts, dry>> /\ pc = "steps"
        /\ pc' \in {"steps", "judge", "aborted"}
    BY <1>1, <1>4, AbandonType DEF StageStep, tree, ctx, call, TypeInv
  <2> QED
    BY <1>2, <2>1
<1>5. CASE CtxWrite
  <2>1. /\ pc = "write" /\ queue # <<>> /\ UNCHANGED <<disk, dry>>
        /\ texts' = [texts EXCEPT ![Here] = pending[Here]]
        /\ ~dry => pc' = "snapshot" /\ queue' = queue
    BY <1>5 DEF CtxWrite, tree, call
  <2>2. ~dry => \A f \in Files : f # Here /\ texts'[f] # None => disk'[f] = texts'[f]
    BY <1>1, <2>1 DEF CacheOK, TypeInv, TypeOK
  <2> QED
    BY <2>1, <2>2 DEF CacheOK, Here
<1>6. CASE Snapshot
  <2>1. /\ pc = "snapshot" /\ pc' = "target" /\ UNCHANGED <<disk, texts, dry, queue>>
    BY <1>6 DEF Snapshot, ctx, call
  <2> QED
    BY <1>1, <2>1 DEF CacheOK, Here
<1>7. CASE WriteTarget
  <2>1. /\ pc = "target" /\ pc' = "write" /\ UNCHANGED <<texts, dry>>
        /\ disk' = [disk EXCEPT ![Here] = pending[Here]]
    BY <1>7 DEF WriteTarget, call
  <2>2. texts[Here] = pending[Here]
    BY <1>1, <2>1 DEF SeenOK
  <2>3. ~dry => \A f \in Files : texts'[f] # None => disk'[f] = texts'[f]
    BY <1>1, <2>1, <2>2 DEF CacheOK, TypeInv, TypeOK
  <2> QED
    BY <2>1, <2>3 DEF CacheOK
<1> QED
  BY <1>3, <1>4, <1>5, <1>6, <1>7 DEF Turning, Storing

(* The texts a step reads stay as they are until the group writes.         *)
LEMMA StagedSame ==
    ASSUME UNCHANGED <<disk, texts>>
    PROVE  /\ \A f : Read(f)' = Read(f)
           /\ pending' = pending => StagedAsRead' = StagedAsRead
<1>1. \A f : Read(f)' = Read(f)
  BY DEF Read
<1> QED
  BY <1>1 DEF StagedAsRead

(* A step that applies no edit stages what it reads.                       *)
LEMMA StageAsRead ==
    ASSUME TypeInv, TouchOK, StageStep, Unapplied'
    PROVE  StagedAsRead'
<1> DEFINE st == Grp.steps[s]
           r == IF Staged(st.file) = None THEN [text |-> None, status |-> "missing_anchor"]
                ELSE ReplaceOnce(Staged(st.file), st.old, st.new)
<1>1. /\ tally' = [tally EXCEPT ![r.status] = @ + 1] /\ UNCHANGED <<disk, texts>>
      /\ IF r.status = "missing_anchor" THEN UNCHANGED pending
         ELSE pending' = [pending EXCEPT ![st.file] = r.text]
      /\ pc = "steps"
  BY DEF StageStep, tree, ctx
<1>2. r.status \in Tallied /\ (r.status = "already_present" => r.text = Staged(st.file))
  BY DEF ReplaceOnce, Tallied
<1>3. tally \in [Tallied -> Nat] /\ pending \in [Files -> Texts \cup {None}]
  BY DEF TypeInv, TypeOK
<1> HIDE DEF r
<1>4. r.status # "applied" /\ Unapplied
  <2>1. CASE r.status = "applied"
    <3>1. tally'.applied = tally.applied + 1 /\ tally.applied \in Nat
      BY <1>1, <1>3, <2>1 DEF Tallied
    <3> QED
      BY <3>1 DEF Unapplied
  <2>2. CASE r.status # "applied"
    <3>1. tally'.applied = tally.applied
      BY <1>1, <1>2, <1>3, <2>2 DEF Tallied
    <3> QED
      BY <2>2, <3>1 DEF Unapplied
  <2> QED
    BY <2>1, <2>2
<1>5. StagedAsRead
  BY <1>1, <1>4 DEF TouchOK
<1>6. \A f : Read(f)' = Read(f)
  BY <1>1, StagedSame
<1>7. CASE r.status = "missing_anchor"
  BY <1>1, <1>5, <1>7, StagedSame
<1>8. CASE r.status = "already_present"
  <2>1. pending' = [pending EXCEPT ![st.file] = Staged(st.file)]
    BY <1>1, <1>2, <1>8
  <2>2. st.file \in Files => Staged(st.file) = Read(st.file)
    BY <1>5 DEF StagedAsRead, Staged
  <2>3. ASSUME NEW f \in Files, pending'[f] # None PROVE pending'[f] = Read(f)
    <3>1. CASE f = st.file
      BY <1>3, <2>1, <2>2, <3>1
    <3>2. CASE f # st.file
      BY <1>3, <1>5, <2>1, <2>3, <3>2 DEF StagedAsRead
    <3> QED
      BY <3>1, <3>2
  <2> QED
    BY <1>6, <2>3 DEF StagedAsRead
<1> QED
  BY <1>2, <1>4, <1>7, <1>8 DEF Tallied

(* Who is about to write something has applied an edit.                    *)
LEMMA WritesApplied ==
    ASSUME TypeInv, TouchOK, CtxWrite
    PROVE  ~Unapplied
<1>1. pc = "write" /\ queue # <<>> /\ pending[Here] # Read(Here)
  BY DEF CtxWrite
<1>2. Here \in Files /\ pending[Here] # None
  BY <1>1, HereType DEF TypeInv, TypeOK, LoopOK, InGroup, Here
<1> QED
  BY <1>1, <1>2 DEF TouchOK, StagedAsRead

(* A group changes texts in its second loop only, and only after an edit   *)
(* was applied.                                                            *)
LEMMA TouchGroup ==
    ASSUME GroupInv, TypeInv', Turning \/ Storing
    PROVE  TouchOK'
<1> USE DEF Writing, OnlyEditedChanges
<1>1. TypeInv /\ SeenOK /\ TouchOK
  BY DEF GroupInv, ForecastInv
<1>2. CASE StartGroup
  <2>1. /\ pc' \in {"steps", "judge"} /\ pending' = NoTexts /\ UNCHANGED <<texts, dirty>>
        /\ before' = [f \in Files |-> IF f \in dirty THEN texts[f] ELSE None]
    BY <1>2 DEF StartGroup
  <2>2. Changed' = {}
    BY <1>1, <2>1 DEF Changed, TypeInv, TypeOK
  <2>3. StagedAsRead'
    BY <2>1 DEF StagedAsRead, NoTexts
  <2> QED
    BY <2>1, <2>2, <2>3 DEF TouchOK
<1>3. CASE OmitStep \/ StartWrites
  <2>1. /\ pc = "steps" /\ pc' \in {"steps", "write"}
        /\ UNCHANGED <<disk, texts, dirty, before, tally, pending>>
    BY <1>3 DEF OmitStep, StartWrites, ctx, tree
  <2>2. Changed' = Changed /\ Unapplied' = Unapplied /\ StagedAsRead' = StagedAsRead
    BY <2>1, StagedSame DEF Changed, Unapplied
  <2> QED
    BY <1>1, <2>1, <2>2 DEF TouchOK
<1>4. CASE StageStep
  <2>1. pc = "steps" /\ UNCHANGED <<texts, dirty, before>> /\ pc' \in {"steps", "judge", "aborted"}
    BY <1>1, <1>4, AbandonType DEF StageStep, ctx, TypeInv
  <2>2. Changed' = {}
    BY <1>1, <2>1 DEF TouchOK, Changed
  <2>3. Unapplied' => StagedAsRead'
    BY <1>1, <1>4, StageAsRead
  <2> QED
    BY <2>1, <2>2, <2>3 DEF TouchOK
<1>5. CASE SkipWrite
  <2>1. /\ pc = "write" /\ pc' = "write"
        /\ UNCHANGED <<disk, texts, dirty, before, tally, pending>>
    BY <1>5 DEF SkipWrite, ctx, tree
  <2>2. Changed' = Changed /\ Unapplied' = Unapplied /\ StagedAsRead' = StagedAsRead
    BY <2>1, StagedSame DEF Changed, Unapplied
  <2> QED
    BY <1>1, <2>1, <2>2 DEF TouchOK
<1>6. CASE CtxWrite
  <2>1. pc' \in {"write", "snapshot"} /\ UNCHANGED tally
    BY <1>6 DEF CtxWrite
  <2>2. ~Unapplied'
    BY <1>1, <1>6, <2>1, WritesApplied DEF Unapplied
  <2> QED
    BY <2>1, <2>2 DEF TouchOK
<1>7. CASE Storing
  <2>1. pc \in {"snapshot", "target"} /\ pc' \in {"target", "write"} /\ UNCHANGED tally
    BY <1>7 DEF Storing, Snapshot, WriteTarget
  <2> QED
    BY <1>1, <2>1 DEF TouchOK, Unapplied
<1>8. CASE EndSteps
  <2>1. /\ pc = "write" /\ pc' = "judge" /\ status' = StepsStatus(tally)
        /\ UNCHANGED <<texts, dirty, before>>
    BY <1>8 DEF EndSteps, ctx
  <2>2. status' \notin Edited => Unapplied
    BY <2>1 DEF StepsStatus, Edited, Unapplied
  <2>3. Changed' = Changed
    BY <2>1 DEF Changed
  <2> QED
    BY <1>1, <2>1, <2>2, <2>3 DEF TouchOK
<1>9. CASE Judge
  <2>1. pc' \in {"aborted", "group"}
    BY <1>9 DEF Judge
  <2> QED
    BY <2>1 DEF TouchOK
<1> QED
  BY <1>2, <1>3, <1>4, <1>5, <1>6, <1>7, <1>8, <1>9 DEF Turning, Storing

(* Nothing is written before the first edit is reported, and nothing in a  *)
(* dry run.                                                                *)
LEMMA QuietGroup ==
    ASSUME GroupInv, TypeInv', Turning \/ Storing
    PROVE  QuietOK'
<1>1. TypeInv /\ TouchOK /\ QuietOK /\ SeenOK
  BY DEF GroupInv, ForecastInv
<1>2. pc \in Running /\ UNCHANGED <<child, entry, dry>>
  <2>1. UNCHANGED dry
    BY DEF Turning, Storing, StartGroup, OmitStep, StageStep, StartWrites, SkipWrite,
       CtxWrite, EndSteps, Judge, Snapshot, WriteTarget, call
  <2> QED
    BY <1>1, <2>1, GroupSteps
<1>3. CASE StartGroup
  <2>1. pc = "group" /\ pc' \in {"steps", "judge"} /\ UNCHANGED <<disk, report>>
    BY <1>3 DEF StartGroup, tree
  <2> QED
    BY <1>1, <1>2, <2>1 DEF QuietOK, Quiet, Writing, Running, InGroup
<1>4. CASE StageStep
  <2>1. /\ pc = "steps" /\ pc' \in {"steps", "judge", "aborted"} /\ UNCHANGED <<disk, report>>
    BY <1>1, <1>4, AbandonType DEF StageStep, tree, TypeInv
  <2> QED
    BY <1>1, <1>2, <2>1 DEF QuietOK, Quiet, Writing, Running, InGroup
<1>5. CASE OmitStep \/ StartWrites
  <2>1. pc = "steps" /\ pc' \in {"steps", "write"} /\ UNCHANGED <<disk, report>>
    BY <1>5 DEF OmitStep, StartWrites, tree
  <2> QED
    BY <1>1, <1>2, <2>1 DEF QuietOK, Quiet, Writing, Running, InGroup
<1>6. CASE SkipWrite
  <2>1. pc = "write" /\ pc' = "write" /\ UNCHANGED <<disk, report, tally>>
    BY <1>6 DEF SkipWrite, tree
  <2> QED
    BY <1>1, <1>2, <2>1 DEF QuietOK, Quiet, Writing, Running, InGroup, Unapplied
<1>7. CASE CtxWrite
  <2>1. /\ pc = "write" /\ UNCHANGED <<disk, report, tally>>
        /\ IF dry THEN pc' = "write" ELSE pc' = "snapshot"
    BY <1>7 DEF CtxWrite, tree
  <2>2. ~Unapplied'
    BY <1>1, <1>7, <2>1, WritesApplied DEF Unapplied
  <2> QED
    BY <1>1, <1>2, <2>1, <2>2 DEF QuietOK, Quiet, Writing, Running, InGroup
<1>8. CASE Storing
  <2>1. Writing /\ pc' \in {"target", "write"} /\ UNCHANGED tally
    BY <1>8 DEF Storing, Snapshot, WriteTarget, Writing
  <2>2. ~Unapplied' /\ ~dry'
    BY <1>1, <1>2, <2>1 DEF TouchOK, QuietOK, Unapplied
  <2> QED
    BY <2>1, <2>2 DEF QuietOK, Writing
<1>9. CASE EndSteps
  <2>1. /\ pc = "write" /\ pc' = "judge" /\ status' = StepsStatus(tally)
        /\ UNCHANGED <<disk, report>>
    BY <1>9 DEF EndSteps, tree
  <2>2. status' \notin Edited => Unapplied
    BY <2>1 DEF StepsStatus, Edited, Unapplied
  <2> QED
    BY <1>1, <1>2, <2>1, <2>2 DEF QuietOK, Quiet, Writing, Running, InGroup
<1>10. CASE Judge
  <2>1. /\ pc = "judge" /\ pc' \in {"aborted", "group"} /\ UNCHANGED disk
        /\ report' = [report EXCEPT ![child] = Append(@, status)]
    BY <1>10 DEF Judge, tree
  <2>2. Quiet' => Quiet /\ status \notin Edited
    <3>1. report'[child] = Append(report[child], status) /\ report[child] \in Seq(Status)
      BY <1>1, <2>1 DEF TypeInv, TypeOK, SeenOK
    <3>2. /\ \A i \in DOMAIN report[child] : i \in DOMAIN report'[child]
                                             /\ report'[child][i] = report[child][i]
          /\ Len(report[child]) + 1 \in DOMAIN report'[child]
          /\ report'[child][Len(report[child]) + 1] = status
      BY <3>1
    <3> QED
      BY <1>2, <3>2 DEF Quiet
  <2> QED
    BY <1>1, <1>2, <2>1, <2>2 DEF QuietOK, Writing, Running, InGroup
<1> QED
  BY <1>3, <1>4, <1>5, <1>6, <1>7, <1>8, <1>9, <1>10 DEF Turning, Storing

(* A step of the loop keeps what earlier steps have staged, and stages its *)
(* own edit.                                                               *)
LEMMA StageLands ==
    ASSUME GroupInv, TypeInv', StageStep, pc' = "steps"
    PROVE  LandOK'
<1> DEFINE st == Grp.steps[s]
           r == IF Staged(st.file) = None THEN [text |-> None, status |-> "missing_anchor"]
                ELSE ReplaceOnce(Staged(st.file), st.old, st.new)
<1> USE DEF Writing
<1>1. /\ pc = "steps" /\ s' = s + 1 /\ UNCHANGED <<child, g>> /\ s <= Len(Grp.steps)
      /\ IF r.status = "missing_anchor"
         THEN /\ UNCHANGED <<pending, queue>>
              /\ IF st.required THEN Abandon ELSE UNCHANGED <<pc, status>>
         ELSE /\ pending' = [pending EXCEPT ![st.file] = r.text]
              /\ queue' = IF pending[st.file] = None THEN Append(queue, st.file) ELSE queue
  BY DEF StageStep
<1>2. TypeInv /\ LandOK /\ Grp' = Grp /\ g <= Len(Groups)
  BY <1>1 DEF GroupInv, ForecastInv, Grp, Groups, TypeInv, LoopOK, InGroup
<1>3. /\ Grp.steps \in Seq(Step) /\ s \in DOMAIN Grp.steps /\ st \in Step
      /\ pending \in [Files -> Texts \cup {None}] /\ queue \in Seq(Files) /\ s \in Nat
  <2>1. Grp.steps \in Seq(Step)
    BY <1>2, GroupType DEF TypeInv, Group
  <2>2. s \in Nat \ {0}
    BY <1>2 DEF TypeInv, TypeOK
  <2> QED
    BY <1>1, <1>2, <2>1, <2>2 DEF TypeInv, TypeOK
<1>4. st.file \in Files /\ st.old \in Texts /\ st.new \in Texts
  BY <1>3 DEF Step
<1>5. Staged(st.file) = None \/ Staged(st.file) \in Texts
  BY <1>2, <1>4, ReadType DEF Staged, TypeInv, TypeOK
<1>6. CASE r.status = "missing_anchor"
  <2>1. UNCHANGED <<pending, queue>> /\ ~st.required
    <3>1. ~st.required
      BY <1>1, <1>2, <1>6, AbandonType DEF TypeInv
    <3> QED
      BY <1>1, <1>6, <3>1
  <2>2. ASSUME NEW k \in DOMAIN Grp.steps, k < s', Sure(Grp.steps[k]) PROVE StepStaged(k)
    <3>1. k < s
      <4>1. k # s
        BY <2>1, <2>2 DEF Sure
      <4> QED
        BY <1>1, <1>3, <2>2, <4>1
    <3> QED
      BY <1>1, <1>2, <2>2, <3>1 DEF LandOK
  <2>3. \A k : StepStaged(k) => StepStaged(k)'
    BY <1>2, <2>1 DEF StepStaged, EditedAgain
  <2>4. \A f \in Files : pending'[f] # None => InQueue(f)'
    BY <1>1, <1>2, <2>1 DEF LandOK, InQueue
  <2> QED
    BY <1>2, <2>2, <2>3, <2>4 DEF LandOK
<1>7. CASE r.status # "missing_anchor"
  <2>1. /\ pending' = [pending EXCEPT ![st.file] = r.text]
        /\ queue' = IF pending[st.file] = None THEN Append(queue, st.file) ELSE queue
    BY <1>1, <1>7
  <2>2. /\ Staged(st.file) \in Texts /\ r.text \in Texts /\ st.new \subseteq r.text
        /\ \A a \in Staged(st.file) : a \in r.text \/ a \in st.old
    <3>1. Staged(st.file) # None
      BY <1>7
    <3>2. Staged(st.file) \in Texts
      BY <1>5, <3>1
    <3>3. r = ReplaceOnce(Staged(st.file), st.old, st.new)
      BY <3>1
    <3>4. \/ r.text = Staged(st.file) /\ st.new \subseteq Staged(st.file)
          \/ r.text = (Staged(st.file) \ st.old) \cup st.new
      BY <1>7, <3>3 DEF ReplaceOnce
    <3>5. r.text \in Texts
      BY <1>4, <3>2, <3>3, ReplaceOnceType
    <3> QED
      BY <3>2, <3>4, <3>5
  <2> HIDE DEF r
  <2>3. pending'[st.file] = r.text /\ \A f \in Files : f # st.file => pending'[f] = pending[f]
    BY <1>3, <1>4, <2>1
  <2>4. r.text # None
    BY <2>2, TextsNotNone
  <2>5. ASSUME NEW k \in DOMAIN Grp.steps, k < s', Sure(Grp.steps[k]) PROVE StepStaged(k)'
    <3>0. Grp.steps[k].file \in Files /\ k \in Nat
      <4>1. Grp.steps[k] \in Step /\ k \in Nat
        BY <1>3
      <4> QED
        BY <4>1 DEF Step
    <3>1. CASE k = s
      BY <1>2, <2>2, <2>3, <2>4, <3>1 DEF StepStaged
    <3>2. CASE k # s
      <4>1. k < s
        BY <1>1, <1>3, <2>5, <3>0, <3>2
      <4>2. StepStaged(k)
        BY <1>1, <1>2, <2>5, <4>1 DEF LandOK
      <4>3. EditedAgain(k) => EditedAgain(k)'
        BY <1>2 DEF EditedAgain
      <4>4. CASE Grp.steps[k].file # st.file
        BY <1>2, <2>3, <3>0, <4>2, <4>3, <4>4 DEF StepStaged
      <4>5. CASE Grp.steps[k].file = st.file
        <5>1. Staged(st.file) = pending[st.file]
          BY <4>2, <4>5 DEF StepStaged, Staged
        <5>2. CASE EditedAgain(k)
          BY <1>2, <2>3, <2>4, <4>3, <4>5, <5>2 DEF StepStaged
        <5>3. CASE Grp.steps[k].new \subseteq pending[st.file]
          <6>1. CASE st.old \cap Grp.steps[k].new = {}
            <7>1. Grp.steps[k].new \subseteq r.text
              BY <2>2, <5>1, <5>3, <6>1
            <7> QED
              BY <1>2, <2>3, <2>4, <4>5, <7>1 DEF StepStaged
          <6>2. CASE st.old \cap Grp.steps[k].new # {}
            <7>1. EditedAgain(k)
              BY <1>3, <4>1, <4>5, <6>2 DEF EditedAgain
            <7> QED
              BY <1>2, <2>3, <2>4, <4>3, <4>5, <7>1 DEF StepStaged
          <6> QED
            BY <6>1, <6>2
        <5> QED
          BY <4>2, <4>5, <5>2, <5>3 DEF StepStaged
      <4> QED
        BY <4>4, <4>5
    <3> QED
      BY <3>1, <3>2
  <2>6. ASSUME NEW f \in Files, pending'[f] # None PROVE InQueue(f)'
    <3>1. CASE pending[f] # None
      <4>1. PICK i \in DOMAIN queue : queue[i] = f
        BY <1>1, <1>2, <3>1 DEF LandOK, InQueue
      <4>2. i \in DOMAIN queue' /\ queue'[i] = f
        BY <1>3, <1>4, <2>1, <4>1
      <4> QED
        BY <4>2 DEF InQueue
    <3>2. CASE pending[f] = None
      <4>1. f = st.file
        BY <2>3, <2>6, <3>2
      <4>2. queue' = Append(queue, f)
        BY <2>1, <3>2, <4>1
      <4>3. Len(queue) + 1 \in DOMAIN queue' /\ queue'[Len(queue) + 1] = f
        BY <1>3, <4>2
      <4> QED
        BY <4>3 DEF InQueue
    <3> QED
      BY <3>1, <3>2
  <2> QED
    BY <1>2, <2>5, <2>6 DEF LandOK
<1> QED
  BY <1>6, <1>7

(* The second loop: a file leaves the queue once it is on the disk.        *)
LEMMA WriteLands ==
    ASSUME GroupInv, TypeInv', SkipWrite \/ CtxWrite \/ Storing
    PROVE  LandOK'
<1> USE DEF Writing
<1>1. TypeInv /\ SeenOK /\ LandOK /\ CacheOK
  BY DEF GroupInv, ForecastInv
<1>2. /\ (pc = "write" \/ Writing) /\ (pc' = "write" \/ Writing')
      /\ UNCHANGED <<child, g, s, pending, dry>>
      /\ queue # <<>> /\ queue \in Seq(Files) /\ Here \in Files
  <2>1. /\ (pc = "write" \/ Writing) /\ (pc' = "write" \/ Writing')
        /\ UNCHANGED <<child, g, s, pending, dry>>
        /\ Writing \/ queue # <<>>
    BY DEF SkipWrite, CtxWrite, Storing, Snapshot, WriteTarget, call
  <2>2. queue # <<>>
    BY <1>1, <2>1 DEF TypeInv, LoopOK
  <2> QED
    BY <1>1, <2>1, <2>2, HereType DEF TypeInv, TypeOK
<1>3. Grp' = Grp
  BY <1>2 DEF Grp, Groups
<1>4. /\ \A k \in DOMAIN Grp.steps : k < s /\ Sure(Grp.steps[k]) => StepStaged(k)
      /\ s > Len(Grp.steps)
  BY <1>1, <1>2 DEF LandOK
<1>5. \A k : StepStaged(k) => StepStaged(k)'
  BY <1>2, <1>3 DEF StepStaged, EditedAgain
<1>6. ~dry => \A f \in Files : pending[f] # None => InQueue(f) \/ disk[f] = pending[f]
  BY <1>1, <1>2 DEF LandOK
<1>7. \A f \in Files : InQueue(f) /\ f # Here /\ queue' = Tail(queue) => InQueue(f)'
  <2> SUFFICES ASSUME NEW f \in Files, InQueue(f), f # Here, queue' = Tail(queue) PROVE InQueue(f)'
    OBVIOUS
  <2>1. PICK i \in DOMAIN queue : queue[i] = f
    BY DEF InQueue
  <2>2. i # 1
    BY <1>2, <2>1 DEF Here
  <2>3. i - 1 \in DOMAIN queue' /\ queue'[i - 1] = f
    BY <1>2, <2>1, <2>2
  <2> QED
    BY <2>3 DEF InQueue
<1>8. ~dry => \A f \in Files : pending'[f] # None => InQueue(f)' \/ disk'[f] = pending'[f]
  <2>1. CASE SkipWrite
    <3>1. pc = "write" /\ pending[Here] = Read(Here) /\ queue' = Tail(queue) /\ disk' = disk
      BY <2>1 DEF SkipWrite, tree
    <3>2. ~dry => disk[Here] = pending[Here]
      BY <1>1, <1>2, <3>1 DEF CacheOK, Read
    <3> QED
      BY <1>2, <1>6, <1>7, <3>1, <3>2
  <2>2. CASE CtxWrite
    <3>1. ~dry => UNCHANGED <<disk, queue>>
      BY <2>2 DEF CtxWrite, tree
    <3> QED
      BY <1>2, <1>6, <3>1 DEF InQueue
  <2>3. CASE Snapshot
    <3>1. UNCHANGED <<disk, queue>>
      BY <2>3 DEF Snapshot
    <3> QED
      BY <1>2, <1>6, <3>1 DEF InQueue
  <2>4. CASE WriteTarget
    <3>1. queue' = Tail(queue) /\ disk' = [disk EXCEPT ![Here] = pending[Here]]
      BY <2>4 DEF WriteTarget
    <3>2. disk'[Here] = pending[Here] /\ \A f \in Files : f # Here => disk'[f] = disk[f]
      BY <1>1, <1>2, <3>1 DEF TypeInv, TypeOK
    <3> QED
      BY <1>2, <1>6, <1>7, <3>1, <3>2
  <2> QED
    BY <2>1, <2>2, <2>3, <2>4 DEF Storing
<1>9. /\ \A k \in DOMAIN Grp'.steps : k < s' /\ Sure(Grp'.steps[k]) => StepStaged(k)'
      /\ s' > Len(Grp'.steps) /\ pc' # "steps"
  BY <1>2, <1>3, <1>4, <1>5
<1> QED
  BY <1>2, <1>8, <1>9 DEF LandOK

(* The other steps of a group.                                             *)
LEMMA LandGroup ==
    ASSUME GroupInv, TypeInv', Turning \/ Storing
    PROVE  LandOK'
<1> USE DEF Writing
<1>1. TypeInv /\ LandOK
  BY DEF GroupInv, ForecastInv
<1>2. CASE pc' \in {"judge", "aborted", "group"}
  BY <1>2 DEF LandOK
<1>3. CASE StartGroup /\ pc' = "steps"
  <2>1. s' = 1 /\ pending' = NoTexts /\ pc' = "steps"
    BY <1>3 DEF StartGroup
  <2>2. \A f \in Files : pending'[f] = None
    BY <2>1 DEF NoTexts
  <2>3. \A k \in DOMAIN Grp'.steps : ~(k < s')
    <3>1. g <= Len(Groups) /\ UNCHANGED <<child, g>>
      BY <1>3 DEF StartGroup
    <3>2. Grp' = Grp /\ Grp.steps \in Seq(Step)
      BY <1>1, <3>1, GroupType DEF Grp, Groups, TypeInv, Group
    <3> QED
      BY <2>1, <3>2
  <2> QED
    BY <2>1, <2>2, <2>3 DEF LandOK
<1>4. CASE OmitStep
  <2>1. /\ pc = "steps" /\ pc' = "steps" /\ s' = s + 1 /\ ~Listed(Grp.steps[s])
        /\ UNCHANGED <<child, g, pending, queue>>
    BY <1>4 DEF OmitStep
  <2>2. Grp' = Grp /\ s \in Nat
    BY <1>1, <2>1 DEF Grp, Groups, TypeInv, TypeOK
  <2>3. ~Sure(Grp.steps[s])
    BY <2>1 DEF Sure, Listed
  <2>4. \A k : StepStaged(k) => StepStaged(k)'
    BY <2>1, <2>2 DEF StepStaged, EditedAgain
  <2>5. \A f \in Files : pending'[f] # None => InQueue(f)'
    BY <1>1, <2>1 DEF LandOK, InQueue
  <2>6. ASSUME NEW k \in DOMAIN Grp.steps, k < s', Sure(Grp.steps[k]) PROVE StepStaged(k)
    <3>1. k \in Nat /\ k # s
      <4>1. Grp.steps \in Seq(Step)
        BY <1>1, <2>1, GroupType DEF TypeInv, LoopOK, InGroup, Group
      <4> QED
        BY <2>3, <2>6, <4>1
    <3>2. k < s
      BY <2>1, <2>2, <2>6, <3>1
    <3> QED
      BY <1>1, <2>1, <2>6, <3>2 DEF LandOK
  <2> QED
    BY <2>1, <2>2, <2>4, <2>5, <2>6 DEF LandOK
<1>5. CASE StartWrites
  <2>1. /\ pc = "steps" /\ pc' = "write" /\ s > Len(Grp.steps)
        /\ UNCHANGED <<child, g, s, pending, queue>>
    BY <1>5 DEF StartWrites
  <2>2. Grp' = Grp
    BY <2>1 DEF Grp, Groups
  <2>3. \A k : StepStaged(k) => StepStaged(k)'
    BY <2>1, <2>2 DEF StepStaged, EditedAgain
  <2>4. \A f \in Files : pending'[f] # None => InQueue(f)'
    BY <1>1, <2>1 DEF LandOK, InQueue
  <2>5. \A k \in DOMAIN Grp.steps : k < s /\ Sure(Grp.steps[k]) => StepStaged(k)
    BY <1>1, <2>1 DEF LandOK
  <2> QED
    BY <2>1, <2>2, <2>3, <2>4, <2>5 DEF LandOK
<1>6. CASE StageStep
  <2>1. pc' \in {"steps", "judge", "aborted"}
    BY <1>1, <1>6, AbandonType DEF StageStep, TypeInv
  <2> QED
    BY <1>2, <1>6, <2>1, StageLands
<1>7. CASE EndSteps \/ Judge \/ (StartGroup /\ pc' # "steps")
  <2>1. pc' \in {"judge", "aborted", "group"}
    BY <1>7 DEF EndSteps, Judge, StartGroup
  <2> QED
    BY <1>2, <2>1
<1> QED
  BY <1>3, <1>4, <1>5, <1>6, <1>7, WriteLands DEF Turning, Storing

(* Nothing is staged before the first group.                               *)
LEMMA GroupInit == Init => GroupInv
<1> SUFFICES ASSUME Init PROVE GroupInv
  OBVIOUS
<1>1. pc = "idle" /\ ~Writing
  BY DEF Init, Writing
<1> QED
  BY <1>1, ForecastInit DEF GroupInv, CacheOK, TouchOK, LandOK, OnlyEditedChanges, QuietOK,
     Running, InGroup

(* Every step keeps the invariant; no write fails.                         *)
LEMMA GroupNext ==
    ASSUME WritesSucceed
    PROVE  GroupInv /\ [Next]_vars => GroupInv'
<1> SUFFICES ASSUME GroupInv, [Next]_vars PROVE GroupInv'
  OBVIOUS
<1>1. ForecastInv' /\ TypeInv'
  BY ForecastNext DEF GroupInv, ForecastInv
<1>2. CASE Turning \/ Storing
  BY <1>1, <1>2, CacheGroup, TouchGroup, LandGroup, QuietGroup DEF GroupInv
<1>3. CASE \E c \in Targets, d \in BOOLEAN, v \in MoonTexts, ok \in Families : StartRun(c, d, v, ok)
  <2>1. pc' = "group" /\ texts' = NoTexts /\ entry' = disk'
    BY <1>3 DEF StartRun, FreshChild, tree
  <2> QED
    BY <1>1, <2>1, GroupOutside DEF GroupInv
<1>4. CASE ReportOnly
  <2>1. pc' = "group" /\ pc = "group" /\ UNCHANGED <<disk, texts, dry, entry>>
    BY <1>4 DEF ReportOnly, tree, ctx, call, hist
  <2>2. Quiet' => Quiet
    <3>1. child' = child /\ report'[child] = Append(report[child], "report_only")
      BY <1>4 DEF ReportOnly, GroupInv, ForecastInv, SeenOK, TypeInv, TypeOK
    <3>2. report[child] \in Seq(Status)
      BY DEF GroupInv, ForecastInv, SeenOK, TypeInv, TypeOK
    <3> QED
      BY <3>1, <3>2 DEF Quiet
  <2> QED
    BY <1>1, <2>1, <2>2, GroupOutside DEF GroupInv
<1>5. CASE EndChild
  <2>1. \/ pc' = "group" /\ texts' = NoTexts /\ entry' = disk'
        \/ pc' \notin Running
    BY <1>5 DEF EndChild, FreshChild, AfterChildren, InGroup, Running, tree
  <2> QED
    BY <1>1, <2>1, GroupOutside DEF GroupInv
<1>6. CASE Finish
  <2>1. pc' \notin Running
    BY <1>6 DEF Finish, InGroup, Running
  <2> QED
    BY <1>1, <2>1, GroupOutside DEF GroupInv
<1>7. CASE \/ Overlay \/ Crash \/ StartRollback \/ \E f \in Files : RollbackCopy(f)
           \/ RollbackRemove \/ EndRollback
  <2>1. pc' \notin Running
    BY <1>7, QuietSteps
  <2> QED
    BY <1>1, <2>1, GroupOutside DEF GroupInv
<1>8. CASE UNCHANGED vars
  <2>1. /\ CacheOK' = CacheOK /\ TouchOK' = TouchOK /\ LandOK' = LandOK
        /\ QuietOK' = QuietOK
    <3>1. UNCHANGED <<dry, entry, report, pc, texts, disk, queue, dirty, before, tally, status,
                      pending, s, child, g>>
      BY <1>8 DEF vars
    <3>2. CacheOK' = CacheOK
      BY <3>1 DEF CacheOK, Writing, Here
    <3>3. TouchOK' = TouchOK
      BY <3>1 DEF TouchOK, Writing, Unapplied, StagedAsRead, Read, OnlyEditedChanges, Changed
    <3>4. LandOK' = LandOK
      BY <3>1 DEF LandOK, Writing, StepStaged, EditedAgain, InQueue, Grp, Groups
    <3>5. QuietOK' = QuietOK
      BY <3>1 DEF QuietOK, Quiet, Writing, Unapplied
    <3> QED
      BY <3>2, <3>3, <3>4, <3>5
  <2> QED
    BY <1>1, <2>1 DEF GroupInv
<1>9. ~SnapshotFails /\ ~WriteFails
  BY DEF WritesSucceed, SnapshotFails, WriteFails, Fault
<1> QED
  BY <1>2, <1>3, <1>4, <1>5, <1>6, <1>7, <1>8, <1>9 DEF Next, Pass, Turning, Storing

(* A group whose staged texts are all written is on the disk.              *)
LEMMA GroupLands == GroupInv => GroupsLandWhole
<1> SUFFICES ASSUME GroupInv, ~dry, pc = "write", queue = <<>>, NEW k \in DOMAIN Grp.steps,
                    Sure(Grp.steps[k])
             PROVE  \/ /\ disk[Grp.steps[k].file] # None
                       /\ Grp.steps[k].new \subseteq disk[Grp.steps[k].file]
                    \/ EditedAgain(k)
  BY DEF GroupsLandWhole, Sure, EditedAgain
<1>1. TypeInv /\ LandOK
  BY DEF GroupInv, ForecastInv
<1>2. Grp.steps \in Seq(Step) /\ s \in Nat
  BY <1>1, GroupType DEF TypeInv, TypeOK, LoopOK, InGroup, Group
<1>3. Grp.steps[k].file \in Files /\ k < s
  <2>1. s > Len(Grp.steps)
    BY <1>1 DEF LandOK
  <2>2. Grp.steps[k] \in Step /\ k < s
    BY <1>2, <2>1
  <2> QED
    BY <2>2 DEF Step
<1>4. StepStaged(k)
  BY <1>1, <1>3 DEF LandOK
<1>5. disk[Grp.steps[k].file] = pending[Grp.steps[k].file]
  <2>1. ~InQueue(Grp.steps[k].file)
    BY DEF InQueue
  <2> QED
    BY <1>1, <1>3, <1>4, <2>1 DEF LandOK, StepStaged
<1> QED
  BY <1>4, <1>5 DEF StepStaged

(* When no write fails, a group that has written what it staged is whole:  *)
(* every required edit is on the disk, or a later step of the group has    *)
(* edited it, for every list of groups and every tree.                     *)
THEOREM GroupsLand ==
    ASSUME WritesSucceed
    PROVE  Spec => []GroupsLandWhole
<1>1. Spec => []GroupInv
  BY GroupInit, GroupNext, PTL DEF Spec
<1> QED
  BY <1>1, GroupLands, PTL

(* When no write fails, a group that reports no edit has changed no text,  *)
(* whatever its checks and steps are: run_child()'s test of a degraded     *)
(* group that wrote (abk_backport_engine.py:216-222) never fires.  And a   *)
(* child that has reported no edit has left the tree as it found it.       *)
THEOREM EditsAreReported ==
    ASSUME WritesSucceed
    PROVE  Spec => []ReportsEveryEdit
<1>1. Spec => []GroupInv
  BY GroupInit, GroupNext, PTL DEF Spec
<1>2. GroupInv => OnlyEditedChanges
  BY DEF GroupInv, TouchOK
<1>3. GroupInv => QuietLeavesTree
  BY DEF GroupInv, QuietOK, Quiet, QuietLeavesTree
<1>4. GroupInv => ReportsEveryEdit
  BY <1>2, <1>3 DEF ReportsEveryEdit
<1> QED
  BY <1>1, <1>4, PTL
=============================================================================
