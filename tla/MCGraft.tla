------------------------------- MODULE MCGraft -------------------------------
(***************************************************************************)
(* GraftEngine with the groups of GraftGroups, for TLC.  The pristine tree *)
(* is computed from the groups: a file holds every anchor that a step or a *)
(* check of a group expects and that no group adds.                        *)
(***************************************************************************)
EXTENDS GraftEngine, GraftGroups, Functions

GroupsOf(cs) == UNION {Range(c) : c \in Range(cs)}
StepsOf(cs)  == UNION {Range(grp.steps) : grp \in GroupsOf(cs)}
ChecksOf(cs) == UNION {Range(grp.checks) \cup Range(grp.onmiss) : grp \in GroupsOf(cs)}
MarksOf(cs)  == UNION ({c.present \cup c.absent : c \in ChecksOf(cs)}
                       \cup {st.only \cup st.unless : st \in StepsOf(cs)})

Expected(cs, f) ==
    UNION {st.old : st \in {x \in StepsOf(cs) : x.file = f}}
Named(cs, f) ==
    UNION ({st.old \cup st.new : st \in {x \in StepsOf(cs) : x.file = f}}
           \cup {m.block : m \in {x \in MarksOf(cs) : x.file = f}})

(* Text that only trees of another shape have: the suite's edits, earlier  *)
(* releases of this module, upstream ports, the variants of an anchor.     *)
Foreign ==
    {Shape(k) : k \in {"suite", "suite_fd", "fillgaps", "besteffort", "sis_util",
                       "eevdf_twice", "other_policy", "other_cap"}} \cup
    {Old(k) : k \in {"fd_suite", "dupfd_vanilla", "se_tail_v15", "se_tail_draft",
                     "smart_legacy", "swappiness_hook"}}

FilesOf(cs) == {st.file : st \in StepsOf(cs)} \cup {m.file : m \in MarksOf(cs)}
               \cup {"address.c", "moon_kmsg.c", "drivers/Makefile"}

AtomsOf(cs) == {a : a \in UNION {Named(cs, f) : f \in FilesOf(cs)}}
               \cup {Old("flag_cells"), New("ranges"), New("moon1"), New("moon2"),
                     Shape("obj_y"), New("moon_obj")}

MCGate    == {Old("flag_cells")}
MCAddress == {New("ranges")}
MCMoon    == {{New("moon1")}, {New("moon2")}}
MCOneMoon == {{New("moon1")}}
MCMarker  == New("moon_obj")

(* android13-5.15-lts: every anchor is there.                              *)
Lts(cs) ==
    [f \in FilesOf(cs) |->
        CASE f = "address.c"        -> MCGate
          [] f = "moon_kmsg.c"      -> None
          [] f = "drivers/Makefile" -> {Shape("obj_y")}
          [] OTHER -> {a : a \in {x \in Named(cs, f) \ Foreign : x[1] # "new"}}]

(* The lts tree with one expected piece of text missing: for every group   *)
(* an anchor of a required step (apply_steps() writes nothing when one is  *)
(* missing, whichever it is), and every piece of text a check looks for.   *)
Anchors(grp) ==
    UNION {{<<st.file, a>> : a \in st.old} : st \in {x \in Range(grp.steps) : x.required}}
WithoutOne(cs) ==
    LET lts == Lts(cs)
        anchors == {CHOOSE p \in ps : TRUE :
                        ps \in {{p \in Anchors(grp) : p[2] \in lts[p[1]]} :
                               grp \in GroupsOf(cs)} \ {{}}}
        sought == UNION {{<<m.file, a>> : a \in m.block \cap lts[m.file]} :
                         m \in MarksOf(cs)}
    IN {lts} \cup {[lts EXCEPT ![p[1]] = @ \ {p[2]}] : p \in anchors \cup sought}

-----------------------------------------------------------------------------
(* An instance: the groups, the files and atoms they name, the trees.      *)
Instance(cs, trees) ==
    [children |-> cs, files |-> FilesOf(cs), atoms |-> AtomsOf(cs), trees |-> trees]

(* All 103 groups, on the lts tree and the trees that lack one piece of it. *)
AllGroups == <<Core(TRUE), Perf, Display>>
All == Instance(AllGroups, WithoutOne(AllGroups))
AllChildren == All.children
AllFiles == All.files
AllAtoms == All.atoms
AllTrees == All.trees

(* Few groups, for the run with failing writes: two pairs of which one     *)
(* group rests on the other across files, on the lts tree and on a tree    *)
(* that kcompressd, which others rest on, does not recognise.              *)
FewGroups ==
    << <<KcompressdSwapout, WritebackPin, SwapcacheDrop>>,
       <<EevdfPickLogic, EevdfCoreFields>> >>
FewTreesOf(lts) ==
    {lts, [lts EXCEPT !["page_io.c"] = @ \ {Shape("frontswap")}]}
Few == Instance(FewGroups, FewTreesOf(Lts(FewGroups)))
FewChildren == Few.children
FewFiles == Few.files
FewAtoms == Few.atoms
FewTrees == Few.trees

(* A tree of another shape: no frontswap branch in swap_writepage(), an    *)
(* fdtable the suite has edited or composed, a ranges parser before the    *)
(* rework, no optional anchor, the display revert already there, no        *)
(* defconfig passed.                                                       *)
ShapeGroups ==
    << <<FdTable, KcompressdSwapout, WritebackPin, SwapcacheDrop, ConfigEnablement(FALSE)>>,
       <<RtOptimizations>>, <<DrmClones>> >>
OtherShape(suite) ==
    [Lts(ShapeGroups) EXCEPT !["file.c"] = suite,
                             !["page_io.c"] = @ \ {Shape("frontswap")},
                             !["address.c"] = MCAddress,
                             !["features.h"] = {},
                             !["drm.c"] = {New("clones")}]
Suites == {{Shape("suite"), Old("dupfd")},
           {Shape("suite"), Shape("suite_fd"), Old("fd_suite"), Old("dupfd")},
           {Shape("suite"), Shape("suite_fd")}}
OtherShapes == Instance(ShapeGroups, {OtherShape(t) : t \in Suites})
ShapeChildren == OtherShapes.children
ShapeFiles == OtherShapes.files
ShapeAtoms == OtherShapes.atoms
ShapeTrees == OtherShapes.trees

-----------------------------------------------------------------------------
(* Dependencies between groups that the code states where the dependent    *)
(* group looks for the other one: what may be in the tree only together.   *)
DependsOn ==
    { <<At("vmscan.c", New("wb_retry")), At("page_io.c", New("wb_pin"))>>,
      <<At("page_alloc.c", New("fastfail")), At("hooks/mm.h", New("gfp_hook"))>>,
      <<At("linux/sched.h", New("se_tail")), At("fair.c", New("eevdf"))>>,
      <<At("sched/sched.h", New("eevdf_fields")), At("fair.c", New("eevdf"))>>,
      <<At("zram_drv.c", New("compressed")), At("zram_drv.h", New("wb_batching"))>>,
      <<At("zram_drv.c", New("prio_skip")), At("zram_drv.c", New("max_pages"))>> }

(* While no write has failed and no rollback is left half done, a tree     *)
(* that carries the dependent edit carries the edit it rests on, wherever  *)
(* a process may die: the reclaim loop parks pages only where queued pages *)
(* are pinned (batch72_core_kcompressd_swapcache_drop.py:134-137), the     *)
(* KABI slots are "never claimed without the scheduler logic that consumes *)
(* them" (batch15_perf_eevdf.py:1398-1406), and so on.  A rollback cut off *)
(* between two files separates the pairs until it is run again, a failed   *)
(* write for good.                                                         *)
SomeWriteFailed == \E i \in DOMAIN faults : faults[i] \in {"write", "snapshot"}
DependenciesMet ==
    todo = {} /\ ~SomeWriteFailed =>
        \A d \in DependsOn :
            {d[1].file, d[2].file} \subseteq Files =>
                (d[1].block \subseteq disk[d[1].file] =>
                     d[2].block \subseteq disk[d[2].file])
=============================================================================
