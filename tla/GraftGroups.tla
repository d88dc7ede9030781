----------------------------- MODULE GraftGroups -----------------------------
(***************************************************************************)
(* The 103 patch groups of the three children as records of GraftEngine:   *)
(* which files their steps edit and in which order, which anchors are      *)
(* required, and the early returns of their _apply functions.              *)
(*                                                                         *)
(* An atom stands for the blocks of kernel text that a group edits in one  *)
(* file: Old(k) is what it expects, New(k) what it leaves, Shape(k) text   *)
(* it only looks at.  The steps of a group on one file stand or fall       *)
(* together, so they are one step, except where another group rewrites a   *)
(* part of them: that part is an atom of its own.                          *)
(***************************************************************************)
EXTENDS Sequences

Old(k)   == <<"old", k>>
New(k)   == <<"new", k>>
Shape(k) == <<"shape", k>>
At(f, a) == [file |-> f, block |-> {a}]

Rewrite(f, old, new) == [file |-> f, old |-> old, new |-> new,
                         required |-> TRUE, only |-> {}, unless |-> {}]
Edit(f, k)   == Rewrite(f, {Old(k)}, {New(k)})
Edits(k, fs) == [i \in DOMAIN fs |-> Edit(fs[i], k)]
Maybe(st)      == [st EXCEPT !.required = FALSE]
When(st, ms)   == [st EXCEPT !.only = ms]
Unless(st, ms) == [st EXCEPT !.unless = ms]

ReturnIf(present, absent, v) ==
    [present |-> present, absent |-> absent, status |-> v]
AlreadyIf(ms) == ReturnIf(ms, {}, "already_present")
SkipIf(ms)    == ReturnIf(ms, {}, "skip_suite_processed")
BlockedIf(ms) == ReturnIf(ms, {}, "blocked_by_shape")
Needs(ms)     == ReturnIf({}, ms, "blocked_by_shape")   \* one of the marks
NeedShape(f, k) == Needs({At(f, Shape(k))})

Guarded(checks, steps) ==
    [checks |-> checks, steps |-> steps, onmiss |-> <<>>, hard |-> FALSE]
Plain(steps) == Guarded(<<>>, steps)
OnMiss(grp, checks) == [grp EXCEPT !.onmiss = checks]

-----------------------------------------------------------------------------
(* core: files and processes                                               *)

(* The hard group.  A tree whose allocation the suite has composed gets    *)
(* its own steps and, when they do not fit, is left to the suite.          *)
FdTable ==
    LET composed == {At("file.c", Shape("suite_fd"))}
        aosp     == {At("file.c", Old("dupfd"))}
    IN [checks |-> << ReturnIf({At("file.c", New("fd"))}, composed, "already_present"),
                      ReturnIf({At("file.c", Shape("suite"))}, composed,
                               "skip_suite_processed") >>,
        steps  |-> << When(Rewrite("file.c", {Old("fd_suite")}, {New("fd")}), composed),
                      Unless(Edit("file.c", "fd"), composed),
                      When(Rewrite("file.c", {Old("dupfd")}, {New("dupfd")}), aosp),
                      Unless(Rewrite("file.c", {Old("dupfd_vanilla")}, {New("dupfd")}),
                             aosp) >>,
        onmiss |-> <<SkipIf(composed)>>, hard |-> TRUE]
ReplaceFdErrno == Plain(<<Edit("file.c", "replace_fd")>>)
PidAlloc == Guarded(<<NeedShape("pid.c", "pid")>>, <<Edit("pid.c", "pid")>>)
FdAlloc ==
    Guarded(<< SkipIf({At("file.c", Shape("suite"))}), Needs({At("file.c", New("fd"))}),
               NeedShape("file.c", "find_fd") >>,
            <<Edit("file.c", "fd_alloc")>>)
CloseRange ==
    Guarded(<<SkipIf({At("file.c", Shape("suite"))}), NeedShape("file.c", "close_range")>>,
            <<Edit("file.c", "close_range")>>)

-----------------------------------------------------------------------------
(* core: the page allocator                                                *)

(* The comment it edits last is an optional anchor.  The next group        *)
(* rewrites its flag, which then stands for it.                            *)
MinReserve ==
    OnMiss(Plain(<< Edit("internal.h", "min_reserve"),
                    Rewrite("page_alloc.c", {Old("min_reserve")},
                            {New("min_reserve"), New("wmark_min")}),
                    Maybe(Edit("page_alloc.c", "harder_note")) >>),
           <<AlreadyIf({At("internal.h", New("highatomic"))})>>)
Highatomic ==
    OnMiss(Plain(<< Rewrite("internal.h", {New("min_reserve"), Old("highatomic")},
                            {New("min_reserve"), New("highatomic")}),
                    Rewrite("page_alloc.c",
                            {New("wmark_min"), New("harder_note"), Old("highatomic"),
                             Old("buddy")},
                            {New("highatomic"), New("buddy_oom"), New("oom_note")}) >>),
           <<AlreadyIf({At("page_alloc.c", New("rmqueue_mode")),
                        At("page_alloc.c", New("oom_note"))})>>)
ThisnodeThp == Plain(<<Edit("page_alloc.c", "thisnode")>>)
CpusetBailout ==
    Plain(Edits("cpuset", <<"cpuset.h", "mmzone.h", "cpuset.c", "page_alloc.c">>))
PagelistLockfree == Plain(<<Edit("page_alloc.c", "high_fraction")>>)

(* The call it rewrites in rmqueue() has two forms, one of them left by    *)
(* Highatomic.                                                             *)
FallbackReuse ==
    LET reserves == {At("page_alloc.c", New("oom_note"))}
    IN Plain(Edits("fallback", <<"internal.h", "compaction.c">>) \o
             << Edit("page_alloc.c", "rmqueue_mode"),
                When(Rewrite("page_alloc.c", {New("buddy_oom")}, {New("buddy_mode")}),
                     reserves),
                Unless(Rewrite("page_alloc.c", {Old("buddy")}, {New("buddy_mode")}),
                       reserves) >>)
CustomizeAllocGfp ==
    Guarded(<<NeedShape("page_alloc.c", "hooks_include")>>,
            Edits("gfp_hook", <<"hooks/mm.h", "page_alloc.c", "vendor_hooks.c">>))
GfpFastfail ==
    Guarded(<< Needs({At("hooks/mm.h", New("gfp_hook"))}),
               Needs({At("page_alloc.c", New("gfp_hook"))}),
               NeedShape("page_alloc.c", "hooks_include") >>,
            <<Edit("page_alloc.c", "fastfail")>>)
SlabHotpath ==
    Guarded(<<SkipIf({At("slub.c", Shape("suite"))}), NeedShape("slub.c", "slab")>>,
            <<Edit("slub.c", "slab")>>)
BatchClear == Plain(<<Edit("page_alloc.c", "batch_clear")>>)
BuddyinfoNolock == Plain(<<Edit("vmstat.c", "buddyinfo")>>)

-----------------------------------------------------------------------------
(* core: zram and zsmalloc                                                 *)

ZramRecompression ==
    Guarded(<<AlreadyIf({At("zram_drv.c", New("recompress"))})>>,
            Edits("recompress", <<"zram/Kconfig", "zram_drv.h", "zsmalloc.h", "zsmalloc.c">>) \o
            <<Rewrite("zram_drv.c", {Old("recompress")},
                      {New("recompress"), New("recomp_slot"), New("recomp_wb")})>>)
ChainSize == Plain(Edits("chain", <<"mm/Kconfig", "zsmalloc.c">>))
AsyncRecompress ==
    Guarded(<<AlreadyIf({At("zram_drv.c", New("async"))})>>,
            <<Rewrite("zram_drv.c", {Old("async")}, {New("async"), New("async_loop")})>>)
SecondaryComp == Plain(<<Edit("zram_drv.c", "secondary")>>)
AlgoLock == Plain(<<Edit("zram_drv.c", "algo_lock")>>)
WbTeardown ==
    Guarded(<<NeedShape("zram_drv.c", "meta_free"), NeedShape("zram_drv.c", "reset_device")>>,
            <<Edit("zram_drv.c", "wb_teardown")>>)
WbBounds == Plain(<<Edit("zram_drv.c", "wb_bounds")>>)
WbLimitAlign ==
    Guarded(<<NeedShape("zram_drv.c", "limit_store")>>, <<Edit("zram_drv.c", "limit_align")>>)

(* It rewrites the writeback path that recompression has edited.           *)
WbBatching ==
    Guarded(<<AlreadyIf({At("zram_drv.c", New("wb_batching"))}),
              NeedShape("zram_drv.c", "writeback_store")>>,
            << Rewrite("zram_drv.c", {Old("wb_batching"), New("recomp_wb")},
                       {New("wb_batching"), New("wb_complete")}),
               Edit("zram_drv.h", "wb_batching") >>)
WbBatchSize ==
    Guarded(<<NeedShape("zram_drv.c", "reset_bdev"), NeedShape("zram_drv.c", "limit_attr")>>,
            <<Edit("zram_drv.c", "wb_batch_size")>>)
CompressedWriteback ==
    Guarded(<< Needs({At("zram_drv.h", New("wb_batching"))}),
               NeedShape("zram_drv.c", "bvec_read"),
               Needs({At("zram_drv.c", Old("compressed")),
                      At("zram_drv.c", New("compressed"))}) >>,
            <<Edit("zram_drv.c", "compressed")>>)
MaxPages ==
    Guarded(<<Needs({At("zram_drv.c", New("recompress"))}),
              Needs({At("zram_drv.c", New("async"))})>>,
            <<Rewrite("zram_drv.c", {New("recompress"), New("async_loop")},
                      {New("recompress"), New("max_pages")})>>)
PrioSkip ==
    Guarded(<<Needs({At("zram_drv.c", New("recompress"))}),
              Needs({At("zram_drv.c", New("async"))}),
              Needs({At("zram_drv.c", New("max_pages"))})>>,
            <<Rewrite("zram_drv.c", {Old("prio_skip"), New("max_pages"), New("async")},
                      {New("prio_skip"), New("max_pages"), New("async")})>>)
SlotPreserve ==
    Guarded(<<Needs({At("zram_drv.c", New("wb_batching"))})>>,
            <<Rewrite("zram_drv.c", {New("wb_complete"), New("recomp_slot")},
                      {New("slot_preserve")})>>)
ZsFreeOutOfLock == Plain(<<Edit("zsmalloc.c", "zs_free")>>)

-----------------------------------------------------------------------------
(* core: control groups and proactive reclaim                              *)

CgroupRcu == Plain(Edits("root_rcu", <<"cgroup-defs.h", "cgroup-internal.h", "cgroup.c">>))
CgroupWqSplit == Plain(<<Edit("cgroup.c", "wq_split")>>)
MemcgReclaim ==
    Guarded(<<AlreadyIf({At("memcontrol.c", New("reclaim_marker"))})>>,
            << Rewrite("swap.h", {Old("reclaim")}, {New("reclaim_defs"), New("reclaim_proto")}),
               Rewrite("vmscan.c", {Old("reclaim")}, {New("proactive_bit"), New("ttfmcp")}),
               Maybe(Edit("vmscan.c", "vmpressure")),
               Rewrite("memcontrol.c", {Old("reclaim")},
                       {New("reclaim_marker"), New("reclaim_fn"), New("reclaim_calls"),
                        New("reclaim_loop"), New("reclaim_parser")}),
               Rewrite("cgroup-v2.rst", {Old("reclaim")}, {New("reclaim"), New("reclaim_doc")})
            >>)
CachedFreeze == Plain(Edits("cached_freeze", <<"vmscan.c", "memcontrol.c">>))
MemcgV1Reclaim == Plain(<<Edit("memcontrol.c", "v1_reclaim")>>)
StatsSlim == Plain(Edits("stats_slim", <<"memcontrol.c", "memcontrol.h">>))

(* Two successive forms of the reclaim loop; the second stands for both.   *)
BatchFidelity ==
    Guarded(<<AlreadyIf({At("memcontrol.c", New("cluster_batch"))}),
              AlreadyIf({At("memcontrol.c", New("decaying"))})>>,
            <<Rewrite("memcontrol.c", {New("reclaim_loop")}, {New("cluster_batch")})>>)
DecayingBatches ==
    Guarded(<<AlreadyIf({At("memcontrol.c", New("decaying"))})>>,
            <<Rewrite("memcontrol.c", {New("reclaim_fn"), New("cluster_batch")},
                      {New("reclaim_fn"), New("decaying"), New("decay_call")})>>)
SwappinessDefines ==
    Plain(<< Rewrite("swap.h", {New("reclaim_defs")}, {New("swappiness_defs")}) >>
          \o Edits("swappiness_defs", <<"vmscan.c", "memcontrol.c">>))

(* get_swappiness() has a vendor hook on some trees.                       *)
SwappinessArg ==
    LET hook == {At("vmscan.c", Old("swappiness_hook")), At("vmscan.c", New("swappiness_hook"))}
    IN Plain(<< Rewrite("swap.h", {New("reclaim_proto")}, {New("swap_arg")}),
                Rewrite("vmscan.c", {Old("swap_arg"), New("ttfmcp")}, {New("swap_arg")}),
                When(Edit("vmscan.c", "swappiness_hook"), hook),
                Unless(Edit("vmscan.c", "swappiness_plain"), hook),
                Rewrite("memcontrol.c",
                        {Old("swap_arg"), New("reclaim_calls"), New("reclaim_parser"),
                         New("decay_call")}, {New("swap_arg")}),
                Rewrite("cgroup-v2.rst", {New("reclaim_doc")}, {New("swap_arg")}) >>)
SuspendAbort ==
    Plain(<< Edit("vmscan.c", "suspend"),
             Rewrite("memcontrol.c", {Old("suspend"), New("reclaim_fn")},
                     {New("reclaim_fn"), New("suspend")}) >>)
DyingBailout ==
    Plain(<< Edit("memcontrol.h", "dying"),
             Rewrite("memcontrol.c", {Old("dying"), New("reclaim_fn")},
                     {New("reclaim_fn"), New("dying")}) >>)

-----------------------------------------------------------------------------
(* core: MGLRU                                                             *)

CleanWorkingset == Plain(<<Edit("workingset.c", "clean")>>)
OptimizeDeactivation == Plain(<<Edit("swap.c", "deactivate")>>)
AgingFeedback ==
    Guarded(<<AlreadyIf({At("vmscan.c", New("aging"))})>>,
            << Edit("mmzone.h", "aging"),
               Rewrite("vmscan.c", {Old("aging")},
                       {New("aging"), New("aging_loop"), New("aging_sort")}) >>)
TypeSelection ==
    Guarded(<<AlreadyIf({At("vmscan.c", New("type_sel"))})>>,
            <<Rewrite("vmscan.c", {Old("type_sel")}, {New("type_sel"), New("type_scan")})>>)
RefaultDetection == Plain(<<Edit("workingset.c", "refault")>>)
WakeFlushersNoProbe ==                                          \* mutant
    Plain(<<Rewrite("vmscan.c", {Old("flushers")}, {New("flushers"), New("flush_dirty")})>>)
WakeFlushers ==
    Guarded(<<AlreadyIf({At("vmscan.c", New("flushers"))})>>,
            <<Rewrite("vmscan.c", {Old("flushers")}, {New("flushers"), New("flush_dirty")})>>)
ReclaimLoop ==
    Guarded(<<AlreadyIf({At("vmscan.c", New("loop"))})>>,
            <<Rewrite("vmscan.c", {Old("loop"), New("aging_loop"), New("type_scan")},
                      {New("loop")})>>)
DirtyReclaim ==
    Guarded(<<AlreadyIf({At("vmscan.c", New("dirty"))})>>,
            <<Rewrite("vmscan.c",
                      {Old("dirty"), New("flush_dirty"), New("aging_sort"), New("loop")},
                      {New("dirty"), New("loop")})>>)
AccessedPlacement ==
    Guarded(<<AlreadyIf({At("mm_inline.h", New("placement"))})>>,
            Edits("placement", <<"mm_inline.h", "swap.c", "workingset.c">>))

-----------------------------------------------------------------------------
(* core: page cache, swap, faults                                          *)

MadviseCollapse ==
    Plain(Edits("collapse", <<"madvise.c", "khugepaged.c", "mman-common.h", "huge_mm.h">>))
RcuNocb ==
    Guarded(<<AlreadyIf({At("rcu/Kconfig", New("nocb")), At("tree_nocb.h", New("nocb")),
                         At("kernel-parameters.txt", New("nocb"))})>>,
            Edits("nocb", <<"rcu/Kconfig", "kernel-parameters.txt", "tree_nocb.h">>))
DynamicReadahead == Plain(Edits("dynra", <<"readahead.c", "mm/Kconfig">>))
HugepageFault ==
    Guarded(<< SkipIf({At("huge_memory.c", Shape("suite"))}), SkipIf({At("memory.c", Shape("suite"))}),
               NeedShape("huge_memory.c", "huge_fault"),
               Needs({At("memory.c", Old("huge_fault")), At("memory.c", New("huge_fault"))}) >>,
            Edits("huge_fault", <<"huge_memory.c", "memory.c">>))
MmapMissRace == Plain(<<Edit("filemap.c", "mmap_miss")>>)
PteMkwriteClean == Plain(<<Edit("pgtable.h", "mkwrite")>>)
ShadowBatch ==
    Guarded(<<AlreadyIf({At("truncate.c", New("shadow"))})>>,
            <<Rewrite("truncate.c", {Old("shadow")}, {New("shadow"), New("shadow_loop")})>>)
ShadowSweep ==
    Guarded(<<AlreadyIf({At("truncate.c", New("sweep"))})>>,
            <<Rewrite("truncate.c", {New("shadow_loop")}, {New("sweep")})>>)
LsePercpu == Plain(<<Edit("percpu.h", "lse")>>)
FusePrefault == Plain(<<Edit("fuse/file.c", "prefault")>>)
LruAddDrain == Plain(<<Edit("swap.c", "add_drain")>>)
ImapSplit == Plain(<<Edit("huge_memory.c", "imap_split")>>)
SwapRaDrain == Plain(<<Edit("swap_state.c", "ra_drain")>>)
TasksRcuQs == Plain(<<Edit("vmscan.c", "tasks_qs")>>)
MmapMissTried == Plain(<<Edit("filemap.c", "miss_tried")>>)

(* "best effort" without the gfp field is upstream's own port: blocked.    *)
ErofsReadahead ==
    Guarded(<< AlreadyIf({At("compress.h", New("erofs_gfp")),
                          At("compress.h", Shape("besteffort"))}),
               BlockedIf({At("compress.h", Shape("fillgaps"))}) >>,
            Edits("erofs_gfp", <<"compress.h", "decompressor.c", "decompressor_lzma.c",
                                 "zdata.h", "zdata.c">>))
ErofsReadmore == Plain(<<Edit("zdata.c", "readmore")>>)
BgReadahead ==
    Guarded(<< NeedShape("filemap.c", "ra_hook"), NeedShape("readahead.c", "ra_hook"),
               NeedShape("memory.c", "ra_hook"), NeedShape("filemap.c", "hooks_include") >>,
            <<Edit("filemap.c", "bg_ra")>>)
LaunchPrefetch ==
    Guarded(<<NeedShape("filemap.c", "read_hook"), NeedShape("memory.c", "ra_hook")>>,
            <<Rewrite("filemap.c", {New("bg_ra")}, {New("bg_ra"), New("prefetch")})>>)
SmapsGuard ==
    Guarded(<<AlreadyIf({At("task_mmu.c", New("smaps")), At("task_mmu.c", New("smaps_mark"))}),
              BlockedIf({At("task_mmu.c", New("smaps"))})>>,
            <<Rewrite("task_mmu.c", {Old("smaps")}, {New("smaps"), New("smaps_mark")})>>)
SwapinWindow ==
    LET fs == <<"readahead.c", "swap_state.c", "internal.h">>
        in == {At(fs[i], New("swapin")) : i \in DOMAIN fs}
    IN Guarded(<< AlreadyIf(in), BlockedIf({At(fs[1], New("swapin"))}),
                  BlockedIf({At(fs[2], New("swapin"))}), BlockedIf({At(fs[3], New("swapin"))}),
                  Needs({At(fs[1], Old("swapin"))}), Needs({At(fs[2], Old("swapin"))}) >>,
               Edits("swapin", fs))
FaultAround ==
    Guarded(<< AlreadyIf({At("memory.c", New("around")), At("memory.c", New("around_mark"))}),
               BlockedIf({At("memory.c", New("around"))}),
               NeedShape("memory.c", "read_fault"), NeedShape("memory.c", "ra_hook") >>,
            <<Rewrite("memory.c", {Old("around")}, {New("around"), New("around_mark")})>>)

(* The engine of the swap-out offload and its two successors.  The second  *)
(* rewrites text the first added, so the first probes the second's marker. *)
KcompressdSteps ==
    << Rewrite("page_io.c", {Old("tail")}, {Old("tail"), New("offload"), New("unlock")}),
       Rewrite("page_io.c", {Old("dirty_fn")}, {Old("dirty_fn"), New("engine"), New("lock")}) >>
KcompressdSwapoutNoProbe ==                                     \* mutant
    Guarded(<<NeedShape("page_io.c", "frontswap")>>, KcompressdSteps)
KcompressdSwapout ==
    Guarded(<<NeedShape("page_io.c", "frontswap"), AlreadyIf({At("page_io.c", New("wb_pin"))})>>,
            KcompressdSteps)
WritebackPin ==
    Guarded(<<AlreadyIf({At("page_io.c", New("wb_pin"))}), Needs({At("page_io.c", New("engine"))})>>,
            << Rewrite("page_io.c", {New("unlock")}, {New("wb_pin")}),
               Rewrite("page_io.c", {New("lock")}, {New("wb_end")}) >>)
SwapcacheDrop ==
    Guarded(<< AlreadyIf({At("vmscan.c", New("wb_retry"))}), NeedShape("vmscan.c", "page_success"),
               Needs({At("page_io.c", New("wb_pin"))}) >>,
            <<Edit("vmscan.c", "wb_retry")>>)

(* enable_configs(): no anchor, the symbols are set or appended.  Without  *)
(* a defconfig the group reports only.  The PSI tier, which also drops a   *)
(* boot token, is left out.                                                *)
ConfigEnablement(defconfig) ==
    IF defconfig THEN Plain(<<Rewrite("gki_defconfig", {}, {New("configs")})>>)
    ELSE Guarded(<<ReturnIf({}, {}, "report_only")>>, <<>>)

-----------------------------------------------------------------------------
(* perf: scheduler                                                         *)

NohzBalance == Plain(Edits("nohz_balance", <<"sched/sched.h", "fair.c", "core.c">>))
PsiFlags == Plain(Edits("psi_flags", <<"linux/sched.h", "core.c", "stats.h">>))
RtOptimizations == Plain(<<Edit("rt.c", "rt"), Maybe(Edit("features.h", "push_ipi"))>>)
DstGroupAllowed == Plain(<<Edit("fair.c", "dst_group")>>)
StealTime == Guarded(<<AlreadyIf({At("core.c", New("steal"))})>>, <<Edit("core.c", "steal")>>)

(* A tree that has the member already keeps its own.                       *)
KstackPertask ==
    Plain(<<Unless(Edit("linux/sched.h", "kstack"), {At("linux/sched.h", New("kstack"))})>>
          \o Edits("kstack", <<"randomize_kstack.h", "main.c", "fork.c">>))

(* Two hooks are declared unless the tree has them.                        *)
LazyPreempt ==
    Plain(<< Unless(Edit("dtask.h", "lazy"), {At("dtask.h", New("lazy"))}),
             Unless(Edit("core.c", "lazy_hook"), {At("core.c", New("lazy_hook"))}),
             Edit("core.c", "lazy"), Edit("fair.c", "lazy") >>)
NohzRefinement ==
    Guarded(<< NeedShape("nohz.h", "endif"), NeedShape("tick-sched.c", "nohz_setup"),
               NeedShape("tick-sched.c", "tick_stopped"),
               ReturnIf({At("nohz.h", New("nohz_state"))}, {At("tick-sched.c", New("nohz_state"))},
                        "blocked_by_shape") >>,
            Edits("nohz_state", <<"nohz.h", "tick-sched.c">>))
AvgIdle ==
    Guarded(<< BlockedIf({At("fair.c", Shape("sis_util"))}),
               Needs({At("fair.c", Old("avg_idle")), At("fair.c", New("avg_idle"))}),
               NeedShape("core.c", "ttwu"), NeedShape("fair.c", "select_idle"),
               NeedShape("idle.c", "put_prev"), NeedShape("sched/sched.h", "usage_dec") >>,
            Edits("avg_idle", <<"core.c", "fair.c", "idle.c", "sched/sched.h">>))

(* EEVDF: the struct members follow only where the logic has landed.       *)
EevdfPickLogic ==
    Guarded(<<NeedShape("fair.c", "cfs"), BlockedIf({At("fair.c", Shape("eevdf_twice"))})>>,
            <<Edit("fair.c", "eevdf")>>)
EevdfCoreFieldsNoNeed ==                                        \* mutant
    Plain(<<Edit("linux/sched.h", "se_tail")>>)
EevdfCoreFields ==
    LET Slots(k) == At("linux/sched.h", Old(k))
        Known(k) == When(Rewrite("linux/sched.h", {Old(k)}, {New("se_tail")}), {Slots(k)})
        V15 == "se_tail_v15"
        Draft == "se_tail_draft"
        Pure == "se_tail"
    IN Guarded(<< Needs({At("fair.c", New("eevdf"))}),
                  Needs({At("linux/sched.h", New("se_tail")), Slots(V15), Slots(Draft), Slots(Pure)}) >>,
               << When(Rewrite("linux/sched.h", {New("se_tail")}, {New("se_tail")}),
                       {At("linux/sched.h", New("se_tail"))}),
                  Known(V15), Unless(Known(Draft), {Slots(V15)}),
                  Unless(Known(Pure), {Slots(V15), Slots(Draft)}) >>)
EevdfModernFields ==
    Guarded(<< Needs({At("fair.c", New("eevdf"))}),
               BlockedIf({At("sched/sched.h", Shape("eevdf_twice"))}),
               BlockedIf({At("features.h", Shape("eevdf_twice"))}) >>,
            Edits("eevdf_fields", <<"sched/sched.h", "core.c", "features.h">>))

(* schedutil: the payload of an earlier release is upgraded in place, an   *)
(* unknown one is left alone.                                              *)
SmartPolicy ==
    LET legacy == {At("cpufreq_schedutil.c", Old("smart_legacy"))}
        landed == {New("smart_policy"), New("sched_inc")}
    IN Guarded(<<BlockedIf({At("cpufreq_schedutil.c", Shape("other_policy"))})>>,
               << When(Rewrite("cpufreq_schedutil.c", {Old("smart_legacy")}, landed), legacy),
                  Unless(Rewrite("cpufreq_schedutil.c", {Old("smart_policy")}, landed), legacy) >>)
SmartCap ==
    Guarded(<<BlockedIf({At("cpufreq_schedutil.c", Shape("other_cap"))})>>,
            << Unless(Edit("cpufreq_schedutil.c", "cap_inc"),
                      {At("cpufreq_schedutil.c", New("sched_inc")),
                       At("cpufreq_schedutil.c", New("cap_inc"))}),
               Edit("cpufreq_schedutil.c", "smart_cap") >>)

-----------------------------------------------------------------------------
(* perf: PSI, locking, block, network                                      *)

(* Four files behind a probe of the third.                                 *)
PsiIrqTracking ==
    Guarded(<<AlreadyIf({At("psi.c", New("psi_irq"))})>>,
            Edits("psi_irq", <<"psi_types.h", "stats.h">>) \o
            << Rewrite("psi.c", {Old("psi_irq")}, {New("psi_irq"), New("irq_walk")}),
               Edit("core.c", "psi_irq") >>)
PsiKernfs == Plain(Edits("kernfs", <<"psi_types.h", "psi.h", "psi.c", "cgroup.c">>))
PsiPressure ==
    Guarded(<<AlreadyIf({At("cgroup.c", New("pressure"))})>>,
            Edits("pressure", <<"cgroup-defs.h", "psi.h">>) \o
            <<Rewrite("psi.c", {Old("pressure"), New("irq_walk")},
                      {New("pressure"), New("pressure_switch")})>> \o
            Edits("pressure", <<"cgroup.c", "cgroup-v2.rst">>))
PsiOncpu ==
    Guarded(<<AlreadyIf({At("psi_types.h", New("oncpu"))})>>,
            << Rewrite("psi_types.h", {Old("oncpu"), New("psi_irq")}, {New("psi_irq"), New("oncpu")}),
               Rewrite("psi.c", {Old("oncpu"), New("pressure_switch")}, {New("oncpu")}) >>)
ReleaseSock == Plain(<<Edit("sock.c", "release_sock")>>)
SemaphoreWakeQ == Plain(<<Edit("semaphore.c", "wake_q")>>)
WakeupPatch == Plain(Edits("wakeup", <<"dtask.h", "rwsem.h", "mutex.c", "rwsem.c">>))
BlkMqSuspend == Guarded(<<AlreadyIf({At("blk-mq.c", New("suspend"))})>>, <<Edit("blk-mq.c", "suspend")>>)
BlkMqElevator ==
    Guarded(<<AlreadyIf({At("blk-mq.c", New("quiesce"))})>>,
            Edits("quiesce", <<"elevator.c", "blk.h", "blk-mq.c">>))
BlkMqAsyncDepth ==
    LET fs == <<"blkdev.h", "blk-core.c", "blk-mq.c", "blk-mq-sched.c", "blk-sysfs.c",
                "elevator.c", "mq-deadline.c", "bfq-iosched.c", "kyber-iosched.c">>
    IN Guarded([i \in DOMAIN fs |-> NeedShape(fs[i], "async_depth")], Edits("async_depth", fs))

(* display *)
DrmClones == Plain(<<Edit("drm.c", "clones")>>)

-----------------------------------------------------------------------------
(* The children, in composition order                                      *)

Core(defconfig) ==
    << FdTable, ReplaceFdErrno, MinReserve, Highatomic, ThisnodeThp, CpusetBailout,
       PagelistLockfree, CgroupRcu, ZramRecompression, CgroupWqSplit, MemcgReclaim,
       CleanWorkingset, OptimizeDeactivation, AgingFeedback, TypeSelection,
       RefaultDetection, WakeFlushers, ConfigEnablement(defconfig), ChainSize,
       MadviseCollapse, FallbackReuse, RcuNocb, DynamicReadahead, AsyncRecompress,
       CachedFreeze, SecondaryComp, MemcgV1Reclaim, AlgoLock, CustomizeAllocGfp,
       GfpFastfail, WbTeardown, WbBounds, WbLimitAlign, PidAlloc, FdAlloc, CloseRange,
       SlabHotpath, HugepageFault, WbBatching, WbBatchSize, CompressedWriteback,
       MaxPages, PrioSkip, MmapMissRace, PteMkwriteClean, SlotPreserve,
       ZsFreeOutOfLock, ShadowBatch, ShadowSweep, LsePercpu, StatsSlim, FusePrefault,
       BatchFidelity, DecayingBatches, SwappinessDefines, SwappinessArg, SuspendAbort,
       LruAddDrain, ImapSplit, SwapRaDrain, TasksRcuQs, MmapMissTried, DyingBailout,
       BuddyinfoNolock, BatchClear, ErofsReadahead, KcompressdSwapout, ErofsReadmore,
       ReclaimLoop, DirtyReclaim, AccessedPlacement, BgReadahead, LaunchPrefetch,
       SmapsGuard, WritebackPin, SwapcacheDrop, SwapinWindow, FaultAround >>

Perf ==
    << NohzBalance, PsiFlags, RtOptimizations, DstGroupAllowed, StealTime,
       KstackPertask, ReleaseSock, SemaphoreWakeQ, BlkMqSuspend, BlkMqElevator,
       LazyPreempt, WakeupPatch, PsiIrqTracking, PsiKernfs, PsiPressure, PsiOncpu,
       SmartPolicy, SmartCap, NohzRefinement, AvgIdle, EevdfPickLogic, EevdfCoreFields,
       EevdfModernFields, BlkMqAsyncDepth >>

Display == <<DrmClones>>
=============================================================================
