# Verification of the ABK 5.15 backport module

The repository is a patch module for android13-5.15 kernels. It consists of a
Python engine that grafts groups of edits ("patch groups") into a kernel tree,
of the kernel code those groups carry, of a rollback, and of shell supervisors
that set the resulting kernel's tunables on the device. This directory holds
TLA+ models of its core, the TLC configurations that check them and proofs
checked by TLAPS.

Contents: [Inventory](#inventory), [Modules](#modules), [Runs](#runs),
[Fairness](#fairness), [Proofs](#proofs), [Only model-checked](#only-model-checked),
[Findings](#findings), [Not modelled](#not-modelled), [Plan](#plan),
[How to run](#how-to-run).

## Inventory

| Component | State | Operations | What is hard | What makes it correct |
|---|---|---|---|---|
| Graft engine (`abk_backport_engine.py`, `abk_common.py`) | kernel tree, `.abk-orig` sidecars, a per-process cache of texts, the set of dirty files | probe, stage the steps of a group, write file by file, judge the group | failed and torn writes, death between two writes, repeated passes, dry runs on the cache | degraded groups leave no trace, landed groups are whole, a second pass changes nothing, sidecars stay pristine |
| Driver and overlays (`setup.sh`, `stable_backport.sh`) | the tree, sidecars, sentinels | run the three children, overlay `address.c` and `moon_kmsg.c`, append to a Makefile | death between a new file and its sentinel | everything modified can be rolled back |
| Rollback (`abk_rollback.sh`) | the tree, sidecars | restore or delete, then drop the sidecar | death between the two | a completed rollback is the pristine tree |
| Patch groups (`abk_stable_*.py`, `batch*.py`) | none of their own | the probes, dependencies and steps of 103 groups | a later group rewrites an earlier one's text; groups that rest on each other | each recognises its successors; dependent edits never stand alone |
| kcompressd (`batch41`, `71`, `72`) | a ring per node, page flags, swap slots, counters, a soft limit | offload, enqueue with head drain, drain thread, reclaim's second look, hotplug, sysctl | the page is unlocked while queued; three contexts write; the ring may go away; waiting on each other | what left memory can be read back, a queued page keeps its slot, no deadlock, everything queued is written |
| zram writeback (`batch14`, `17`, `32`, parts of `abk_stable_core.py`) | slot table, block bitmap, request pool per sweep, write budget, counters | sweep, bio callbacks, completion, read of a written-back page, attributes, reset, removal | the slot lock is dropped for the device write and for the device read; bios fail or end in any order; resets race sweeps | the device is an array of pages; blocks and marks have one owner, budget and bounds hold, sweeps end |
| zram recompression (`batch10`, `11`, `24`, `47`, `abk_stable_core.py`, `tools/zram_recompress_trigger.sh`, `zram-policy.sh`) | slots, job queue and worker, cap on attempts, the loop's two clocks | synchronous and asynchronous sweeps, the worker, drain at reset, marking cold pages | jobs outlive the scan; bounds read before the lock; sweeps always start at page 0 | jobs never see a dead table, writeback's slots are left alone, every marked page is reached, resets end |
| EEVDF (`batch15_perf_eevdf`) | one run queue: vruntime, deadline, lag, incremental sums, buddies, the stash of the last pick | place, pick, preempt, yield, tick, sleep, wake, migrate, fork, change weight or request | incremental fixed-point sums, rounding, carried lag, the order of accounting and tree operations | the sums are the sums, the owed entity with the earliest deadline runs, what is carried is applied once |
| Runtime supervisors (`ksu/abk_runtime_tunables`) | pid and state files, sysfs values | policy ticks, restarts, action button | check-then-act on pid files, each attribute write may fail | one supervisor each, the policy is re-established |
| Reclaim, scheduler policy, block, mm and fs groups | kernel state outside the repository | edits of single kernel functions | mostly local | mostly local |

How they interact: `setup.sh` calls `stable_backport.sh`, which starts one
Python process per child (core, perf, display); the processes share only the
tree and the sidecars. The overlays run after the children, the rollback at any
later time. Inside the kernel, kcompressd hands pages to zram through the swap
layer; writeback and recompression share the slots of a device and its
`init_lock`. The supervisors write the attributes that mark pages and start
zram's sweeps.

## Modules

### GraftEngine, GraftGroups, MCGraft

A kernel file is a set of *atoms* (blocks of text an anchor can name), so a step
`old -> new` is a set replacement. `disk` and `orig` are the tree and the
sidecars; `texts`, `dirty`, `before`, `pending`, `queue` are the fields of
`GraftContext` and the locals of `run_child` and `apply_steps`. One action is
one effect on the disk or one decision of the code: `StartGroup` makes the
probes, `StageStep` stages one step, `CtxWrite`, `Snapshot` and `WriteTarget`
are the three parts of a write, `Judge` is `run_child`'s verdict, `Overlay*`
the shell's overlays, `Rollback*` the rollback. Faults are actions too:
`WriteFails`, `SnapshotFails`, `Crash`; the constant `Faults` says which may
happen. `Targets` says which children a pass may run: 0 is all of them, as
`stable_backport.sh` does, `n` the n-th alone.

`GraftGroups` has all 103 groups of the three children in the order of the
lists: each with its checks (what the group looks for before it edits, and the
status it returns then), its steps, its optional steps, the files, and what it
does when an anchor is missing. The C text of a step is one atom, or as many as
other groups tell apart.

`MCGraft` computes the pristine tree from the groups: a file holds every anchor
that is expected there and that no group adds. From it come 137 more trees that
lack one piece of text each. For every group with a required step one anchor is
taken away; one is enough, since `apply_steps()` stages all steps before it
writes and drops them all if one required anchor is missing, whichever it is.
And every piece of text that a check looks for is taken away in turn. The other
instances are smaller: for the faults, two pairs of groups that share files and
rest on one another, on the lts tree and on one without the text that kcompressd
looks for; and a tree of another shape.

### Kcompressd

One NUMA node. kswapd, the drain thread and hotplug each have a program
counter; the three share `at`/`cur`, the progress of their own
`abk_kcompressd_do_swapout()`. Pages have `mem` (still in memory), `slot` (the
swap cache entry), `lock`, `wb`, `refs`; `dev` is what a swap slot holds.
Swap-in, other page lock holders and slot freeing are external, as far as the
code relies on them. `WbPin` says whether the tree carries batch 71.

### ZramWriteback, PageStore

One zram device. `slot` is the table (`kind`, `prio`, and the flags `wb`, `idle`,
`under`), `used` the block bitmap, `block` the content of the backing device.
A sweep `sw[s]` is one `writeback_store()` call with its control block; `req[s]`
its request pool. A sweep's step is one critical section of the code: the budget
test, the choice of a request, the reservation of a block, the slot lock in
which the slot is marked, the read, the submission, each completion. The bio
callback has two steps (list the request; wake the sweep), because the sweep may
release the control block in between. A block's or a page's content is a value
and an encoding (raw or by the algorithm of a priority), so that reading a
written-back slot with the wrong algorithm gives nothing. `last`, `budget`
and `written` are history. User I/O, idle marking and recompression go on at
any time. `Overlap` says which attribute writes may overlap others; `{}` is a
single administrator, which is how the runtime supervisor writes them.

`rd` is a read of a page, by its critical sections. `BvecRead` is
`abk_zram_bvec_read()`: under the slot lock it tests whether the slot has a
compressed block, and drops the lock. If so the backing device answers and the slot
is looked at once more before the block is decompressed. If not, `ReadSlot` is
`__zram_bvec_read()`, which takes the lock again and tests ZRAM_WB anew: it copies
what is in memory, or reads the block as it lies there. A completion between the
two may have written the page back in compressed form; `gap`, history, says of a
read that this is what it met (finding 3). The user does not overwrite or discard
the page it is reading (the swap layer and the page cache keep a page locked
while it is read); the sweeps, recompression and the other pages' stores do not
stop for it.

`PageStore` is what the device promises: an array of pages that read as last
written. `ServesPages` is its specification, with the array mapped to what each
slot would read as at this moment, so every internal step (marking, writing
back, recompressing, completing, failing) has to be invisible. A read that met the
gap counts as no reply there; `ReadsReturnPage` is the statement about all reads.

Left out because no reachable state takes them: the error return of
`zram_read_from_zspool_raw()` (the slot holds an object while it is locked).

### ZramRecompress

One zram device as recompression sees it. A page's content is a function from
algorithms (priorities) to size classes, which is all `zram_recompress()` ever
decides by. `call` has the two kinds of caller: the user-space loop of
`zram-policy.sh` or the tool, and anybody else who writes the node. A sweep reads
its bound, takes `init_lock`, and then looks at one slot per step; the
asynchronous one drops the slot lock, finds the worker under the map's lock and
queues a job after it has dropped that lock too. `Work` is a job under the slot
lock. `ResetDevice` and `Drain` are the reset under `init_lock`, `MetaFree` and
`DestroyComps` what it does after it has dropped the lock, with the size already 0.
`DisksizeStore` sets the device up, or fails for want of memory or of a compressor;
`Overlap` says whether it may do so between these steps, as nothing in the code
forbids. Stores, accesses and frees of pages wait for the end of the reset: its
claim keeps the block device closed until then. A sweep that has lost its table
crashes the kernel; the model says nothing of what follows. Writeback appears as
the slot's `wb` only. `ticks` counts the sweeps between two marks; `MarkEvery = 0`
is the tool's `--daemon`, which marks once and ends when a write fails (`loop` is
then "dead"). `ActiveAtAdd` is the count of algorithms `zram_add()` starts with.

### Eevdf

One `cfs_rq` with `sched_feat(EEVDF)` on. Every action is one critical section
under `rq->lock`; its effect is a composition of functions from run queue to run
queue, one for each function of the code. `q` is the run queue with its entities:
`min`, `sum` and `load` are `min_vruntime` and the two incremental sums, `pick`
the stash of RUN_TO_PARITY, `next` and `skip` the buddies. An entity has
`vr`, `dl`, `rel` (the relative deadline and its tag), `vlag`, `slice` and its
weight; `st` says where it is. `fresh` is history: forked, and not run since. What
the 5.15 functions do around the grafted lines is external. Virtual times are
integers; the one place where the code compares them as unsigned values
(`abk_eevdf_apply_lag_placement()`) says so. 5.15's own tick checks are a choice,
since they depend on clock values the graft does not touch.

## Runs

| Run | Question | Result |
|---|---|---|
| `graft_runs` | two fault-free passes, real or dry, of all 103 groups or of the core child alone, on 138 trees: is a second pass a no-op that completes, are landed groups whole, do degraded groups leave nothing, do dependent groups stay together, does a dry run foretell the report, is everything a group stages on the disk when it returns, does the report hide an edit | passes |
| `graft_shapes` | trees of another shape (suite-edited fdtable, no frontswap branch, missing optional anchors), failing, torn and cut-off snapshots, crashes, passes and rollbacks: who may remove a snapshot | passes |
| `graft_faults` | failing kernel-file writes and crashes, also in a rollback, passes and rollbacks in any order, on trees where the kcompressd and the EEVDF groups land and on a tree kcompressd does not recognise: snapshots stay pristine and cover what was modified, a rollback restores the tree, a dependent edit never stands alone | passes |
| `kcompressd_pinned` | safety with batch 71 | passes |
| `kcompressd_live` | nobody waits for ever | passes |
| `zramwb_reads` | does every read return the page | violated, finding 3 |
| `zramwb_two_sweeps` | two sweeps over one slot, raw and compressed, incompressible pages, recompression, and a reader: the books of marks and counters, and whether the device implements `PageStore`, but for reads that met the gap | passes |
| `zramwb_attributes` | attributes, reset, removal and re-adding, two requests over two slots, two budget units to a page: the table, the blocks and the budget; every sweep ends | passes |
| `zramrec_queue` | the asynchronous queue, another writer's synchronous sweep, writeback, failing allocations and resets, with one size and no set-up inside a reset | passes |
| `zramrec_starved` | do capped sweeps reach every marked page with the supervisor's clocks | violated, finding 1 |
| `eevdf_fair` | three entities doing everything an entity can do: exact sums, the right pick, carried state applied once | passes |
| `eevdf_short` | does a short request that preempts get the CPU | violated, finding 2 |

`PROJECT.json` gives the properties of each run, the code lines of every
definition (`map`) and, for every property of a passing run, a mutated
definition under which TLC finds the property violated. In the modules the
mutated definitions carry the comment `mutant`.

### Bounds

* Graft: `MaxRuns` passes or rollbacks and `MaxFaults` faults. Two passes are what
  the fault-free properties speak of; three, with two faults, are the shortest
  history in which a pass meets a tree that was written, rolled back and written
  again, with a crash in the recovery from a crash. The run with failing writes uses
  groups with shared files, since faults in groups of disjoint files do not meet,
  and among them two pairs that rest on one another across files, each of which
  lands on the lts tree. `faults` remembers the kinds of the faults, so that
  `DependenciesMet` can exempt what follows a failed write (see Findings).
  `CHECK_DEADLOCK FALSE`: the module is a finite job, it does stop.
* kcompressd: three pages and three slots with a ring of two. Two pages fill the
  ring, the third meets the soft limit; a slot freed by one page can be reused
  by another. The soft limit ranges over zero, one and the ring's size. The
  liveness run uses two pages and a ring of one.
* zram writeback: `zramwb_attributes` has two slots, two requests and two blocks, so
  that two bios are in flight and the pool and the device run out; a batch size of
  one makes every page wait for the one before it, and 3 is above the maximum.
  `zramwb_two_sweeps` has one slot that two sweeps of one request each want, and two
  blocks, so that a block is freed and used again while a bio or a read is about it.
  Two values tell a stale page from a current one. `Wrap` is 8 instead of 2^64 and
  `Unit` 2, so that the budget can underflow within the run; the one limit written,
  3, is no multiple of the unit. Same-filled pages, which a sweep passes over, are in
  the theorems but in none of these runs.
* zram recompression: `MaxStores`, `MaxFails` and `MaxJobs` bound stores, failures
  and queued jobs. Two pages with a cap of one make the second page wait for the
  first; a queue of one makes a sweep wait for the worker. The contents are a page
  the secondary algorithm shrinks and one it does not. The passing run sets
  the device up with one size and not inside a reset (see Findings).
* EEVDF: `Horizon` ends the history at a virtual time, `MaxMoves` bounds how often
  an entity comes back or is changed. Three entities are needed: one that runs, one
  that is owed service and one that pulls the average. Weights 1 and 2 with
  `NICE_0_LOAD` 2 make rounding happen; the clock starts below zero. The run stops
  at the horizon, and a run queue may be idle, hence `CHECK_DEADLOCK FALSE`.

Symmetry is used for pages, slots, values, sweeps and entities in runs without
liveness only; nothing in the models orders them.

## Fairness

* kcompressd: weak fairness of every thread's own steps (a runnable kernel
  thread is scheduled), weak fairness of whoever holds a page lock giving it
  back, and strong fairness of taking a page lock (`lock_page()` queues waiters
  and hands the lock over). Assumed of the rest of the kernel, and not provable
  from the repository: a lock holder does not wait for writeback of the page it
  holds.
* zram writeback: weak fairness of the sweep's steps and of the device and its
  callbacks (the block layer ends every bio; callbacks run to their end). User
  I/O, idle marking and attributes have no fairness: they may stop or go on for
  ever.
* zram recompression: weak fairness of the loop (its `sleep` ends), of the steps
  of a sysfs write, of the worker thread and of a reset that has begun. Stores,
  accesses, writeback, other writers and set-up have none.
* The graft and EEVDF models have no liveness property: the process may die at any
  time, and how much time passes between two scheduler events is not the code's.

## Proofs

TLAPS proves the following for every value of the constants that satisfies the
named assumptions in the component's module.

`GraftProofs` (any tree, any list of groups, any faults):
* `TypeCorrect`: `TypeOK`. The inductive `TypeInv` adds the locals that tie a
  step's index to the group being run.
* `SnapshotsStaySound` (`SnapshotsSound`), `RollbackRestoresTree`,
  `SnapshotsWrittenOnce`, under the hypothesis `NoTear`: snapshot writes are not
  torn and no crash falls between a new file and its sentinel (without it the
  statements are false, see Findings). `SafeInv` joins three facts. A sidecar is
  the pristine text or the sentinel; a file that differs from the pristine one has a
  sidecar, except between the two steps that create a new file; during a rollback
  the files already visited are pristine and have no sidecar. None of them is
  inductive alone: `write_text()` takes what it finds on the disk for the
  original, which is right only because an uncovered file is still pristine.

* `DryRunsForecast` (`DryRunForecasts`), under the hypothesis `WritesSucceed`: no
  write of a kernel file or of a snapshot fails; the process may die. The proof
  looks at a run of a child as a machine on what the engine sees (`Now`: the
  texts that `ctx.read()` returns, and where the run is), in which a file that is
  cached but not yet on the disk is as good as written. Every step of a group is a
  `Turn` of that machine or leaves it where it is, and whether the run is dry plays
  no part in a turn (`TurnsStartGroup` to `TurnsJudge`, `WritesStay`). What a run
  passes through (`Course`) would be defined by recursion; here it is the smallest
  set closed under the turns, so that the argument is first order
  (`LeadsToEnd`: where each state has one successor, whatever the start leads to
  leads to the end). `ForecastInv` says that a running child is on the course that
  starts at the tree it found, and that every forecast was made by a run that got
  through that course. Two courses from one tree are the same one, and reports grow
  along it (`CoursesAgree`).
* `GroupsLand` (`GroupsLandWhole`) and `EditsAreReported` (`ReportsEveryEdit`),
  under `WritesSucceed`, since after a failed write the cache and the disk differ
  (see Findings). `GroupInv` adds four parts to `ForecastInv`: the cache of a real
  run agrees with the disk but for the file being written (`CacheOK`); while no edit was applied, what is staged is what
  was read (`TouchOK`); a required edit stays staged until a later step of the group
  edits the same text, what is staged is queued, and what has left the queue is
  on the disk (`LandOK`); and until an edit is reported the tree is the one the
  child found (`QuietOK`). TLC checked these parts before they were proved.

`KcompressdProofs` (any number of pages and slots, any ring size, any soft
limits):
* `TypeCorrect`: `TypeOK`; `RingOutlivesPages`: `RingAlive`; `ReferencesMatch`:
  the offload holds one reference for each place of a page in the ring and for each
  writer that has it. These hold with and without the pin. `RingAlive` rests on
  `NodeOK`: there is a ring while there is a thread, a queued page or a hotplug under
  way, and a node without a thread has nothing queued but what the teardown has
  still to write.
* `QueuedKeepsSlot`, `SwapOutLosesNothing`, `KswapdNeverWaitsForItself`, under
  the hypothesis `WbPin`. The invariant `PinInv` is a conjunction: `OnceEach` (a
  page is in the ring or with a writer at most once), `HeldSafe` (such a page is
  in memory, under writeback, and has its slot), `KpageSafe` (the page kswapd is
  working on, by program counter), `LocksSafe` (who holds which lock) and
  `CleanSafe` (a page with a slot that is neither queued nor being stored
  has been written to it). `SlotPinned` alone is not inductive: what keeps a
  slot is PG_writeback, and that a queued page always has the flag depends on
  when kswapd drops the lock.
* `CountersMeet`: `RefsBalanced`, under `WbPin`: without it a dropped page is never
  subtracted (see Findings). The references and the depth are counted over the
  places of the ring, not its pages, so that the count does not need `OnceEach`.

`ZramWritebackProofs` (any device size, backing device, batch size, number of
sweeps, any overlap of attribute writes but a set-up with a reset):
* `ControlCorrect`, `TypesCorrect` (`TypeOK`), `TableIsAlive` (`TableAlive`) and
  `CtlIsAlive` (`CtlAlive`), under the hypothesis `OneSetup`: nobody sets the
  device up or resets it while a reset is under way. Without it `TableAlive` is
  false (see Findings). `ControlInv` says, by the program counter of each sweep,
  what it holds, that it is within the size it read, and what its requests carry;
  and which of size, table and opening go together at each stage of a reset. That
  a sweep stays inside the table needs that the size cannot change under
  `init_lock`, which needs that no sweep runs on a device whose reset has begun.
* `BudgetIsKept`: `WithinBudget`, under `OneSetup` and `OneSweep` (one sweep at a
  time, no new limit under it: an administrator who writes one attribute after the
  other; two sweeps can overrun it, see Findings). `BudgetInv` adds that the limit
  is a whole number of pages, that every request on its way has been charged, and
  that a sweep that may submit without another test finds the limit covering the
  page. The charge is taken back when a bio fails; that this never wraps needs that
  the request was charged.

`ZramBlocksProofs` (as above, `OneSetup`):
* `MarksAreOwned` (`UnderWbOwned`), `BlocksAreAccounted` (`BlocksAccounted`) and
  `CountersAreExact` (`CountersExact`), all parts of the inductive `BooksInv`: no
  two sweeps or requests are about the same slot and a slot is marked just when one
  is about it; no two of the slots, requests and sweeps own the same block and the
  owned blocks are the busy ones; past the size the table is empty. They are proved
  together: a completion frees or keeps a block by the mark, and that a reset finds
  every block owned by a slot needs the control.

`ZramPagesProofs` (as above, `OneSetup`):
* `PagesCorrect`, `PagesReadBack`: `ReadsBack`. The inductive `PagesInv` speaks of slots, requests
  and blocks at once: every slot reads as last stored; a request about a slot that
  still looks as it was marked holds that slot's page in the encoding a later read
  will expect; a block whose bio has succeeded holds what its request holds; the
  reader's block is still its slot's, and a read that is to return a block raw finds
  it raw unless it met the gap (`gap`). `ReadsBack` alone is not inductive, since what
  a completion publishes was copied many steps before.
* `PagesAreServed`: the refinement `ServesPages`. Every step of the device maps to
  a step of `PageStore` or to a stutter, action by action. It says nothing of the
  reads that met the gap, which are no replies there: finding 3 shows what they
  return.

`ZramRecompressProofs` (any device size, set of secondary algorithms, length of
the queue):
* `LifeCorrect`, `TypesCorrect` (`TypeOK`) and `AwayIsUntouched` (`AwayUntouched`,
  an action property: no step of a call and no job changes a slot that is empty,
  under writeback or written back). They hold with any sizes, and with set-ups that
  fall into a reset. `LifeInv` joins the device's life (the table, the compressors
  and the worker, by the stage of the reset; that the table and the compressors go
  together is claimed only where no set-up falls into a reset), the callers and the
  queue.
* `JobsOutliveNothing`: `JobsAlive`, under `OneSize` and `~Overlap`: the device is
  always set up with the same size, and not before a reset is over, as the
  supervisor does. Neither can be dropped (see Findings).

`SumTheorems`: what a sum over a finite set (`SumFunctionOnSet`) is when an element
joins or leaves, when the summands are shifted, and that it bounds its summands.
The library's induction theorems take the formula as an operator; here a set
stands for it, the set of all numbers (or subsets) that satisfy the formula, so
that the induction is first order.

`EevdfProofs` (any number of entities, any weights, requests and clock steps):
* `RunQueueCorrect`: the inductive `EevdfInv`. The sums are those over the tree;
  the current entity is runnable; a runnable entity carries nothing and is short of
  its deadline unless it is new, a new one carries nothing, and one between two run
  queues has its relative deadline. The kernel's functions take an entity out
  of the tree, change it and put it back, so every operator has a lemma on the
  sums over an arbitrary set `T`, and the lemmas compose as the functions do.
* `SumsCorrect` (`SumsExact`) and `NothingAppliedTwice` (`CarriedOnce`) follow.
* `EarliestRuns` (`EarliestEligibleRuns`): the rounded average makes the same
  choice as the exact one, since `floor` of a sum over integers keeps the order with
  integers; and the leftmost entity is always owed service, so that there is one to
  pick.
* `RequestIsKept` (`RequestKept`, an action property), under `WeightsFit`: a weight
  is at most `Nice0` times each request and the minimal granularity, so that a
  request in virtual time is never zero. In the code a request is at least 100 us
  (`batch15_perf_eevdf.py` clamps it), and no weight is more than 100 times
  `NICE_0_LOAD`.

## Only model-checked

Liveness under fairness (`WritebackEnds`, `TeardownEnds`, `KswapdReturns`,
`SweepEnds`, `MarkedReached`, `ResetEnds`) and ENABLED (so the absence of
deadlocks) are out of the prover's reach. Of the graft engine, `SecondPassStable`,
`WholeGroups`, `DegradedLeavesNoTrace` and `DependenciesMet`
do not hold of any list of groups but of these 103, whose texts overlap in the
right way: they rest on a probe recognising what later groups make of its text,
and on one marker standing for a whole group. What holds of any list is proved:
`GroupsLandWhole`, `ReportsEveryEdit` and `DryRunForecasts`.

`NoTear`, `WritesSucceed`, `WbPin`, `OneSetup`, `OneSweep`, `OneSize` and `~Overlap` are
conditions on the constants, and each excludes a behaviour the code really has: Findings names, for
each, a property that TLC finds violated without it. What the runs check without
one of them (two sweeps in `zramwb_two_sweeps`, torn snapshots in `graft_shapes`) is
model-checked only, unless the theorem says otherwise.

## Findings

Three runs show the code violating what a comment or a document says; the quotes
are in `PROJECT.json`.

1. `zramrec_starved`: `zram_add()` and `disksize_store()` both count the primary
   algorithm, so no page is ever given up as incompressible. Pages the secondary
   algorithm cannot shrink are attempted again after every mark and use up the
   cap; a page behind them is never reached. With `ActiveAtAdd == 0` the same run
   passes.
2. `eevdf_short`: when PREEMPT_SHORT fires for a wakee, RUN_TO_PARITY still
   returns the current entity at the selection that follows.
3. `zramwb_reads`: a read finds a page in memory and drops the slot lock; the
   completion of a compressed writeback follows; `__zram_bvec_read()` takes the lock
   again, finds ZRAM_WB and reads the block raw. The reader gets compressed bytes
   (`batch17_core_zram_writeback.py:959`).

The models show more disagreements with comments and documents. They have no run
of their own; each appears when the constants of a passing run are changed as
said and the named property is checked alone.

* A group that reported `partial` makes the next pass abort: `SecondPassStable`
  in `graft_shapes` with `Faults = {}` (`abk_backport_engine.py:223` against the
  `partial` the same file returns at line 357).
* After a failed write the cache keeps the edit of a group that is reported as
  degraded, and a later group of the child writes it: `DegradedLeavesNoTrace` in
  `graft_faults` with `Faults = {"write"}` (`abk_backport_engine.py:35` against its
  comment at line 216). Or a later group finds in the cache what it rests on, and
  lands alone: `DependenciesMet` without its condition on failed writes, in
  `graft_faults` (against `batch15_perf_eevdf.py:1404`: the KABI slots are "never
  claimed without the scheduler logic that consumes them"). A group that fails at
  its second file has written the first: `ReportsEveryEdit` in the same run; a dry
  run cannot foretell that (`DryRunForecasts`, with `MayDry`).
* A crash between two files of `psi_irq_tracking` leaves a half group, which its
  probe takes for a complete one: `WholeGroups` in `graft_faults` with that group as
  the only one and `Faults = {"crash"}` (`abk_stable_perf.py:887` against
  `docs/group_recipe.md:127`).
* A snapshot that is cut off is taken for a snapshot, and restored over a file that
  was never modified: `RollbackRestores` in `graft_shapes` with
  `Faults = {"snapshot"}` (`abk_common.py:32` against `docs/porting_policy.md:565`).
* A crash between `moon_kmsg.c` and its sentinel leaves a file that no rollback
  deletes: `RollbackRestores` in `graft_shapes` with `Faults = {"newfile"}`
  (`stable_backport.sh:168` against its comment at line 153).
* A rollback that dies between two files separates dependent edits (`page_io.c`
  restored, `vmscan.c` not) until it is run again: `DependenciesMet` in `graft_faults`
  without its condition `todo = {}`. No document says otherwise.
* On an unsupported kernel family the overlays still write, although
  `stable_backport.sh:228` says that nothing is written; the rollback undoes
  these writes as well (`graft_faults` has such trees).
* Without batch 71 (`WbPin = FALSE`) a page that lost its slot after the test of
  `PageSwapCache()` is written all the same (`SlotPinned` in
  `kcompressd_pinned`), and a dropped page leaves the two counters apart for good
  (`RefsBalanced`, against the comment at `batch41_core_vm_kcompressd.py:221`).
* Pages can complete out of order: kswapd writes the oldest queued page while the
  drain thread still holds an older one (`batch41_core_vm_kcompressd.py:402`
  against its comment at lines 336-337). Nothing rests on the order, and no
  property states it.
* The reset frees the table after it has dropped `init_lock`, so a table
  created in between is freed under a sweep: `TableAlive` in `zramwb_attributes`
  with `Overlap = {"sweep", "setup"}` (`abk_stable_core.py:2684` against the
  comment at `batch17_core_zram_writeback.py:56-58`).
* The same race in recompression: a set-up between the reset's dropping of
  `init_lock` and its freeing of the table and the compressors gives the new device's
  to the reset, under a sweep that holds `init_lock`: `SweepsInTable` in
  `zramrec_queue` with `Overlap = TRUE` (`abk_stable_core.py:2684` against its comment
  at line 2685). Queued jobs do not lose them: the reset's claim keeps the block
  device closed, so the new table is empty until it is freed and no job is queued for
  it (`JobsSeeLivePool` alone passes there, with the state constraint `active <= 5`:
  a set-up inside a reset leaves `num_active_comps` one higher each time).
* Both recompression nodes compute their bound before they take `init_lock`; after a
  reset and a smaller disksize they lock slots past the table: `SweepsInTable` in
  `zramrec_queue` with `Sizes = {1, 2}` (`abk_stable_core.py:2779`, and
  `batch14_core_zram_writeback.py:87`, which moves the same declaration of
  `writeback_store()` under the lock for that reason).
* Two concurrent sweeps can overrun the write budget: `WithinBudget` in
  `zramwb_two_sweeps` with `Limits = {4}` and `Unit = 2`
  (`batch17_core_zram_writeback.py:176` against its comment at line 171).

Read off the code while modelling it, and kept in the model as it is:

* An entity that wakes with no lag keeps the vruntime of 5.15's sleeper placement;
  the comment at `batch15_perf_eevdf.py:988-991` says that the EEVDF placement
  supersedes it.
* The preserved lag is scaled by the load of the tree without the current entity
  (`batch15_perf_eevdf.py:598`), so an entity is not placed back with exactly the
  lag it left with.
* A forked child's deadline stays absolute in the time of the run queue it was
  forked on (`batch15_perf_eevdf.py:710`), while its vruntime is made relative;
  the comment at line 684 is about the vruntime only.
* `min_t(u64, avruntime, lag)` cuts the lag of an entity that is placed just after
  the virtual clock has passed zero (`batch15_perf_eevdf.py:616`).
* An entity whose absolute deadline is exactly zero is taken for one that has none
  (`batch15_perf_eevdf.py:533`): when its weight changes, or it moves, its request
  is renewed instead of kept. The proof of `RequestKept` came to it beyond the run's
  bounds: without its conjunct `s.dl # 0` TLC finds the property violated in
  `eevdf_fair` with `Below = 5` and `Horizon = 1`.
* A recompression with a threshold leaves the IDLE mark of a page below it and
  charges the cap all the same. `--daemon` of `zram_recompress_trigger.sh` ends at
  the first failing write (line 269, under `set -eu`). The asynchronous queue has no
  bound of its own.
* The assumption of the kcompressd liveness properties, that a holder of a page lock
  does not wait for that page's writeback, is not met by every path of the kernel
  outside the repository on its face: synchronous migration and swapoff lock a page
  and may then wait for its writeback. Such a path would have to be shown not to
  meet a page that kcompressd has queued.

## Not modelled

`PROJECT.json` lists every component with its status. Left out, and why:

* The engine's report rendering and family parser, packaging (`ak3_bundle`,
  `build_ksu_module`) and the measurement tools: output only; nothing depends on
  their state.
* The kernel code of the reclaim, memcg, scheduler-policy, block, mm and fs groups.
  They change parts of kernel functions whose other parts and whose state are not
  in the repository; `GraftGroups` has them as the engine sees them.
* Of EEVDF: the hierarchy of task groups, the 5.15 selection that runs with the
  feature off, and migration at wake-up (which needs two run queues).
* The supervisors' pid files and set-up sequence, the PSI policy's hysteresis, and
  the cached-freeze daemon: not reached yet.
* The sailboat add-on (writes sysfs values once), the vendored `address.c`, and
  `moon_kmsg.c` (a write-only log device).

## Plan

What is left, in this order.

1. Proofs. `GraftGroups`: which conditions on a list of groups make
   `DegradedLeavesNoTrace` and `WholeGroups` hold without faults, and a run that
   shows the 103 groups to meet them.
2. `Supervisor`: pid files, spawn and kill, and the set-up sequence of
   `zram-policy.sh` with every attribute write allowed to fail.
3. A second run queue for `Eevdf`, for the migration of sleepers and new tasks.
4. `PsiPolicy`: the hysteresis. `Mglru`: the reclaim loop of `batch49` and the
   swap-in window of `batch73`.

## How to run

    tlc -workers 2 -config graft_runs.cfg MCGraft
    tlc -workers 2 -config kcompressd_pinned.cfg MCKcompressd
    tlc -workers 2 -config zramwb_two_sweeps.cfg MCZramWriteback
    tlc -workers 2 -config zramrec_queue.cfg MCZramRecompress
    tlc -workers 2 -config eevdf_fair.cfg MCEevdf
    tlc -workers 2 -config zramwb_reads.cfg MCZramWriteback      # a finding: violated
    tlapm GraftProofs.tla
    tlapm KcompressdProofs.tla
    tlapm ZramWritebackProofs.tla
    tlapm ZramBlocksProofs.tla
    tlapm ZramPagesProofs.tla
    tlapm ZramRecompressProofs.tla
    tlapm SumTheorems.tla
    tlapm EevdfProofs.tla
