--------------------------- MODULE ZramRecompress ---------------------------
(***************************************************************************)
(* Recompression of a zram device by its secondary algorithms: the         *)
(* synchronous sweep of recompress_store() and zram_recompress(), the      *)
(* queue of recompress_async_store() and its worker (batch 10), the cap on *)
(* attempts (batch 24), the test that spares pointless ones (batch 47),    *)
(* reset and set-up of the device, and the user-space loop that marks cold *)
(* pages on one clock and sweeps on another.                               *)
(*                                                                         *)
(* A page is described by what each algorithm makes of it: its content is  *)
(* a function from priorities to size classes.  Writeback is one flag here *)
(* (module ZramWriteback has the details).                                 *)
(***************************************************************************)
EXTENDS Integers, Sequences, FiniteSets

CONSTANTS
    NPages, Sizes,   \* the largest disksize, and the ones set, in pages
    Secondaries,     \* priorities registered by zram_add(); their choice is
                     \* locked (batch 11), later writes are ignored
    Huge, Contents,  \* the class of incompressible objects; page contents
    Nodes,           \* where the loop writes: "sync" (recompress) or "async"
    Caps,            \* max_pages of the loop's sweeps; NPages is no cap
    MarkEvery,       \* sweeps to a mark; 0: marked once (--daemon)
    Requests,        \* what others write: node, mode, threshold, algorithm
    Overlap,         \* whether a set-up may fall into a reset; FALSE for one
                     \* administrator
    MaxStores, MaxFails, MaxJobs   \* bounds: stores, failures, queued jobs

Prios == {0} \cup Secondaries
MaxComps == 4                       \* ZRAM_MAX_COMPS
Index == 0..NPages - 1
Request == [node : {"sync", "async"}, mode : {"all", "idle", "huge", "huge_idle"},
            thr : 0..Huge - 1, algo : {0} \cup Secondaries]

ASSUME RecompressAssumption ==
    /\ NPages \in Nat \ {0} /\ Sizes \subseteq 1..NPages
    /\ Secondaries \subseteq 1..MaxComps - 1 /\ Huge \in Nat \ {0}
    /\ Contents \subseteq [Prios -> 1..Huge] /\ Nodes \subseteq {"sync", "async"}
    /\ Caps \subseteq 0..NPages /\ MarkEvery \in Nat /\ Requests \subseteq Request
    /\ Overlap \in BOOLEAN
    /\ MaxStores \in Nat /\ MaxFails \in Nat /\ MaxJobs \in Nat

Callers == {"loop", "other"}        \* the user-space loop; anybody else

VARIABLES
    disksize, table, comps,   \* pages (0: not init_done), zram->table is set,
                              \* the compressors zram->comps holds
    active,                   \* num_active_comps
    stage,                    \* how far zram_reset_device() has come
    slot,
    call,                     \* recompress_store(), recompress_async_store()
    worker, jobs, run,        \* the map entry, its work list, the work in hand
    loop, ticks,              \* the user-space loop; sweeps since the mark
    stores, fails             \* counters for the bounds

device == <<disksize, table, comps, active, stage>>
queue  == <<worker, jobs, run>>
policy == <<loop, ticks>>
bounds == <<stores, fails>>
vars   == <<device, slot, call, queue, policy, bounds>>

NoPage == <<>>
FreeSlot == [c |-> NoPage, prio |-> 0, idle |-> FALSE,
             incomp |-> FALSE, wb |-> "none"]
NoJob  == [idx |-> NPages, thr |-> 0, lo |-> 0, hi |-> 0, idle |-> FALSE]
NoCall == [pc |-> "off", node |-> "sync", mode |-> "all", thr |-> 0, lo |-> 1,
           hi |-> MaxComps, nr |-> 0, index |-> 0, left |-> 0]

(* zram_add() counts the primary algorithm once, before disksize_store()   *)
(* counts every compressor it creates.                                     *)
ActiveAtAdd == 1

Init ==
    /\ disksize = 0 /\ table = FALSE /\ comps = {} /\ active = ActiveAtAdd
    /\ stage = "none" /\ slot = [i \in Index |-> FreeSlot]
    /\ call = [c \in Callers |-> NoCall]
    /\ worker = FALSE /\ jobs = <<>> /\ run = NoJob
    /\ loop = "sleep" /\ ticks = 0 /\ stores = 0 /\ fails = 0

Least(S) == CHOOSE x \in S : \A y \in S : x <= y
Greatest(S) == CHOOSE x \in S : \A y \in S : x >= y
Held(sl) == sl.c # NoPage
Class(sl) == sl.c[sl.prio]

(* Anything that may fail does so only MaxFails times.                     *)
MayFail == fails < MaxFails
Fail == MayFail /\ fails' = fails + 1 /\ UNCHANGED stores

-----------------------------------------------------------------------------
(* The device's user and writeback                                         *)

(* The user has the device open: a reset under way has claimed it, so that *)
(* it cannot be opened.  A store without a table or a compressor faults.   *)
InUse(i) == i < disksize /\ stage = "none"

(* zram_free_page() resets everything but UNDER_WB.                        *)
FreedSlot(sl) == [FreeSlot EXCEPT !.wb = IF sl.wb = "under" THEN "under" ELSE "none"]

Store(i, c) ==
    /\ InUse(i) /\ table /\ comps # {} /\ stores < MaxStores
    /\ slot' = [slot EXCEPT ![i] = [FreedSlot(@) EXCEPT !.c = c]]
    /\ stores' = stores + 1
    /\ UNCHANGED <<device, call, queue, policy, fails>>

SlotFree(i) ==
    /\ InUse(i) /\ Held(slot[i])
    /\ slot' = [slot EXCEPT ![i] = FreedSlot(@)]
    /\ UNCHANGED <<device, call, queue, policy, bounds>>

(* zram_accessed()                                                         *)
Accessed(i) ==
    /\ InUse(i) /\ Held(slot[i]) /\ slot[i].idle
    /\ slot' = [slot EXCEPT ![i].idle = FALSE]
    /\ UNCHANGED <<device, call, queue, policy, bounds>>

(* Writeback marks the slot UNDER_WB and idle; later the slot is WB, if it *)
(* is still marked, or it is given up.                                     *)
UnderWb(i) ==
    /\ i < disksize /\ Held(slot[i]) /\ slot[i].wb = "none"
    /\ slot' = [slot EXCEPT ![i].wb = "under", ![i].idle = TRUE]
    /\ UNCHANGED <<device, call, queue, policy, bounds>>
WritebackEnds(i) ==
    /\ i < disksize /\ slot[i].wb = "under"
    /\ \/ slot' = [slot EXCEPT ![i].wb = "none", ![i].idle = FALSE]
       \/ slot[i].idle /\ slot' = [slot EXCEPT ![i].wb = "done", ![i].idle = FALSE]
    /\ UNCHANGED <<device, call, queue, policy, bounds>>

-----------------------------------------------------------------------------
(* zram_recompress()                                                       *)

(* The secondary algorithms above the slot's own, within [lo, hi).         *)
Above(sl, lo, hi) == {p \in comps : lo <= p /\ p < hi /\ p > sl.prio}

Accepts(sl, p, thr) == sl.c[p] < Class(sl) /\ ~(thr > 0 /\ sl.c[p] >= thr)

KeepsIdle(sl) == sl                                             \* mutant
ClearsIdle(sl) == [sl EXCEPT !.idle = FALSE]

(* The slot after zram_recompress(); the new object goes in by way of      *)
(* zram_free_page(), which resets the flags.                               *)
Recompressed(sl, lo, hi, thr) ==
    LET tried == Above(sl, lo, hi)
        wins  == {p \in tried : Accepts(sl, p, thr)}
    IN IF Class(sl) < thr THEN sl
       ELSE IF wins # {}
       THEN [FreedSlot(sl) EXCEPT !.c = sl.c, !.prio = Least(wins)]
       ELSE [ClearsIdle(sl) EXCEPT !.incomp =
               \/ @
               \/ /\ tried # {} /\ sl.c[Greatest(tried)] >= Class(sl)
                  /\ Cardinality(tried) = active - 1]

(* It fails before or after the mark is cleared.                           *)
FailedRecompress(sl) == {sl, ClearsIdle(sl)}

-----------------------------------------------------------------------------
(* recompress_store() and recompress_async_store()                         *)

(* init_lock is held for reading from "scan" on.                           *)
Inside(c) == call[c].pc \in {"scan", "find", "post"}
NoReader == \A c \in Callers : ~Inside(c)
Moves(c, pc) == call' = [call EXCEPT ![c].pc = pc]
Returns(c) == call' = [call EXCEPT ![c] = NoCall]
(* The write returns an error, which ends the tool: the loop that marked   *)
(* once (--daemon) is the tool itself.                                     *)
Errs(c) ==
    /\ Returns(c)
    /\ loop' = IF c = "loop" /\ MarkEvery = 0 THEN "dead" ELSE loop
    /\ UNCHANGED ticks

(* The arguments are parsed, and nr_pages computed, before init_lock.      *)
BeginCall(c, q, cap) ==
    call' = [call EXCEPT ![c] = [NoCall EXCEPT !.pc = "enter", !.node = q.node,
                !.mode = q.mode, !.thr = q.thr, !.nr = disksize, !.left = cap,
                !.lo = IF q.algo = 0 THEN 1 ELSE q.algo,
                !.hi = IF q.algo = 0 THEN MaxComps ELSE q.algo + 1]]

WriteNode(q) ==
    /\ call["other"].pc = "off"
    /\ BeginCall("other", q, NPages)
    /\ UNCHANGED <<device, slot, queue, policy, bounds>>

Enter(c) ==
    /\ call[c].pc = "enter" /\ stage # "drain"
    /\ \/ disksize = 0 /\ Errs(c)
       \/ disksize # 0 /\ Moves(c, "scan") /\ UNCHANGED policy
    /\ UNCHANGED <<device, slot, queue, bounds>>

FinishedUncapped(x) == x.index >= x.nr                          \* mutant
Finished(x) == x.index >= x.nr \/ x.left = 0

(* The page for the copies is allocated on the way in.                     *)
EndScan(c) ==
    /\ call[c].pc = "scan"
    /\ \/ Finished(call[c]) /\ Returns(c) /\ UNCHANGED <<policy, bounds>>
       \/ call[c].index = 0 /\ call[c].node = "sync" /\ Fail /\ Errs(c)
    /\ UNCHANGED <<device, slot, queue>>

Selected(sl, mode) ==
    /\ Held(sl) /\ sl.wb = "none" /\ ~sl.incomp
    /\ mode \in {"idle", "huge_idle"} => sl.idle
    /\ mode \in {"huge", "huge_idle"} => Class(sl) = Huge

(* abk_zram_recompress_pointless()                                         *)
Pointless(sl, lo, hi) == Above(sl, lo, hi) = {}

Attempts(x) == /\ Selected(slot[x.index], x.mode)
               /\ ~Pointless(slot[x.index], x.lo, x.hi)
NextIndex(x) == [x EXCEPT !.index = @ + 1]
Charged(x) == [x EXCEPT !.left = @ - 1]

Skip(c) ==
    /\ call[c].pc = "scan" /\ ~Finished(call[c]) /\ ~Attempts(call[c])
    /\ call' = [call EXCEPT ![c] = NextIndex(@)]
    /\ UNCHANGED <<device, slot, queue, policy, bounds>>

(* An attempt of the synchronous sweep; an error ends the sweep.           *)
Attempt(c) ==
    LET x == call[c]
    IN /\ x.pc = "scan" /\ x.node = "sync" /\ ~Finished(x) /\ Attempts(x)
       /\ \/ /\ slot' = [slot EXCEPT ![x.index] = Recompressed(@, x.lo, x.hi, x.thr)]
             /\ call' = [call EXCEPT ![c] = Charged(NextIndex(x))]
             /\ UNCHANGED <<policy, bounds>>
          \/ /\ \E sl \in FailedRecompress(slot[x.index]) :
                    slot' = [slot EXCEPT ![x.index] = sl]
             /\ Fail /\ Errs(c)
       /\ UNCHANGED <<device, queue>>

(* The asynchronous sweep has dropped the slot lock before it queues.      *)
Candidate(c) ==
    /\ call[c].pc = "scan" /\ call[c].node = "async"
    /\ ~Finished(call[c]) /\ Attempts(call[c])
    /\ call' = [call EXCEPT ![c] = [Charged(@) EXCEPT !.pc = "find"]]
    /\ UNCHANGED <<device, slot, queue, policy, bounds>>

(* abk_zram_recomp_enqueue(): the worker is found, or made, under map_lock *)
(* and used after the lock is dropped.                                     *)
FindWorker(c) ==
    /\ call[c].pc = "find"
    /\ \/ worker' = TRUE /\ Moves(c, "post") /\ UNCHANGED <<policy, bounds>>
       \/ ~worker /\ Fail /\ Errs(c) /\ UNCHANGED worker
    /\ UNCHANGED <<device, slot, jobs, run>>

JobOf(x) == [idx |-> x.index, thr |-> x.thr, lo |-> x.lo, hi |-> x.hi,
             idle |-> x.mode \in {"idle", "huge_idle"}]

QueueWork(c) ==
    /\ call[c].pc = "post"
    /\ \/ /\ Len(jobs) < MaxJobs
          /\ jobs' = Append(jobs, JobOf(call[c]))
          /\ call' = [call EXCEPT ![c] = [NextIndex(@) EXCEPT !.pc = "scan"]]
          /\ UNCHANGED <<policy, bounds>>
       \/ Fail /\ Errs(c) /\ UNCHANGED jobs
    /\ UNCHANGED <<device, slot, worker, run>>

-----------------------------------------------------------------------------
(* The worker: abk_zram_recomp_work()                                      *)

TakeJob ==
    /\ run = NoJob /\ jobs # <<>>
    /\ run' = Head(jobs) /\ jobs' = Tail(jobs)
    /\ UNCHANGED <<device, slot, call, worker, policy, bounds>>

RevalidatesIdle(sl, j) == Held(sl) /\ (j.idle => sl.idle)       \* mutant
Revalidates(sl, j) ==
    Held(sl) /\ sl.wb = "none" /\ ~sl.incomp /\ (j.idle => sl.idle)

NextRetried(sl, j) == IF Revalidates(sl, j) THEN NoJob ELSE j   \* mutant
(* A job is freed whatever came of it.                                     *)
NextJob(sl, j) == NoJob

(* A job takes the slot lock and nothing else, least of all init_lock.     *)
Work ==
    /\ run # NoJob
    /\ LET sl == slot[run.idx]
       IN IF Revalidates(sl, run)
          THEN \/ /\ slot' = [slot EXCEPT ![run.idx] =
                                Recompressed(@, run.lo, run.hi, run.thr)]
                  /\ UNCHANGED bounds
               \/ /\ \E x \in FailedRecompress(sl) :
                         slot' = [slot EXCEPT ![run.idx] = x]
                  /\ Fail
          ELSE UNCHANGED <<slot, bounds>>
    /\ run' = NextJob(slot[run.idx], run)
    /\ UNCHANGED <<device, call, worker, jobs, policy>>

-----------------------------------------------------------------------------
(* Set-up and reset                                                        *)

(* disksize_store() tests init_done() under init_lock, and nothing else:   *)
(* zram_reset_device() has cleared it, and dropped init_lock, before it    *)
(* frees the table and the compressors.                                    *)
MaySetUp ==
    /\ disksize = 0 /\ NoReader
    /\ stage = "none" \/ (Overlap /\ stage \in {"free", "comps"})

(* It may find no memory for the table, or be unable to create compressor  *)
(* p: then zram_destroy_comps() destroys those below p and any found.      *)
DisksizeStore(n) ==
    /\ MaySetUp /\ slot' = [i \in Index |-> FreeSlot]
    /\ \/ /\ disksize' = n /\ table' = TRUE /\ comps' = Prios
          /\ active' = active + Cardinality(Prios) /\ UNCHANGED bounds
       \/ Fail /\ table' = FALSE /\ UNCHANGED <<disksize, comps, active>>
       \/ \E p \in Prios :
             /\ Fail /\ table' = FALSE /\ comps' = {} /\ UNCHANGED disksize
             /\ active' = active - Cardinality({q \in comps : q >= p})
    /\ UNCHANGED <<stage, call, queue, policy>>

MayReset == disksize # 0 /\ stage = "none" /\ NoReader

(* zram_reset_device() up to the drain, under init_lock.                   *)
ResetDevice ==
    /\ MayReset /\ disksize' = 0 /\ stage' = "drain"
    /\ UNCHANGED <<table, comps, active, slot, call, queue, policy, bounds>>

FlushedQueue == jobs = <<>>                                     \* mutant
(* kthread_destroy_worker() waits for the list and for the job in hand.    *)
Flushed == jobs = <<>> /\ run = NoJob

(* abk_zram_recomp_drain(); init_lock is dropped after it.                 *)
Drain ==
    /\ stage = "drain" /\ Flushed
    /\ worker' = FALSE /\ stage' = "free"
    /\ UNCHANGED <<disksize, table, comps, active, slot, call, jobs, run, policy, bounds>>

(* zram_meta_free() frees the table there is, ...                          *)
MetaFree ==
    /\ stage = "free" /\ stage' = "comps"
    /\ table' = FALSE /\ slot' = [i \in Index |-> FreeSlot]
    /\ UNCHANGED <<disksize, comps, active, call, queue, policy, bounds>>

(* ... and zram_destroy_comps() the compressors, counting down.            *)
DestroyComps ==
    /\ stage = "comps" /\ stage' = "none"
    /\ comps' = {} /\ active' = active - Cardinality(comps)
    /\ UNCHANGED <<disksize, table, slot, call, queue, policy, bounds>>

-----------------------------------------------------------------------------
(* The user-space loop                                                     *)

(* The first sweep marks; the others of a mark interval do not.            *)
NextTick == IF MarkEvery = 0 THEN 1 ELSE (ticks + 1) % MarkEvery

WakeUp ==
    /\ loop = "sleep" /\ call["loop"].pc = "off"
    /\ loop' = IF ticks = 0 THEN "mark" ELSE "pass"
    /\ ticks' = NextTick
    /\ UNCHANGED <<device, slot, call, queue, bounds>>

(* mark_idle() with the loop's cutoff, or an error: the tool ends.  The    *)
(* cold pages are the ones not accessed for the cutoff's time; marks are   *)
(* further apart than that, so any set of pages may be cold at any mark.   *)
Marks(i) == i < disksize /\ Held(slot[i]) /\ slot[i].wb = "none"

MarkIdle(cold) ==
    /\ loop = "mark" /\ stage # "drain"
    /\ IF disksize = 0
       THEN loop' = (IF MarkEvery = 0 THEN "dead" ELSE "sleep") /\ UNCHANGED slot
       ELSE /\ loop' = "pass"
            /\ slot' = [i \in Index |-> IF Marks(i) THEN [slot[i] EXCEPT !.idle = i \in cold]
                                        ELSE slot[i]]
    /\ UNCHANGED <<device, call, queue, ticks, bounds>>

Sweep(node) == [node |-> node, mode |-> "idle", thr |-> 0, algo |-> 0]

Pass(node, cap) ==
    /\ loop = "pass" /\ loop' = "sleep"
    /\ BeginCall("loop", Sweep(node), cap)
    /\ UNCHANGED <<device, slot, queue, ticks, bounds>>

-----------------------------------------------------------------------------
Step(c) == \/ Enter(c) \/ EndScan(c) \/ Skip(c) \/ Attempt(c)
           \/ Candidate(c) \/ FindWorker(c) \/ QueueWork(c)
UserLoop == \/ WakeUp \/ \E cold \in SUBSET Index : MarkIdle(cold)
            \/ \E node \in Nodes, cap \in Caps : Pass(node, cap)
Worker == TakeJob \/ Work
Reset == Drain \/ MetaFree \/ DestroyComps

Next ==
    \/ \E i \in Index : SlotFree(i) \/ Accessed(i) \/ UnderWb(i)
                        \/ WritebackEnds(i)
    \/ \E i \in Index, c \in Contents : Store(i, c)
    \/ \E q \in Requests : WriteNode(q)
    \/ \E c \in Callers : Step(c)
    \/ Worker \/ UserLoop \/ Reset \/ ResetDevice
    \/ \E n \in Sizes : DisksizeStore(n)

Spec == Init /\ [][Next]_vars

(* The loop sleeps and goes on, a sysfs write runs to its end, the worker  *)
(* thread is scheduled and so is a reset that has begun.                   *)
FairSpec ==
    /\ Spec /\ WF_vars(UserLoop) /\ WF_vars(Worker) /\ WF_vars(Reset)
    /\ \A c \in Callers : WF_vars(Step(c))

-----------------------------------------------------------------------------
(* Properties                                                              *)

SlotType == [c : Contents \cup {NoPage}, prio : Prios, idle : BOOLEAN,
             incomp : BOOLEAN, wb : {"none", "under", "done"}]
JobType == [idx : Index, thr : 0..Huge - 1, lo : 1..MaxComps - 1,
            hi : 2..MaxComps, idle : BOOLEAN]
CallType == [pc : {"off", "enter", "scan", "find", "post"}, node : {"sync", "async"},
             mode : {"all", "idle", "huge", "huge_idle"}, thr : 0..Huge - 1,
             lo : 1..MaxComps - 1, hi : 2..MaxComps, nr : 0..NPages,
             index : 0..NPages, left : 0..NPages]

(* Every variable has its type; the cap never wraps.                       *)
TypeOK ==
    /\ disksize \in {0} \cup Sizes /\ table \in BOOLEAN /\ comps \subseteq Prios
    /\ active \in Nat /\ stage \in {"none", "drain", "free", "comps"}
    /\ slot \in [Index -> SlotType] /\ call \in [Callers -> CallType]
    /\ worker \in BOOLEAN /\ jobs \in Seq(JobType) /\ run \in JobType \cup {NoJob}
    /\ loop \in {"sleep", "mark", "pass", "dead"} /\ ticks \in Nat
    /\ stores \in 0..MaxStores /\ fails \in 0..MaxFails

(* A queued or running job finds the worker, the table and the compressors *)
(* it was queued for: the reset waits for the worker before it frees them  *)
(* (abk_zram_recomp_drain()).  Between map_lock and kthread_queue_work()   *)
(* the worker found cannot be destroyed, although no lock of the map is    *)
(* held: init_lock is.                                                     *)
JobsSeeLivePool ==
    /\ jobs # <<>> \/ run # NoJob => worker /\ table /\ comps = Prios
    /\ \A c \in Callers : call[c].pc = "post" => worker

(* A sweep, which holds init_lock, locks only slots of the table there is. *)
(* It computes its bound before it takes init_lock, and the reset frees    *)
(* the table after it has dropped init_lock.                               *)
SweepsInTable ==
    \A c \in Callers : call[c].pc = "scan" /\ ~Finished(call[c])
                           => table /\ call[c].index < disksize

(* No job outlives what it was queued for, and no sweep leaves the table   *)
(* that its jobs are about.                                                *)
JobsAlive == JobsSeeLivePool /\ SweepsInTable

(* Slots that recompression has no business with.                          *)
Away(i) == ~Held(slot[i]) \/ slot[i].wb # "none"

(* A slot that goes to the backing device, or lies there, or was freed, is *)
(* left as it is by every step of a sweep or of the worker, also by a job  *)
(* that was queued before writeback marked the slot.                       *)
AwayUntouched ==
    [][<<call, run>>' # <<call, run>>
         => \A i \in Index : Away(i) => slot'[i] = slot[i]]_vars

(* A secondary algorithm would make the marked page smaller.               *)
Improvable(i) ==
    /\ Held(slot[i]) /\ slot[i].idle /\ slot[i].wb = "none"
    /\ \E p \in Above(slot[i], 1, MaxComps) : slot[i].c[p] < Class(slot[i])

(* A page marked cold that recompression would shrink does not wait for    *)
(* ever: the capped sweeps, which all start at page 0, get to it, as long  *)
(* as there is a loop to start them.                                       *)
MarkedReached == \A i \in Index : []<>(~Improvable(i) \/ loop = "dead")

(* A reset ends: the drain, under init_lock, does not wait for anything    *)
(* that waits for init_lock.                                               *)
ResetEnds == (stage = "drain") ~> (stage = "none")
=============================================================================
