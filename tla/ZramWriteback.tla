---------------------------- MODULE ZramWriteback ----------------------------
(***************************************************************************)
(* Writeback of one zram device to its backing device: the batched sweep   *)
(* of writeback_store() (batch 17), the bound, budget and teardown fixes   *)
(* (batch 14), the completion that keeps the slot's metadata (batch 32),   *)
(* and the operations of the multi-algorithm graft that meet it            *)
(* (mark_idle(), zram_recompress(), zram_reset_device(), disksize_store()).*)
(*                                                                         *)
(* A sweep holds init_lock for reading, walks the table, marks a slot      *)
(* UNDER_WB, copies it into a request's page, drops the slot lock and      *)
(* submits the bio; the completions are applied by the sweep itself, under *)
(* the slot lock.  Block I/O of the device's user goes on all the time.    *)
(***************************************************************************)
EXTENDS Integers, FiniteSets

CONSTANTS
    MaxPages,     \* the largest disksize, in pages
    NBlocks,      \* blocks of the backing device, numbered from 1
    Vals, None,   \* page contents; no content
    Kinds,        \* how a stored page is held: "comp", "huge", "same"
    Modes,        \* writeback modes: "idle", "huge", "page"
    Sweeps,       \* concurrent writeback_store() calls
    BatchMax,     \* ZRAM_WB_BATCH_SIZE_MAX
    BatchSizes,   \* the values written to writeback_batch_size ...
    Limits,       \* ... and to writeback_limit
    Unit, Wrap,   \* 1 << (PAGE_SHIFT - 12); bd_wb_limit counts modulo Wrap
    Secondary,    \* a secondary compression algorithm is configured
    Reading,      \* whether the user reads pages, too
    Overlap       \* the attribute writes that may overlap others: "sweep"
                  \* (writeback), "limit", "setup"; {} for one administrator

ASSUME ZramAssumption ==
    /\ MaxPages \in Nat \ {0} /\ NBlocks \in Nat /\ BatchMax \in Nat \ {0}
    /\ IsFiniteSet(Sweeps)
    /\ Unit \in Nat \ {0} /\ Wrap \in Nat \ {0} /\ (Wrap % Unit) = 0
    /\ BatchSizes \subseteq Nat /\ Limits \subseteq 0..Wrap - 1
    /\ Secondary \in BOOLEAN /\ Reading \in BOOLEAN
    /\ Overlap \subseteq {"sweep", "limit", "setup"}
    /\ Kinds \subseteq {"comp", "huge", "same"}
    /\ Modes \subseteq {"idle", "huge", "page"} /\ None \notin Vals

Index  == 0..MaxPages - 1
Blocks == 1..NBlocks
Reqs   == 1..BatchMax

(* What a page or a block holds: a value and how it is encoded, by the     *)
(* algorithm of priority 0 or 1 or raw.                                    *)
Raw    == 2
Data   == [val : Vals \cup {None}, enc : {0, 1, Raw}]
NoData == [val |-> None, enc |-> Raw]

VARIABLES
    disksize, table, backing,   \* pages (0: not init_done); zram->table and
                                \* zram->backing_dev are set
    stage,                      \* how far zram_reset_device() has come
    removed, open,
    compressed, batch,          \* wb_compressed, wb_batch_size
    enable, limit,              \* wb_limit_enable, bd_wb_limit
    slot, used, block,          \* the table; the block bitmap; the device
    hugePages, pagesStored,
    sw, req,                    \* the sweeps and their requests
    rd,                         \* a read of a page (its gap: history, whether
                                \* it fell into the gap of two critical sections)
    last,                       \* history: the value last stored at an index
    budget, written             \* history: the limit last stored; pages since

device  == <<disksize, table, backing, stage, removed, open, compressed, batch>>
stats   == <<hugePages, pagesStored>>
wear    == <<enable, limit, budget, written>>
vars == <<device, wear, slot, used, block, stats, sw, req, rd, last>>

FreeSlot == [kind |-> "free", val |-> None, prio |-> 0, wb |-> FALSE,
             blk |-> 0, idle |-> FALSE, under |-> FALSE]
NoReq    == [st |-> "none", idx |-> 0, blk |-> 0, data |-> NoData, err |-> FALSE]
IdleReq  == [NoReq EXCEPT !.st = "idle"]
NoRead   == [pc |-> "off", idx |-> 0, blk |-> 0, raw |-> FALSE, gap |-> FALSE,
             data |-> NoData, val |-> None]
NoSweep  == [pc |-> "off", mode |-> "idle", index |-> 0, nr |-> 0, held |-> 0,
             blk |-> 0, end |-> FALSE, ctl |-> "none", waking |-> 0]

Init ==
    /\ disksize = 0 /\ table = FALSE /\ backing = FALSE /\ stage = "none"
    /\ removed = FALSE /\ open = FALSE /\ compressed = FALSE
    /\ batch = BatchMax /\ enable = FALSE /\ limit = 0
    /\ budget = 0 /\ written = 0
    /\ slot = [i \in Index |-> FreeSlot] /\ used = {}
    /\ block = [b \in Blocks |-> NoData] /\ hugePages = 0 /\ pagesStored = 0
    /\ sw = [s \in Sweeps |-> NoSweep]
    /\ req = [s \in Sweeps |-> [r \in Reqs |-> NoReq]]
    /\ rd = NoRead /\ last = [i \in Index |-> None]

Smallest(S) == CHOOSE x \in S : \A y \in S : x <= y
If1(b) == IF b THEN 1 ELSE 0

(* init_lock: a sweep reads, the attributes and the reset write.           *)
NoReader == \A s \in Sweeps : sw[s].pc = "off"
Admin(what) == ~removed /\ (what \in Overlap \/ (NoReader /\ stage = "none"))

-----------------------------------------------------------------------------
(* The device's user                                                       *)

(* zram_free_page(): everything but UNDER_WB is reset; a written-back slot *)
(* gives its block back and has been taken off huge_pages before.          *)
FreePage(sl) == [FreeSlot EXCEPT !.under = sl.under]
FreedBlocks(sl) == IF sl.wb THEN {sl.blk} ELSE {}

HugeDropUnguarded(sl) == If1(sl.kind = "huge")                  \* mutant
HugeDrop(sl) == If1(sl.kind = "huge" /\ ~sl.wb)
(* The slot is in use and may be used: the device is open and set up.      *)
InUse(i) == open /\ i < disksize
(* The user does not overwrite or discard a page that it is reading.       *)
Writable(i) == InUse(i) /\ (rd.pc # "off" => rd.idx # i)

Store(i, v, k) ==
    /\ Writable(i)
    /\ slot' = [slot EXCEPT ![i] =
                  [FreePage(slot[i]) EXCEPT !.kind = k, !.val = v]]
    /\ used' = used \ FreedBlocks(slot[i])
    /\ hugePages' = hugePages - HugeDrop(slot[i]) + If1(k = "huge")
    /\ pagesStored' = pagesStored - If1(slot[i].kind # "free") + 1
    /\ last' = [last EXCEPT ![i] = v]
    /\ UNCHANGED <<device, wear, block, sw, req, rd>>

SlotFree(i) ==
    /\ Writable(i) /\ slot[i].kind # "free"
    /\ slot' = [slot EXCEPT ![i] = FreePage(slot[i])]
    /\ used' = used \ FreedBlocks(slot[i])
    /\ hugePages' = hugePages - HugeDrop(slot[i])
    /\ pagesStored' = pagesStored - 1
    /\ last' = [last EXCEPT ![i] = None]
    /\ UNCHANGED <<device, wear, block, sw, req, rd>>

(* zram_accessed(): a read makes the slot young again.                     *)
Accessed(i) ==
    /\ InUse(i) /\ slot[i].idle
    /\ slot' = [slot EXCEPT ![i].idle = FALSE]
    /\ UNCHANGED <<device, wear, used, block, stats, sw, req, rd, last>>

Open ==
    /\ ~open /\ stage = "none" /\ ~removed /\ open' = TRUE
    /\ UNCHANGED <<disksize, table, backing, stage, removed, compressed, batch,
                   wear, slot, used, block, stats, sw, req, rd, last>>
Close ==
    /\ open /\ rd.pc = "off" /\ open' = FALSE
    /\ UNCHANGED <<disksize, table, backing, stage, removed, compressed, batch,
                   wear, slot, used, block, stats, sw, req, rd, last>>

(* abk_zram_bvec_read() tests ZRAM_WB under the slot lock: where writeback *)
(* is compressed, a written-back object is to be decompressed.  All other  *)
(* reads go on to __zram_bvec_read(), ...                                  *)
BvecRead(i) ==
    /\ Reading /\ InUse(i) /\ rd.pc = "off"
    /\ rd' = IF compressed /\ slot[i].wb /\ slot[i].kind # "huge"
             THEN [NoRead EXCEPT !.pc = "bdev", !.idx = i, !.blk = slot[i].blk]
             ELSE [NoRead EXCEPT !.pc = "again", !.idx = i]
    /\ UNCHANGED <<device, wear, slot, used, block, stats, sw, req, last>>

(* ... which takes the slot lock again and tests ZRAM_WB anew: a page in   *)
(* memory is copied, one written back is read as it lies in its block.     *)
ReadSlot ==
    /\ rd.pc = "again"
    /\ LET sl == slot[rd.idx]
       IN rd' = IF sl.wb
                THEN [rd EXCEPT !.pc = "bdev", !.blk = sl.blk, !.raw = TRUE,
                          !.gap = compressed /\ sl.kind # "huge"]
                ELSE [rd EXCEPT !.pc = "end", !.val = sl.val]
    /\ UNCHANGED <<device, wear, slot, used, block, stats, sw, req, last>>

Decoded(d, enc) == IF d.enc = enc THEN d.val ELSE None

ReadBdev ==
    /\ rd.pc = "bdev"
    /\ rd' = LET d == block[rd.blk]
             IN IF rd.raw THEN [rd EXCEPT !.pc = "end", !.val = Decoded(d, Raw)]
                ELSE [rd EXCEPT !.pc = "decompress", !.data = d]
    /\ UNCHANGED <<device, wear, slot, used, block, stats, sw, req, last>>

ReadBdevFails ==
    /\ rd.pc = "bdev" /\ rd' = NoRead
    /\ UNCHANGED <<device, wear, slot, used, block, stats, sw, req, last>>

Decompress ==
    /\ rd.pc = "decompress"
    /\ LET sl == slot[rd.idx]
       IN rd' = [rd EXCEPT !.pc = "end", !.data = NoData,
                    !.val = IF ~sl.wb THEN None
                            ELSE Decoded(rd.data, IF sl.kind = "huge" THEN Raw ELSE sl.prio)]
    /\ UNCHANGED <<device, wear, slot, used, block, stats, sw, req, last>>

ReadEnd ==
    /\ rd.pc = "end" /\ rd' = NoRead
    /\ UNCHANGED <<device, wear, slot, used, block, stats, sw, req, last>>

-----------------------------------------------------------------------------
(* Idle marking and recompression, slot by slot under the slot lock        *)

MayMarkIdleUnderWb(sl) == sl.kind \notin {"free", "same"} /\ ~sl.wb \* mutant
MayMarkIdle(sl) == sl.kind \notin {"free", "same"} /\ ~sl.wb /\ ~sl.under

(* mark_idle(): too young a slot loses the mark instead.                   *)
MarkIdle(i, old) ==
    /\ ~removed /\ i < disksize /\ MayMarkIdle(slot[i])
    /\ slot[i].idle # old
    /\ slot' = [slot EXCEPT ![i].idle = old]
    /\ UNCHANGED <<device, wear, used, block, stats, sw, req, rd, last>>

(* recompress_store() and the asynchronous job: the mark goes; if the      *)
(* secondary algorithm wins, the object is replaced by way of              *)
(* zram_free_page().                                                       *)
Recompress(i, wins) ==
    /\ Secondary /\ ~removed /\ i < disksize
    /\ slot[i].kind \in {"comp", "huge"} /\ ~slot[i].wb /\ ~slot[i].under
    /\ slot[i].prio = 0
    /\ slot' = [slot EXCEPT ![i] =
                  IF wins THEN [FreePage(slot[i]) EXCEPT !.kind = "comp",
                                    !.val = slot[i].val, !.prio = 1]
                          ELSE [slot[i] EXCEPT !.idle = FALSE]]
    /\ hugePages' = hugePages - (IF wins THEN HugeDrop(slot[i]) ELSE 0)
    /\ UNCHANGED <<device, wear, used, block, pagesStored, sw, req, rd, last>>

-----------------------------------------------------------------------------
(* writeback_store()                                                       *)

At(s, pc) == sw[s].pc = pc
Moves(s, pc) == sw' = [sw EXCEPT ![s].pc = pc]
InState(s, sts) == {r \in Reqs : req[s][r].st \in sts}
Inflight(s) == InState(s, {"flight", "done", "failed"})
(* The sweep's record at its next iteration.                               *)
NextIndex(x) == [x EXCEPT !.pc = "top", !.index = x.index + 1, !.nr = x.nr - 1]

(* The bound is a number of iterations, read under init_lock; page_index=  *)
(* asks for one.                                                           *)
SweepBound(mode) == IF mode = "page" THEN 1 ELSE disksize

(* init_wb_ctl() makes do with the n requests it can allocate.             *)
Start(s, mode, i, n) ==
    /\ At(s, "off") /\ sw[s].ctl = "none" /\ Admin("sweep")
    /\ disksize # 0 /\ backing /\ i < disksize /\ (mode # "page" => i = 0)
    /\ n <= batch
    /\ sw' = [sw EXCEPT ![s] = [NoSweep EXCEPT !.pc = "top", !.mode = mode,
                 !.index = i, !.nr = SweepBound(mode), !.ctl = "live"]]
    /\ req' = [req EXCEPT ![s] = [r \in Reqs |-> IF r <= n THEN IdleReq ELSE NoReq]]
    /\ UNCHANGED <<device, wear, slot, used, block, stats, rd, last>>

LimitCheck(s) ==
    /\ At(s, "top")
    /\ Moves(s, IF sw[s].nr = 0 \/ (enable /\ limit = 0) THEN "tail"
                ELSE IF sw[s].held = 0 THEN "select" ELSE "reserve")
    /\ UNCHANGED <<device, wear, slot, used, block, stats, req, rd, last>>

(* An idle request, or else wait for one in flight.                        *)
SelectIdleReq(s) ==
    /\ At(s, "select")
    /\ LET idle == InState(s, {"idle"})
           r    == Smallest(idle)
       IN IF idle = {} THEN Moves(s, "wait") /\ UNCHANGED req
          ELSE /\ sw' = [sw EXCEPT ![s].pc = "reserve", ![s].held = r]
               /\ req' = [req EXCEPT ![s][r].st = "held"]
    /\ UNCHANGED <<device, wear, slot, used, block, stats, rd, last>>

(* alloc_block_bdev(), unless a block is left from a skipped slot.         *)
Reserve(s) ==
    /\ At(s, "reserve")
    /\ \/ sw[s].blk # 0 /\ Moves(s, "mark") /\ UNCHANGED used
       \/ /\ sw[s].blk = 0 /\ used # Blocks
          /\ LET b == Smallest(Blocks \ used)
             IN /\ sw' = [sw EXCEPT ![s].pc = "mark", ![s].blk = b]
                /\ used' = used \cup {b}
       \/ sw[s].blk = 0 /\ used = Blocks /\ Moves(s, "tail") /\ UNCHANGED used
    /\ UNCHANGED <<device, wear, slot, block, stats, req, rd, last>>

SkipsUnderWbNot(mode, sl) ==                                    \* mutant
    \/ sl.kind \in {"free", "same"} \/ sl.wb
    \/ mode = "idle" /\ ~sl.idle
    \/ mode = "huge" /\ sl.kind # "huge"
Skips(mode, sl) ==
    \/ sl.kind \in {"free", "same"} \/ sl.wb \/ sl.under
    \/ mode = "idle" /\ ~sl.idle
    \/ mode = "huge" /\ sl.kind # "huge"


(* The object as it lies in the pool, and the page a read makes of it.     *)
RawObject(sl) == [val |-> sl.val, enc |-> IF sl.kind = "huge" THEN Raw ELSE sl.prio]
PageOf(sl)    == [val |-> sl.val, enc |-> Raw]

(* Under the slot lock: skip the slot, or mark it UNDER_WB and idle.  With *)
(* compressed writeback the object is copied before the lock is dropped.   *)
Mark(s) ==
    /\ At(s, "mark")
    /\ LET i == sw[s].index
           sl == slot[i]
       IN IF Skips(sw[s].mode, sl)
          THEN sw' = [sw EXCEPT ![s] = NextIndex(@)] /\ UNCHANGED <<slot, req>>
          ELSE /\ slot' = [slot EXCEPT ![i].under = TRUE, ![i].idle = TRUE]
               /\ IF compressed
                  THEN /\ req' = [req EXCEPT ![s][sw[s].held].data = RawObject(sl)]
                       /\ Moves(s, "submit")
                  ELSE Moves(s, "read") /\ UNCHANGED req
    /\ UNCHANGED <<device, wear, used, block, stats, rd, last>>

(* Otherwise zram_bvec_read() takes the slot lock again: whatever the slot *)
(* holds by now goes into the page.                                        *)
Read(s) ==
    /\ At(s, "read")
    /\ req' = [req EXCEPT ![s][sw[s].held].data = PageOf(slot[sw[s].index])]
    /\ Moves(s, "submit")
    /\ UNCHANGED <<device, wear, slot, used, block, stats, rd, last>>

Unmarked(sl) == [sl EXCEPT !.under = FALSE, !.idle = FALSE]

(* The request and the block are kept for the next slot.                   *)
ReadFails(s) ==
    /\ At(s, "read")
    /\ slot' = [slot EXCEPT ![sw[s].index] = Unmarked(@)]
    /\ sw' = [sw EXCEPT ![s] = NextIndex(@)]
    /\ UNCHANGED <<device, wear, used, block, stats, req, rd, last>>

(* zram_account_writeback_submit() and _rollback().                        *)
Charged  == IF enable /\ limit > 0 THEN (limit - Unit) % Wrap ELSE limit
Refunded == IF enable THEN (limit + Unit) % Wrap ELSE limit

Submit(s) ==
    /\ At(s, "submit")
    /\ limit' = Charged /\ written' = written + If1(enable)
    /\ req' = [req EXCEPT ![s][sw[s].held] =
                 [@ EXCEPT !.st = "flight", !.idx = sw[s].index, !.blk = sw[s].blk]]
    /\ sw' = [sw EXCEPT ![s] = [NextIndex(@) EXCEPT !.held = 0, !.blk = 0]]
    /\ UNCHANGED <<device, enable, budget, slot, used, block, stats, rd, last>>

(* The backing device ends the bio; zram_writeback_endio() lists the       *)
(* request under done_lock and then wakes the sweep.                       *)
Endio(s, r, err) ==
    /\ req[s][r].st = "flight"
    /\ req' = [req EXCEPT ![s][r].st = "done", ![s][r].err = err]
    /\ block' = IF err THEN block
                ELSE [block EXCEPT ![req[s][r].blk] = req[s][r].data]
    /\ sw' = [sw EXCEPT ![s].waking = @ + 1]
    /\ UNCHANGED <<device, wear, slot, used, stats, rd, last>>

WokenByNobody(pc) == pc                                         \* mutant
WokenBy(pc) == IF pc = "asleep" THEN "wait" ELSE pc
EndioWake(s) ==
    /\ sw[s].waking > 0
    /\ sw' = [sw EXCEPT ![s].waking = @ - 1, ![s].pc = WokenBy(@)]
    /\ UNCHANGED <<device, wear, slot, used, block, stats, req, rd, last>>

WaitDone(s) ==
    /\ At(s, "wait")
    /\ Moves(s, IF InState(s, {"done"}) = {} THEN "asleep" ELSE "complete")
    /\ UNCHANGED <<device, wear, slot, used, block, stats, req, rd, last>>

UnchangedAllocated(sl) == sl.kind # "free"                      \* mutant
(* Neither freed nor stored again since the sweep marked the slot.         *)
Unchanged(sl) == sl.kind # "free" /\ sl.idle
Recycled(s, r) == [req EXCEPT ![s][r] = IdleReq]

(* zram_writeback_complete() of a bio that succeeded.                      *)
Complete(s, r) ==
    /\ At(s, "complete") /\ req[s][r].st = "done" /\ ~req[s][r].err
    /\ LET i == req[s][r].idx
           sl == slot[i]
       IN IF Unchanged(sl)
          THEN /\ slot' = [slot EXCEPT ![i] = [Unmarked(sl) EXCEPT
                             !.wb = TRUE, !.blk = req[s][r].blk, !.val = None]]
               /\ hugePages' = hugePages - If1(sl.kind = "huge")
               /\ UNCHANGED used
          ELSE /\ slot' = [slot EXCEPT ![i] = Unmarked(sl)]
               /\ used' = used \ {req[s][r].blk} /\ UNCHANGED hugePages
    /\ req' = Recycled(s, r)
    /\ UNCHANGED <<device, wear, block, pagesStored, sw, rd, last>>

(* Of one that failed: first the budget and the block, ...                 *)
CompleteError(s, r) ==
    /\ At(s, "complete") /\ req[s][r].st = "done" /\ req[s][r].err
    /\ limit' = Refunded /\ written' = written - If1(enable)
    /\ used' = used \ {req[s][r].blk}
    /\ req' = [req EXCEPT ![s][r].st = "failed", ![s][r].blk = 0]
    /\ Moves(s, "unmark")
    /\ UNCHANGED <<device, enable, budget, slot, block, stats, rd, last>>

(* ... then, under the slot lock, the flags.                               *)
UnmarkFailed(s, r) ==
    /\ At(s, "unmark") /\ req[s][r].st = "failed"
    /\ slot' = [slot EXCEPT ![req[s][r].idx] = Unmarked(@)]
    /\ req' = Recycled(s, r) /\ Moves(s, "complete")
    /\ UNCHANGED <<device, wear, used, block, stats, rd, last>>

CompleteNone(s) ==
    /\ At(s, "complete") /\ InState(s, {"done"}) = {}
    /\ Moves(s, IF sw[s].end THEN "drain" ELSE "select")
    /\ UNCHANGED <<device, wear, slot, used, block, stats, req, rd, last>>

LeftoverNone(x) == {}                                           \* mutant
(* After the loop: an unused block and an unused request are given up.     *)
Leftover(x) == {x.blk}
Tail(s) ==
    /\ At(s, "tail")
    /\ used' = used \ Leftover(sw[s])
    /\ req' = IF sw[s].held = 0 THEN req ELSE [req EXCEPT ![s][sw[s].held] = NoReq]
    /\ sw' = [sw EXCEPT ![s].pc = "drain", ![s].end = TRUE, ![s].held = 0, ![s].blk = 0]
    /\ UNCHANGED <<device, wear, slot, block, stats, rd, last>>

DrainedAtOnce(s) == TRUE                                        \* mutant
Drained(s) == Inflight(s) = {}

ReleaseWbCtlAtOnce == "none"                                    \* mutant
(* kfree_rcu(): the control block outlives the callbacks that use it.      *)
ReleaseWbCtl == "rcu"

Drain(s) ==
    /\ At(s, "drain")
    /\ IF Drained(s)
       THEN /\ sw' = [sw EXCEPT ![s] = [NoSweep EXCEPT !.ctl = ReleaseWbCtl,
                                                      !.waking = sw[s].waking]]
            /\ req' = [req EXCEPT ![s] = [r \in Reqs |->
                          IF r \in InState(s, {"idle"}) THEN NoReq ELSE req[s][r]]]
       ELSE Moves(s, "wait") /\ UNCHANGED req
    /\ UNCHANGED <<device, wear, slot, used, block, stats, rd, last>>

RcuFree(s) ==
    /\ sw[s].ctl = "rcu" /\ sw[s].waking = 0
    /\ sw' = [sw EXCEPT ![s].ctl = "none"]
    /\ UNCHANGED <<device, wear, slot, used, block, stats, req, rd, last>>

-----------------------------------------------------------------------------
(* The device's attributes                                                 *)

RoundDownNot(v) == v                                            \* mutant
RoundDown(v) == v - (v % Unit)

(* writeback_limit_store() holds init_lock for reading only.               *)
LimitStore(v) ==
    /\ Admin("limit") /\ limit' = RoundDown(v) /\ budget' = v /\ written' = 0
    /\ UNCHANGED <<device, enable, slot, used, block, stats, sw, req, rd, last>>
LimitEnableStore ==
    /\ Admin("limit") /\ Limits # {} /\ enable' = ~enable /\ budget' = limit
    /\ written' = 0
    /\ UNCHANGED <<device, limit, slot, used, block, stats, sw, req, rd, last>>

ClampNot(v) == v                                                \* mutant
Clamp(v) == IF v > BatchMax THEN BatchMax ELSE v
BatchSizeStore(v) ==
    /\ Admin("setup") /\ NoReader /\ v # 0 /\ batch' = Clamp(v)
    /\ UNCHANGED <<disksize, table, backing, stage, removed, open, compressed,
                   wear, slot, used, block, stats, sw, req, rd, last>>

CompressedStore(v) ==
    /\ Admin("setup") /\ NoReader /\ disksize = 0 /\ compressed' = v
    /\ UNCHANGED <<disksize, table, backing, stage, removed, open, batch,
                   wear, slot, used, block, stats, sw, req, rd, last>>

BackingDevStore ==
    /\ Admin("setup") /\ NoReader /\ disksize = 0 /\ backing' = TRUE /\ used' = {}
    /\ UNCHANGED <<disksize, table, stage, removed, open, compressed, batch,
                   wear, slot, block, stats, sw, req, rd, last>>

DisksizeStore(n) ==
    /\ Admin("setup") /\ NoReader /\ disksize = 0
    /\ disksize' = n /\ table' = TRUE /\ slot' = [i \in Index |-> FreeSlot]
    /\ last' = [i \in Index |-> None]
    /\ UNCHANGED <<backing, stage, removed, open, compressed, batch, wear,
                   used, block, stats, sw, req, rd>>

(* reset_store() and zram_remove() claim a device nobody has open and call *)
(* zram_reset_device(), which drops init_lock before it frees the table    *)
(* and the backing device.                                                 *)
ResetDevice(removing) ==
    /\ Admin("setup") /\ NoReader /\ ~open /\ stage = "none"
    /\ disksize # 0 \/ removing
    /\ disksize' = 0
    /\ stage' = IF disksize = 0 THEN "detach"
                ELSE IF removing THEN "free for removal" ELSE "free"
    /\ UNCHANGED <<table, backing, removed, open, compressed, batch, wear,
                   slot, used, block, stats, sw, req, rd, last>>

MetaFree ==
    /\ stage \in {"free", "free for removal"}
    /\ table' = FALSE /\ slot' = [i \in Index |-> FreeSlot]
    /\ used' = used \ UNION {FreedBlocks(slot[i]) : i \in Index}
    /\ hugePages' = 0 /\ pagesStored' = 0 /\ last' = [i \in Index |-> None]
    /\ stage' = IF stage = "free" THEN "bdev" ELSE "bdev for removal"
    /\ UNCHANGED <<disksize, backing, removed, open, compressed, batch, wear,
                   block, sw, req, rd>>

ResetBdev ==
    /\ stage \in {"bdev", "bdev for removal"}
    /\ backing' = FALSE /\ used' = {}
    /\ stage' = IF stage = "bdev" THEN "none" ELSE "detach"
    /\ UNCHANGED <<disksize, table, removed, open, compressed, batch, wear,
                   slot, block, stats, sw, req, rd, last>>

(* zram_remove() itself detaches a backing device that was attached to a   *)
(* device without a disksize.                                              *)
BackingAfterRemove == FALSE
RemoveDetach ==
    /\ stage = "detach"
    /\ backing' = BackingAfterRemove /\ used' = {}
    /\ removed' = TRUE /\ stage' = "none"
    /\ UNCHANGED <<disksize, table, open, compressed, batch, wear, slot, block,
                   stats, sw, req, rd, last>>

(* hot_add: a device with the defaults.                                    *)
ZramAdd ==
    /\ removed /\ removed' = FALSE /\ compressed' = FALSE /\ batch' = BatchMax
    /\ enable' = FALSE /\ limit' = 0 /\ budget' = 0 /\ written' = 0
    /\ UNCHANGED <<disksize, table, backing, stage, open, slot, used, block,
                   stats, sw, req, rd, last>>

-----------------------------------------------------------------------------

User ==
    \/ Open \/ Close
    \/ \E i \in Index : SlotFree(i) \/ Accessed(i) \/ BvecRead(i)
    \/ ReadSlot \/ ReadBdev \/ ReadBdevFails \/ Decompress \/ ReadEnd
    \/ \E i \in Index, v \in Vals, k \in Kinds : Store(i, v, k)

Marking ==
    \E i \in Index, b \in BOOLEAN : MarkIdle(i, b) \/ Recompress(i, b)

SweepStep(s) ==
    \/ LimitCheck(s) \/ SelectIdleReq(s) \/ Reserve(s) \/ Mark(s) \/ Read(s)
    \/ ReadFails(s) \/ Submit(s) \/ WaitDone(s) \/ CompleteNone(s) \/ Tail(s)
    \/ Drain(s)
    \/ \E r \in Reqs : Complete(s, r) \/ CompleteError(s, r) \/ UnmarkFailed(s, r)

Device(s) ==
    \/ EndioWake(s) \/ RcuFree(s)
    \/ \E r \in Reqs, err \in BOOLEAN : Endio(s, r, err)

Attributes ==
    \/ \E v \in Limits : LimitStore(v)
    \/ LimitEnableStore \/ BackingDevStore
    \/ \E v \in BatchSizes : BatchSizeStore(v)
    \/ \E v \in BOOLEAN : CompressedStore(v)
    \/ \E n \in 1..MaxPages : DisksizeStore(n)
    \/ \E removing \in BOOLEAN : ResetDevice(removing)
    \/ MetaFree \/ ResetBdev \/ RemoveDetach \/ ZramAdd
    \/ \E s \in Sweeps, m \in Modes, i \in Index, n \in Reqs : Start(s, m, i, n)

Next ==
    \/ User \/ Marking \/ Attributes
    \/ \E s \in Sweeps : SweepStep(s) \/ Device(s)

Spec == Init /\ [][Next]_vars

(* The sweep runs on, the backing device ends its bios, the callbacks      *)
(* return.                                                                 *)
Fairness == \A s \in Sweeps : WF_vars(SweepStep(s)) /\ WF_vars(Device(s))
LiveSpec == Spec /\ Fairness

-----------------------------------------------------------------------------
(* Properties                                                              *)

Stages == {"none", "free", "bdev", "free for removal", "bdev for removal", "detach"}
SlotType == [kind : {"free", "comp", "huge", "same"}, val : Vals \cup {None},
             prio : {0, 1}, wb : BOOLEAN, blk : Blocks \cup {0},
             idle : BOOLEAN, under : BOOLEAN]
ReqType == [st : {"none", "idle", "held", "flight", "done", "failed"},
            idx : Nat, blk : Blocks \cup {0}, data : Data, err : BOOLEAN]
ReadType == [pc : {"off", "again", "bdev", "decompress", "end"}, idx : Index,
             blk : Blocks \cup {0}, raw : BOOLEAN, gap : BOOLEAN, data : Data,
             val : Vals \cup {None}]
SweepType == [pc : {"off", "top", "select", "reserve", "mark", "read", "submit",
                    "wait", "asleep", "complete", "unmark", "tail", "drain"},
              mode : {"idle", "huge", "page"}, index : Nat, nr : Int,
              held : Reqs \cup {0}, blk : Blocks \cup {0}, end : BOOLEAN,
              ctl : {"none", "live", "rcu"}, waking : Nat]

(* Types: the batch size stays within the bound of writeback_batch_size,   *)
(* the budget within its word.                                             *)
TypeOK ==
    /\ disksize \in 0..MaxPages /\ table \in BOOLEAN /\ backing \in BOOLEAN
    /\ stage \in Stages /\ removed \in BOOLEAN /\ open \in BOOLEAN
    /\ compressed \in BOOLEAN /\ batch \in 1..BatchMax
    /\ enable \in BOOLEAN /\ limit \in 0..Wrap - 1 /\ budget \in Nat
    /\ written \in Int /\ hugePages \in Int /\ pagesStored \in Int
    /\ slot \in [Index -> SlotType] /\ used \subseteq Blocks
    /\ block \in [Blocks -> Data] /\ last \in [Index -> Vals \cup {None}]
    /\ rd \in ReadType
    /\ sw \in [Sweeps -> SweepType] /\ req \in [Sweeps -> [Reqs -> ReqType]]

(* What a read of slot sl returns.  A written-back page is taken as it     *)
(* lies on the device, or decompressed with the slot's own algorithm.      *)
ReadBack(sl) ==
    LET d == block[sl.blk]
        encoding == IF compressed /\ sl.kind # "huge" THEN sl.prio ELSE Raw
    IN IF ~sl.wb THEN sl.val ELSE Decoded(d, encoding)

(* However stores, frees, reads, idle marks and recompressions interleave  *)
(* with the sweeps that dropped the slot lock, reading a stored page gives *)
(* the value stored last (zram_writeback_complete()'s test of ZRAM_IDLE).  *)
ReadsBack == \A i \in Index : last[i] # None => ReadBack(slot[i]) = last[i]

(* The device is an array of pages to its user: the contents are what the  *)
(* slots and the blocks would give back, the reply what a read returned.   *)
Array == INSTANCE PageStore WITH
    Pages   <- Index,
    size    <- disksize,
    asked   <- [i \in Index |-> IF i < disksize THEN last[i] ELSE None],
    content <- [i \in Index |-> IF i < disksize THEN ReadBack(slot[i]) ELSE None],
    reply   <- IF rd.pc = "end" /\ ~rd.gap THEN {<<rd.idx, rd.val>>} ELSE {}

(* Writeback, its failures, recompression, idle marks and resets are       *)
(* invisible to the user: every step is a step of the array of pages or    *)
(* changes nothing of it, and a read that dropped the slot lock while the  *)
(* device read the block returns the page's content                        *)
(* (abk_zram_decompress_bdev_page()).  One read is exempt: it found the    *)
(* page in memory, and a compressed object in its block when it took the   *)
(* slot lock again (rd.gap).                                               *)
ServesPages == Array!Spec

(* Without the exemption: a slot that holds compressed data is             *)
(* "decompressed rather than read as a raw page", so that every read that  *)
(* the device answers returns the page (abk_zram_bvec_read()'s comment).   *)
ReadsReturnPage == rd.pc = "end" => rd.val = last[rd.idx]

Reserved == {s \in Sweeps : sw[s].blk # 0}
Carried  == {c \in Sweeps \X Reqs : req[c[1]][c[2]].st \in {"flight", "done"}}
Written  == {i \in Index : slot[i].wb}

(* Every block marked busy has exactly one owner (a written-back slot, a   *)
(* request on its way or a sweep's reservation), and every owner's block   *)
(* is marked: none leaks, none is freed twice or shared.                   *)
BlocksAccounted ==
    LET owned == {slot[i].blk : i \in Written}
                   \cup {req[c[1]][c[2]].blk : c \in Carried}
                   \cup {sw[s].blk : s \in Reserved}
    IN /\ used = owned
       /\ Cardinality(used) = Cardinality(Written) + Cardinality(Carried)
                                + Cardinality(Reserved)

(* The sweeps, with 0 for the request, and the requests that have marked   *)
(* slot i.                                                                 *)
Markers(i) == {c \in Sweeps \X {0} : /\ sw[c[1]].pc \in {"read", "submit"}
                                     /\ sw[c[1]].index = i}
                \cup {c \in Sweeps \X Reqs : /\ c[2] \in Inflight(c[1])
                                              /\ req[c[1]][c[2]].idx = i}

(* ZRAM_UNDER_WB is set while exactly one request is about the slot, and   *)
(* at no other time: a mark that stayed would keep the slot from           *)
(* writeback and recompression for good.                                   *)
UnderWbOwned == \A i \in Index : Cardinality(Markers(i)) = If1(slot[i].under)

(* huge_pages counts the incompressible pages in memory and pages_stored   *)
(* the pages stored, through writeback, release and reuse.                 *)
CountersExact ==
    /\ hugePages = Cardinality({i \in Index : slot[i].kind = "huge" /\ ~slot[i].wb})
    /\ pagesStored = Cardinality({i \in Index : slot[i].kind # "free"})

(* No reset or removal frees the table or the backing device under a sweep *)
(* or a bio in flight, a device with a size has a table, and a sweep never *)
(* touches an entry past its end.                                          *)
TableAlive ==
    /\ disksize # 0 => table
    /\ \A s \in Sweeps :
          /\ sw[s].pc # "off" \/ Inflight(s) # {} => table /\ backing
          /\ sw[s].pc \in {"mark", "read", "submit"} => sw[s].index < disksize

(* A callback that has listed its request but not yet called wake_up()     *)
(* finds the control block, though the sweep may have released it.         *)
CtlAlive == \A s \in Sweeps :
    /\ sw[s].waking > 0 => sw[s].ctl # "none"
    /\ Inflight(s) # {} => sw[s].ctl = "live"

(* With the limit on, what has been written since the budget was set and   *)
(* what may still be written never exceed the budget, whatever fails.      *)
WithinBudget == enable => Unit * written + limit <= budget

(* Every writeback_store() ends, and with it every bio it submitted.       *)
SweepEnds == \A s \in Sweeps : ~At(s, "off") ~> At(s, "off") /\ Inflight(s) = {}
=============================================================================
