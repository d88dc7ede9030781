------------------------------ MODULE Kcompressd ------------------------------
(***************************************************************************)
(* The kcompressd swap-out offload of one node (batch 41), the writeback   *)
(* pin (batch 71) and the reclaim loop's second look (batch 72).           *)
(*                                                                         *)
(* kswapd queues pages on a ring; the node's drain thread writes them out; *)
(* at the soft limit kswapd writes the oldest queued page itself; memory   *)
(* hotplug stops the thread and writes what is left.  The three contexts   *)
(* run the same abk_kcompressd_do_swapout().  The rest of the kernel       *)
(* (reclaim, page faults, swap slots, the page lock) is external: it is    *)
(* here as far as the offload relies on it.                                *)
(***************************************************************************)
EXTENDS Integers, Sequences, FiniteSets

CONSTANTS
    Pages, Slots,  \* anonymous pages of the node; slots of the swap device
    FifoSize,      \* ABK_KCOMPRESS_FIFO_SIZE
    Thresholds,    \* the values written to /proc/sys/vm/kcompressd
    WbPin,         \* the tree carries kcompressd_writeback_pin
    Nobody         \* no page, no slot, no holder of a lock

(* Who runs abk_kcompressd_do_swapout().                                   *)
Writers == {"kswapd", "drain", "del"}

ASSUME KcompressdAssumption ==
    /\ IsFiniteSet(Pages) /\ Cardinality(Slots) >= Cardinality(Pages)
    /\ FifoSize \in Nat \ {0} /\ Thresholds \subseteq 0..FifoSize
    /\ Thresholds # {} /\ WbPin \in BOOLEAN
    /\ Nobody \notin Pages \cup Slots \cup Writers \cup {"ext"}

VARIABLES
    mem,       \* the page is in memory; otherwise only its slot has it
    slot,      \* its swap cache entry, or Nobody
    lock,      \* who holds PG_locked: a writer, "ext" or Nobody
    wb,        \* PG_writeback
    refs,      \* references held for the ring
    dev,       \* the page whose data a slot holds
    fifo, ring,      \* kcd->fifo and whether it is allocated
    task,            \* kcd->task is not NULL
    threshold,
    depth,           \* abk_kcompressd_enqueued - abk_kcompressd_swapped
    kpc, kpage, kret, parked, retried,     \* kswapd
    dpc, stop,                             \* the drain thread
    hpc,                                   \* memory hotplug
    at, cur                                \* do_swapout() of each writer

page   == <<mem, slot, lock, wb, refs, dev>>
kswapd == <<kpc, kpage, kret, parked, retried>>
swapout == <<at, cur>>
vars == <<page, fifo, ring, task, threshold, depth, kswapd, dpc, stop, hpc,
          swapout>>

Init ==
    /\ mem = [p \in Pages |-> TRUE] /\ slot = [p \in Pages |-> Nobody]
    /\ lock = [p \in Pages |-> Nobody] /\ wb = [p \in Pages |-> FALSE]
    /\ refs = [p \in Pages |-> 0] /\ dev = [s \in Slots |-> Nobody]
    /\ fifo = <<>> /\ ring = FALSE /\ task = FALSE
    /\ threshold \in Thresholds /\ depth = 0
    /\ kpc = "scan" /\ kpage = Nobody /\ kret = "sync"
    /\ parked = <<>> /\ retried = FALSE
    /\ dpc = "none" /\ stop = FALSE /\ hpc = "idle"
    /\ at = [c \in Writers |-> "none"] /\ cur = [c \in Writers |-> Nobody]

Unlocked(p) == [lock EXCEPT ![p] = Nobody]
Listed(seq) == {seq[i] : i \in DOMAIN seq}
(* The contexts that hold a dequeued page they have not written yet.       *)
Unwritten == {c \in Writers : at[c] \in {"check", "lock", "write"}}

(* The drain thread's dpc after a wake_up of kcd->wait.                    *)
Woken == IF dpc = "sleep" THEN "wait" ELSE dpc

-----------------------------------------------------------------------------
(* External: reclaim, page faults, swap slots                              *)

FreeSlots == Slots \ {slot[p] : p \in Pages}

(* shrink_page_list() takes a page that is not in the swap cache, gives it *)
(* a slot, unmaps it and calls pageout(), which calls swap_writepage().    *)
ScanMapped(p, s) ==
    /\ kpc = "scan" /\ mem[p] /\ slot[p] = Nobody /\ lock[p] = Nobody
    /\ s \in FreeSlots /\ ~wb[p] /\ p \notin Listed(parked)
    /\ slot' = [slot EXCEPT ![p] = s] /\ dev' = [dev EXCEPT ![s] = Nobody]
    /\ lock' = [lock EXCEPT ![p] = "kswapd"]
    /\ kpc' = "store" /\ kpage' = p
    /\ UNCHANGED <<mem, wb, refs, fifo, ring, task, threshold, depth, kret,
                   parked, retried, dpc, stop, hpc, swapout>>

(* A clean swap cache page that nobody else refers to leaves memory.       *)
ScanClean(p) ==
    /\ kpc = "scan" /\ mem[p] /\ slot[p] # Nobody /\ lock[p] = Nobody
    /\ ~wb[p] /\ refs[p] = 0 /\ p \notin Listed(parked)
    /\ mem' = [mem EXCEPT ![p] = FALSE]
    /\ UNCHANGED <<slot, lock, wb, refs, dev, fifo, ring, task, threshold,
                   depth, kswapd, dpc, stop, hpc, swapout>>

SwapIn(p) ==
    /\ ~mem[p] /\ mem' = [mem EXCEPT ![p] = TRUE]
    /\ UNCHANGED <<slot, lock, wb, refs, dev, fifo, ring, task, threshold,
                   depth, kswapd, dpc, stop, hpc, swapout>>

(* A fault (or anybody else) locks the page; try_to_free_swap() frees its  *)
(* slot unless the page is under writeback, and maps it again.             *)
ExtLock(p) ==
    /\ mem[p] /\ lock[p] = Nobody /\ lock' = [lock EXCEPT ![p] = "ext"]
    /\ UNCHANGED <<mem, slot, wb, refs, dev, fifo, ring, task, threshold,
                   depth, kswapd, dpc, stop, hpc, swapout>>

ExtFreeSwap(p) ==
    /\ lock[p] = "ext" /\ slot[p] # Nobody /\ ~wb[p]
    /\ slot' = [slot EXCEPT ![p] = Nobody]
    /\ UNCHANGED <<mem, lock, wb, refs, dev, fifo, ring, task, threshold,
                   depth, kswapd, dpc, stop, hpc, swapout>>

ExtUnlock(p) ==
    /\ lock[p] = "ext" /\ lock' = Unlocked(p)
    /\ UNCHANGED <<mem, slot, wb, refs, dev, fifo, ring, task, threshold,
                   depth, kswapd, dpc, stop, hpc, swapout>>

-----------------------------------------------------------------------------
(* swap_writepage(), abk_kcompressd_store(), abk_kcompressd_enqueue()      *)

(* The knob is zero, the node has no thread, or the page, its device or    *)
(* its memcg fails a gate: kswapd writes the page itself.                  *)
StoreRefuse ==
    /\ kpc = "store" /\ kpc' = "sync"
    /\ UNCHANGED <<page, fifo, ring, task, threshold, depth, kpage, kret,
                   parked, retried, dpc, stop, hpc, swapout>>

(* The unlocked read of kcd->task; the ring lock is taken later.           *)
Store ==
    /\ kpc = "store" /\ threshold # 0 /\ task /\ kpc' = "enqueue"
    /\ UNCHANGED <<page, fifo, ring, task, threshold, depth, kpage, kret,
                   parked, retried, dpc, stop, hpc, swapout>>

(* Under kcd->lock: the node has gone, or room cannot be made.             *)
NoRoom == Len(fifo) >= threshold /\ fifo = <<>>

RefusesNoRecheck == NoRoom                                      \* mutant
Refuses == ~task \/ NoRoom

EnqueueRefuse ==
    /\ kpc = "enqueue" /\ Refuses /\ kpc' = "sync"
    /\ UNCHANGED <<page, fifo, ring, task, threshold, depth, kpage, kret,
                   parked, retried, dpc, stop, hpc, swapout>>

(* Under kcd->lock: at the soft limit the oldest page is taken off the     *)
(* ring, then the page is referenced and queued and the thread is woken.   *)
MakesRoom == Len(fifo) >= threshold

GetPageNone(p) == refs                                          \* mutant
GetPage(p) == [refs EXCEPT ![p] = @ + 1]

WakeNone == dpc                                                 \* mutant
EnqueueWakes == Woken

Enqueue ==
    /\ kpc = "enqueue" /\ ~Refuses
    /\ LET rest == IF MakesRoom THEN Tail(fifo) ELSE fifo
           room == Len(rest) < FifoSize
       IN /\ IF room
             THEN /\ refs' = GetPage(kpage) /\ fifo' = Append(rest, kpage)
                  /\ depth' = depth + 1 /\ dpc' = EnqueueWakes
             ELSE fifo' = rest /\ UNCHANGED <<refs, depth, dpc>>
          /\ kret' = IF room THEN "finish" ELSE "sync"
          /\ IF MakesRoom
             THEN /\ kpc' = "head" /\ at' = [at EXCEPT !["kswapd"] = "check"]
                  /\ cur' = [cur EXCEPT !["kswapd"] = Head(fifo)]
             ELSE kpc' = kret' /\ UNCHANGED swapout
    /\ UNCHANGED <<mem, slot, lock, wb, dev, ring, task, threshold, kpage,
                   parked, retried, stop, hpc>>

(* The oldest page has been written on kswapd's own thread.                *)
HeadDone ==
    /\ kpc = "head" /\ at["kswapd"] = "none" /\ kpc' = kret
    /\ UNCHANGED <<page, fifo, ring, task, threshold, depth, kpage, kret,
                   parked, retried, dpc, stop, hpc, swapout>>

(* swap_writepage() after a store: batch 71's pin, then unlock_page().     *)
PinNone(p) == wb                                                \* mutant
Pin(p) == [wb EXCEPT ![p] = WbPin]

OffloadReturn ==
    /\ kpc = "finish" /\ wb' = Pin(kpage) /\ lock' = Unlocked(kpage)
    /\ kpc' = "success"
    /\ UNCHANGED <<mem, slot, refs, dev, fifo, ring, task, threshold, depth,
                   kpage, kret, parked, retried, dpc, stop, hpc, swapout>>

(* The synchronous path: frontswap or __swap_writepage(), which unlocks.   *)
SyncWrite ==
    /\ kpc = "sync" /\ dev' = [dev EXCEPT ![slot[kpage]] = kpage]
    /\ lock' = Unlocked(kpage) /\ kpc' = "success"
    /\ UNCHANGED <<mem, slot, wb, refs, fifo, ring, task, threshold, depth,
                   kpage, kret, parked, retried, dpc, stop, hpc, swapout>>

-----------------------------------------------------------------------------
(* Batch 72: shrink_page_list() after pageout()                            *)

(* PAGE_SUCCESS: a page still under writeback is parked, once per call.    *)
PageSuccess ==
    /\ kpc = "success" /\ kpc' = "scan" /\ kpage' = Nobody /\ kret' = "sync"
    /\ parked' = IF wb[kpage] /\ ~retried /\ slot[kpage] # Nobody
                 THEN <<kpage>> \o parked ELSE parked
    /\ UNCHANGED <<page, fifo, ring, task, threshold, depth, retried, dpc, stop,
                   hpc, swapout>>

(* The page list is empty: with parked pages kswapd waits for each of them *)
(* in turn and scans them again, the next time the call is over.           *)
EndList ==
    /\ kpc = "scan"
    /\ IF parked # <<>> /\ ~retried
       THEN kpc' = "retry" /\ retried' = TRUE
       ELSE kpc' = kpc /\ retried' = FALSE
    /\ UNCHANGED <<page, fifo, ring, task, threshold, depth, kpage, kret,
                   parked, dpc, stop, hpc, swapout>>

WaitParked ==
    /\ kpc = "retry" /\ parked # <<>> /\ ~wb[Head(parked)]
    /\ parked' = Tail(parked)
    /\ kpc' = IF Len(parked) = 1 THEN "scan" ELSE kpc
    /\ UNCHANGED <<page, fifo, ring, task, threshold, depth, kpage, kret,
                   retried, dpc, stop, hpc, swapout>>

-----------------------------------------------------------------------------
(* abk_kcompressd_do_swapout()                                             *)

PutPage(p) == [refs EXCEPT ![p] = @ - 1]

(* The unlocked test of PageSwapCache(): without a slot the page is        *)
(* dropped, and with batch 71 its writeback is ended.                      *)
SwapoutCheck(c) ==
    /\ at[c] = "check"
    /\ IF slot[cur[c]] # Nobody
       THEN /\ at' = [at EXCEPT ![c] = "lock"]
            /\ UNCHANGED <<refs, wb, cur>>
       ELSE /\ at' = [at EXCEPT ![c] = "none"] /\ cur' = [cur EXCEPT ![c] = Nobody]
            /\ refs' = PutPage(cur[c])
            /\ wb' = IF WbPin THEN [wb EXCEPT ![cur[c]] = FALSE] ELSE wb
    /\ UNCHANGED <<mem, slot, lock, dev, fifo, ring, task, threshold, depth,
                   kswapd, dpc, stop, hpc>>

(* lock_page(), and batch 71's end_page_writeback().                       *)
EndPinNone(p) == wb                                             \* mutant
EndPin(p) == IF WbPin THEN [wb EXCEPT ![p] = FALSE] ELSE wb

SwapoutLock(c) ==
    /\ at[c] = "lock" /\ lock[cur[c]] = Nobody
    /\ lock' = [lock EXCEPT ![cur[c]] = c] /\ wb' = EndPin(cur[c])
    /\ at' = [at EXCEPT ![c] = "write"]
    /\ UNCHANGED <<mem, slot, refs, dev, fifo, ring, task, threshold, depth,
                   kswapd, dpc, stop, hpc, cur>>

(* frontswap_store() or __swap_writepage(), which unlocks the page.  A     *)
(* page outside the swap cache has no slot of its own to be written to:    *)
(* its page_private names any slot.                                        *)
SwapoutWrite(c) ==
    /\ at[c] = "write"
    /\ \E s \in IF slot[cur[c]] # Nobody THEN {slot[cur[c]]} ELSE Slots :
          dev' = [dev EXCEPT ![s] = cur[c]]
    /\ lock' = Unlocked(cur[c]) /\ at' = [at EXCEPT ![c] = "put"]
    /\ UNCHANGED <<mem, slot, wb, refs, fifo, ring, task, threshold, depth,
                   kswapd, dpc, stop, hpc, cur>>

(* The counter, then the reference.                                        *)
SwapoutPut(c) ==
    /\ at[c] = "put" /\ at' = [at EXCEPT ![c] = "none"]
    /\ cur' = [cur EXCEPT ![c] = Nobody]
    /\ depth' = depth - 1 /\ refs' = PutPage(cur[c])
    /\ UNCHANGED <<mem, slot, lock, wb, dev, fifo, ring, task, threshold,
                   kswapd, dpc, stop, hpc>>

-----------------------------------------------------------------------------
(* abk_kcompressd(): the drain thread                                      *)

(* while (!kthread_should_stop())                                          *)
DrainTop ==
    /\ dpc = "top" /\ dpc' = IF stop THEN "exit" ELSE "wait"
    /\ UNCHANGED <<page, fifo, ring, task, threshold, depth, kswapd, stop, hpc,
                   swapout>>

(* wait_event_interruptible(): the predicate names the stop flag too.      *)
MayDrainUpstream == fifo # <<>>                                 \* mutant
MayDrain == fifo # <<>> \/ stop

DrainWait ==
    /\ dpc = "wait" /\ dpc' = IF MayDrain THEN "drain" ELSE "sleep"
    /\ UNCHANGED <<page, fifo, ring, task, threshold, depth, kswapd, stop, hpc,
                   swapout>>

(* kfifo_out_locked() until the ring is empty.                             *)
DrainPop ==
    /\ dpc = "drain" /\ at["drain"] = "none"
    /\ IF fifo # <<>>
       THEN /\ at' = [at EXCEPT !["drain"] = "check"]
            /\ cur' = [cur EXCEPT !["drain"] = Head(fifo)]
            /\ fifo' = Tail(fifo) /\ UNCHANGED dpc
       ELSE dpc' = "top" /\ UNCHANGED <<swapout, fifo>>
    /\ UNCHANGED <<page, ring, task, threshold, depth, kswapd, stop, hpc>>

-----------------------------------------------------------------------------
(* Memory hotplug (and the boot-time initcall) and the sysctl              *)

(* add_node(): the ring, then the thread; either may fail.                 *)
AddAlloc ==
    /\ hpc = "idle" /\ ~task /\ ring' = TRUE /\ hpc' = "create"
    /\ UNCHANGED <<page, fifo, task, threshold, depth, kswapd, dpc, stop,
                   swapout>>

AddCreate(ok) ==
    /\ hpc = "create" /\ hpc' = "idle"
    /\ ring' = ok /\ task' = ok /\ dpc' = IF ok THEN "top" ELSE dpc
    /\ UNCHANGED <<page, fifo, threshold, depth, kswapd, stop, swapout>>

(* del_node(): no new work ...                                             *)
DelNull ==
    /\ hpc = "idle" /\ task /\ task' = FALSE /\ hpc' = "wake"
    /\ UNCHANGED <<page, fifo, ring, threshold, depth, kswapd, dpc, stop,
                   swapout>>

DelWake ==
    /\ hpc = "wake" /\ dpc' = Woken /\ hpc' = "stop"
    /\ UNCHANGED <<page, fifo, ring, task, threshold, depth, kswapd, stop,
                   swapout>>

(* ... kthread_stop() sets the flag, wakes the thread and waits for it ... *)
DelStop ==
    /\ hpc = "stop" /\ stop' = TRUE /\ dpc' = Woken /\ hpc' = "join"
    /\ UNCHANGED <<page, fifo, ring, task, threshold, depth, kswapd, swapout>>

DelJoin ==
    /\ hpc = "join" /\ dpc = "exit" /\ dpc' = "none" /\ stop' = FALSE
    /\ hpc' = "drain"
    /\ UNCHANGED <<page, fifo, ring, task, threshold, depth, kswapd, swapout>>

(* ... and what is left is written before the ring is freed.               *)
DelDrain ==
    /\ hpc = "drain" /\ at["del"] = "none"
    /\ IF fifo # <<>>
       THEN /\ at' = [at EXCEPT !["del"] = "check"]
            /\ cur' = [cur EXCEPT !["del"] = Head(fifo)]
            /\ fifo' = Tail(fifo) /\ UNCHANGED <<ring, hpc>>
       ELSE ring' = FALSE /\ hpc' = "idle" /\ UNCHANGED <<swapout, fifo>>
    /\ UNCHANGED <<page, task, threshold, depth, kswapd, dpc, stop>>

SetThresholdUnchecked(t) ==                                     \* mutant
    /\ threshold' = t + FifoSize
    /\ UNCHANGED <<page, fifo, ring, task, depth, kswapd, dpc, stop, hpc,
                   swapout>>

(* proc_dointvec_minmax(): the new value is within 0..FifoSize.            *)
SetThreshold(t) ==
    /\ threshold' = t
    /\ UNCHANGED <<page, fifo, ring, task, depth, kswapd, dpc, stop, hpc,
                   swapout>>

-----------------------------------------------------------------------------
External ==
    \/ \E p \in Pages, s \in Slots : ScanMapped(p, s)
    \/ \E p \in Pages : ScanClean(p) \/ SwapIn(p) \/ ExtLock(p) \/ ExtFreeSwap(p)
    \/ \E t \in Thresholds : SetThreshold(t)
    \/ AddAlloc \/ DelNull

KswapdStep ==
    \/ StoreRefuse \/ Store \/ EnqueueRefuse \/ Enqueue \/ HeadDone
    \/ OffloadReturn \/ SyncWrite \/ PageSuccess \/ WaitParked
DrainStep == DrainTop \/ DrainWait \/ DrainPop
HotplugStep ==
    \/ (\E ok \in BOOLEAN : AddCreate(ok))
    \/ DelWake \/ DelStop \/ DelJoin \/ DelDrain
SwapoutStep(c) == SwapoutCheck(c) \/ SwapoutWrite(c) \/ SwapoutPut(c)

Next ==
    \/ External \/ KswapdStep \/ EndList \/ DrainStep \/ HotplugStep
    \/ \E p \in Pages : ExtUnlock(p)
    \/ \E c \in Writers : SwapoutStep(c) \/ SwapoutLock(c)

Spec == Init /\ [][Next]_vars

(* Every thread that can run runs; who holds a page lock gives it back,    *)
(* and lock_page() hands the lock over to a waiter in the end.             *)
Fairness ==
    /\ WF_vars(KswapdStep) /\ WF_vars(DrainStep) /\ WF_vars(HotplugStep)
    /\ \A p \in Pages : WF_vars(ExtUnlock(p))
    /\ \A c \in Writers : WF_vars(SwapoutStep(c)) /\ SF_vars(SwapoutLock(c))

FairSpec == Spec /\ Fairness

-----------------------------------------------------------------------------
(* Properties                                                              *)

(* Type invariant.                                                         *)
TypeOK ==
    /\ mem \in [Pages -> BOOLEAN] /\ wb \in [Pages -> BOOLEAN]
    /\ slot \in [Pages -> Slots \cup {Nobody}]
    /\ lock \in [Pages -> Writers \cup {"ext", Nobody}]
    /\ refs \in [Pages -> Int] /\ dev \in [Slots -> Pages \cup {Nobody}]
    /\ fifo \in Seq(Pages) /\ parked \in Seq(Pages)
    /\ ring \in BOOLEAN /\ task \in BOOLEAN /\ stop \in BOOLEAN
    /\ retried \in BOOLEAN /\ threshold \in Thresholds /\ depth \in Int
    /\ kpc \in {"scan", "store", "enqueue", "head", "finish", "sync",
                "success", "retry"}
    /\ kpage \in Pages \cup {Nobody} /\ kret \in {"finish", "sync"}
    /\ dpc \in {"none", "top", "wait", "sleep", "drain", "exit"}
    /\ hpc \in {"idle", "create", "wake", "stop", "join", "drain"}
    /\ at \in [Writers -> {"none", "check", "lock", "write", "put"}]
    /\ cur \in [Writers -> Pages \cup {Nobody}]

(* A page that has left memory can be read back from its slot: reclaim     *)
(* never frees a page whose deferred write has not happened, and no write  *)
(* of another page has gone to its slot (batch 41:381-389, 276-277).       *)
SwappedOutIsReadable == \A p \in Pages : ~mem[p] => dev[slot[p]] = p

(* With batch 71 a page waits for its write at most once and keeps its     *)
(* swap slot for as long as it waits (batch 71:20-29).                     *)
SlotPinned ==
    /\ \A i, j \in 1..Len(fifo) : fifo[i] = fifo[j] => i = j
    /\ \A i \in 1..Len(fifo) : slot[fifo[i]] # Nobody
    /\ \A c \in Unwritten :
          /\ slot[cur[c]] # Nobody
          /\ \A i \in 1..Len(fifo) : fifo[i] # cur[c]
          /\ \A d \in Unwritten : cur[c] = cur[d] => c = d

(* The offload holds one reference for every occurrence of a page in the   *)
(* ring or with a writer: none is dropped while the page may still be      *)
(* written, none is left behind (batch 41:385, 394, 142).  The counters    *)
(* agree when nothing is queued and nobody is writing: "enqueued - swapped *)
(* is the live queue depth" (batch 41:221).                                *)
RefsBalanced ==
    /\ \A p \in Pages :
          refs[p] = Cardinality({i \in DOMAIN fifo : fifo[i] = p})
                      + Cardinality({c \in Writers : at[c] # "none" /\ cur[c] = p})
    /\ fifo = <<>> /\ (\A c \in Writers : at[c] = "none") => depth = 0

(* kswapd, which holds the lock of the page it is queueing, never waits    *)
(* for that lock while it writes the oldest page (batch 41:316, 402).      *)
NoSelfLock ==
    at["kswapd"] \in {"check", "lock"} => lock[cur["kswapd"]] # "kswapd"

(* A page is never in a ring that is freed (batch 41:366).                 *)
RingAlive == fifo # <<>> => ring

(* A page that is put under writeback by the offload leaves it, so nobody  *)
(* waits for it forever (batch 71:46-63, batch 72:77).                     *)
WritebackEnds == \A p \in Pages : wb[p] ~> ~wb[p]

(* del_node() comes to its end and frees the ring (batch 41:712-747).      *)
TeardownEnds == hpc = "wake" ~> hpc = "idle"

(* The "one bounded wait" of the reclaim loop ends (batch 72:152).         *)
KswapdReturns == kpc = "retry" ~> kpc = "scan"
=============================================================================
