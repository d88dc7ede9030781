--------------------------- MODULE KcompressdProofs ---------------------------
(***************************************************************************)
(* What TLAPS proves of Kcompressd for every set of pages and slots, every *)
(* ring size and every soft limit: the types, that the ring outlives the   *)
(* pages in it, and who holds a page's references; and with the batch 71   *)
(* pin that a queued page keeps its swap slot and is queued once, no page  *)
(* is lost on its way out, kswapd never waits for itself, and the counters *)
(* agree with the ring.                                                    *)
(***************************************************************************)
EXTENDS Kcompressd, TLAPS, FiniteSetTheorems

(* The page kswapd works on is a page, and its offload has been accepted   *)
(* when it is about to return.                                             *)
KswapdOK ==
    /\ kpc \in {"store", "enqueue", "head", "finish", "sync", "success"} =>
           kpage \in Pages
    /\ kpc = "finish" => kret = "finish"
    /\ \A c \in Writers : at[c] # "none" => cur[c] \in Pages

TypeInv == TypeOK /\ KswapdOK

(* The initial state has its types.                                        *)
LEMMA TypeInit == Init => TypeInv
<1> SUFFICES ASSUME Init PROVE TypeInv
  OBVIOUS
<1>1. mem \in [Pages -> BOOLEAN] /\ wb \in [Pages -> BOOLEAN]
  BY Zenon DEF Init
<1>2. ring \in BOOLEAN /\ task \in BOOLEAN /\ stop \in BOOLEAN /\ retried \in BOOLEAN
  BY Zenon DEF Init
<1>3. /\ slot \in [Pages -> Slots \cup {Nobody}]
      /\ lock \in [Pages -> Writers \cup {"ext", Nobody}]
      /\ refs \in [Pages -> Int] /\ dev \in [Slots -> Pages \cup {Nobody}]
      /\ fifo \in Seq(Pages) /\ parked \in Seq(Pages)
      /\ threshold \in Thresholds /\ depth \in Int
  BY DEF Init
<1>4. /\ at \in [Writers -> {"none", "check", "lock", "write", "put"}]
      /\ cur \in [Writers -> Pages \cup {Nobody}]
      /\ \A c \in Writers : at[c] = "none"
  BY DEF Init
<1>5. kpc = "scan" /\ kpage = Nobody /\ kret = "sync" /\ dpc = "none" /\ hpc = "idle"
  BY DEF Init
<1> QED
  BY <1>1, <1>2, <1>3, <1>4, <1>5 DEF TypeInv, TypeOK, KswapdOK

(* A ring with one more page is a ring.                                    *)
LEMMA AppendType ==
    ASSUME NEW q, NEW p, NEW f, q \in Seq(Pages), p \in Pages,
           f = Append(q, p) \/ f = q
    PROVE  f \in Seq(Pages)
  OBVIOUS

(* Every step keeps the types.                                             *)
LEMMA TypeNext == TypeInv /\ [Next]_vars => TypeInv'
<1> SUFFICES ASSUME TypeInv, [Next]_vars PROVE TypeInv'
  OBVIOUS
<1> USE KcompressdAssumption DEF TypeInv, TypeOK, KswapdOK, page, kswapd, swapout
<1>1. ASSUME NEW p \in Pages, NEW s \in Slots, ScanMapped(p, s) PROVE TypeInv'
  BY <1>1 DEF ScanMapped, Writers
<1>2. ASSUME NEW p \in Pages, ScanClean(p) PROVE TypeInv'
  BY <1>2 DEF ScanClean
<1>3. ASSUME NEW p \in Pages, SwapIn(p) PROVE TypeInv'
  BY <1>3 DEF SwapIn
<1>4. ASSUME NEW p \in Pages, ExtLock(p) PROVE TypeInv'
  BY <1>4 DEF ExtLock, Writers
<1>5. ASSUME NEW p \in Pages, ExtFreeSwap(p) PROVE TypeInv'
  BY <1>5 DEF ExtFreeSwap
<1>6. ASSUME NEW p \in Pages, ExtUnlock(p) PROVE TypeInv'
  BY <1>6 DEF ExtUnlock, Unlocked
<1>7. CASE StoreRefuse
  BY <1>7 DEF StoreRefuse
<1>8. CASE Store
  BY <1>8 DEF Store
<1>9. CASE EnqueueRefuse
  BY <1>9 DEF EnqueueRefuse
<1>10. CASE Enqueue
  <2> DEFINE rest == IF MakesRoom THEN Tail(fifo) ELSE fifo
             room == Len(rest) < FifoSize
  <2>1. MakesRoom => fifo # <<>>
    BY <1>10 DEF Enqueue, Refuses, NoRoom, MakesRoom
  <2>2. rest \in Seq(Pages) /\ (MakesRoom => Head(fifo) \in Pages)
    BY <2>1
  <2>3. kpage \in Pages
    BY <1>10 DEF Enqueue
  <2>4. /\ IF room
           THEN /\ refs' = GetPage(kpage) /\ fifo' = Append(rest, kpage)
                /\ depth' = depth + 1 /\ dpc' = EnqueueWakes
           ELSE fifo' = rest /\ UNCHANGED <<refs, depth, dpc>>
        /\ kret' = IF room THEN "finish" ELSE "sync"
        /\ IF MakesRoom
           THEN /\ kpc' = "head" /\ at' = [at EXCEPT !["kswapd"] = "check"]
                /\ cur' = [cur EXCEPT !["kswapd"] = Head(fifo)]
           ELSE kpc' = kret' /\ UNCHANGED swapout
    BY <1>10 DEF Enqueue
  <2> HIDE DEF rest, room
  <2>5. /\ refs' \in [Pages -> Int] /\ fifo' \in Seq(Pages) /\ depth' \in Int
        /\ dpc' \in {"none", "top", "wait", "sleep", "drain", "exit"}
    <3>1. refs' \in [Pages -> Int] /\ depth' \in Int
      BY <2>3, <2>4 DEF GetPage
    <3>2. fifo' = Append(rest, kpage) \/ fifo' = rest
      BY <2>4
    <3>4. fifo' \in Seq(Pages)
      BY <2>2, <2>3, <3>2, AppendType, SMTT(30)
    <3>3. dpc' \in {"none", "top", "wait", "sleep", "drain", "exit"}
      BY <2>4 DEF EnqueueWakes, Woken
    <3> QED
      BY <3>1, <3>3, <3>4
  <2>6. "kswapd" \in Writers
    BY DEF Writers
  <2>7. /\ at' \in [Writers -> {"none", "check", "lock", "write", "put"}]
        /\ cur' \in [Writers -> Pages \cup {Nobody}]
        /\ \A c \in Writers : at'[c] # "none" => cur'[c] \in Pages
    <3>1. CASE MakesRoom
      <4>1. /\ at' = [at EXCEPT !["kswapd"] = "check"]
            /\ cur' = [cur EXCEPT !["kswapd"] = Head(fifo)]
            /\ Head(fifo) \in Pages
        BY <2>2, <2>4, <3>1
      <4> QED
        BY <2>6, <4>1
    <3>2. CASE ~MakesRoom
      BY <2>4, <3>2
    <3> QED
      BY <3>1, <3>2
  <2>8. kpc' \in {"head", "finish", "sync"} /\ kret' \in {"finish", "sync"}
        /\ (kpc' = "finish" => kret' = "finish")
    BY <2>4
  <2> QED
    BY <1>10, <2>3, <2>5, <2>7, <2>8 DEF Enqueue
<1>11. CASE HeadDone
  BY <1>11 DEF HeadDone
<1>12. CASE OffloadReturn
  BY <1>12 DEF OffloadReturn, Pin, Unlocked
<1>13. CASE SyncWrite
  <2>1. /\ kpc = "sync" /\ kpc' = "success" /\ dev' = [dev EXCEPT ![slot[kpage]] = kpage]
        /\ lock' = [lock EXCEPT ![kpage] = Nobody]
        /\ mem' = mem /\ slot' = slot /\ wb' = wb /\ refs' = refs
        /\ fifo' = fifo /\ ring' = ring /\ task' = task
        /\ threshold' = threshold /\ depth' = depth /\ kpage' = kpage
        /\ kret' = kret /\ parked' = parked /\ retried' = retried
        /\ dpc' = dpc /\ stop' = stop /\ hpc' = hpc /\ at' = at
        /\ cur' = cur
    BY <1>13 DEF SyncWrite, Unlocked
  <2>2. kpage \in Pages
    BY <2>1
  <2>3. dev' \in [Slots -> Pages \cup {Nobody}]
    BY <2>1, <2>2
  <2>4. lock' \in [Pages -> Writers \cup {"ext", Nobody}]
    BY <2>1
  <2> QED
    BY <2>1, <2>2, <2>3, <2>4
<1>14. CASE PageSuccess
  BY <1>14 DEF PageSuccess
<1>15. CASE EndList
  <2>1. /\ kpc' \in {"scan", "retry"} /\ retried' \in BOOLEAN
        /\ mem' = mem /\ slot' = slot /\ lock' = lock /\ wb' = wb
        /\ refs' = refs /\ dev' = dev /\ fifo' = fifo /\ ring' = ring
        /\ task' = task /\ threshold' = threshold /\ depth' = depth
        /\ kpage' = kpage /\ kret' = kret /\ parked' = parked
        /\ dpc' = dpc /\ stop' = stop /\ hpc' = hpc /\ at' = at
        /\ cur' = cur
    BY <1>15 DEF EndList
  <2> QED
    BY <2>1
<1>16. CASE WaitParked
  BY <1>16 DEF WaitParked
<1>17. ASSUME NEW c \in Writers, SwapoutCheck(c) PROVE TypeInv'
  <2>1. CASE slot[cur[c]] # Nobody
    <3>1. at' = [at EXCEPT ![c] = "lock"] /\ UNCHANGED <<refs, wb, cur>>
      BY <1>17, <2>1 DEF SwapoutCheck
    <3>2. /\ at' \in [Writers -> {"none", "check", "lock", "write", "put"}]
          /\ \A d \in Writers : at'[d] # "none" => cur[d] \in Pages
      BY <1>17, <3>1 DEF SwapoutCheck
    <3> QED
      BY <1>17, <3>1, <3>2 DEF SwapoutCheck
  <2>2. CASE slot[cur[c]] = Nobody
    <3>1. /\ at' = [at EXCEPT ![c] = "none"] /\ cur' = [cur EXCEPT ![c] = Nobody]
          /\ refs' = PutPage(cur[c])
      BY <1>17, <2>2 DEF SwapoutCheck
    <3>2. refs' \in [Pages -> Int]
      <4>1. cur[c] \in Pages
        BY <1>17 DEF SwapoutCheck
      <4> QED
        BY <3>1, <4>1 DEF PutPage
    <3>3. wb' \in [Pages -> BOOLEAN]
      BY <1>17, <2>2 DEF SwapoutCheck
    <3>4. /\ at' \in [Writers -> {"none", "check", "lock", "write", "put"}]
          /\ cur' \in [Writers -> Pages \cup {Nobody}]
          /\ \A d \in Writers : at'[d] # "none" => cur'[d] \in Pages
      BY <3>1
    <3> QED
      BY <1>17, <3>2, <3>3, <3>4 DEF SwapoutCheck
  <2> QED
    BY <2>1, <2>2
<1>18. ASSUME NEW c \in Writers, SwapoutLock(c) PROVE TypeInv'
  BY <1>18 DEF SwapoutLock, EndPin
<1>19. ASSUME NEW c \in Writers, SwapoutWrite(c) PROVE TypeInv'
  BY <1>19 DEF SwapoutWrite, Unlocked
<1>20. ASSUME NEW c \in Writers, SwapoutPut(c) PROVE TypeInv'
  BY <1>20 DEF SwapoutPut, PutPage
<1>21. CASE DrainTop
  BY <1>21 DEF DrainTop
<1>22. CASE DrainWait
  BY <1>22 DEF DrainWait
<1>23. CASE DrainPop
  <2>1. CASE fifo # <<>>
    <3>1. Head(fifo) \in Pages /\ Tail(fifo) \in Seq(Pages)
      BY <2>1
    <3>2. /\ at' = [at EXCEPT !["drain"] = "check"] /\ fifo' = Tail(fifo)
          /\ cur' = [cur EXCEPT !["drain"] = Head(fifo)]
          /\ UNCHANGED <<dpc>>
      BY <1>23, <2>1 DEF DrainPop
    <3>3. "drain" \in Writers
      BY DEF Writers
    <3>4. /\ at' \in [Writers -> {"none", "check", "lock", "write", "put"}]
          /\ cur' \in [Writers -> Pages \cup {Nobody}]
          /\ \A c \in Writers : at'[c] # "none" => cur'[c] \in Pages
      BY <3>1, <3>2, <3>3
    <3> QED
      BY <1>23, <3>1, <3>2, <3>4 DEF DrainPop
  <2>2. CASE fifo = <<>>
    BY <1>23, <2>2 DEF DrainPop
  <2> QED
    BY <2>1, <2>2
<1>24. CASE AddAlloc
  BY <1>24 DEF AddAlloc
<1>25. ASSUME NEW ok \in BOOLEAN, AddCreate(ok) PROVE TypeInv'
  BY <1>25 DEF AddCreate
<1>26. CASE DelNull
  <2>1. /\ task' = FALSE /\ hpc' = "wake"
        /\ mem' = mem /\ slot' = slot /\ lock' = lock /\ wb' = wb
        /\ refs' = refs /\ dev' = dev /\ fifo' = fifo /\ ring' = ring
        /\ threshold' = threshold /\ depth' = depth /\ kpc' = kpc
        /\ kpage' = kpage /\ kret' = kret /\ parked' = parked
        /\ retried' = retried /\ dpc' = dpc /\ stop' = stop /\ at' = at
        /\ cur' = cur
    BY <1>26 DEF DelNull
  <2>2. TypeOK'
    <3>1. task' \in BOOLEAN /\ hpc' \in {"idle", "create", "wake", "stop", "join", "drain"}
      BY <2>1
    <3> QED
      BY <2>1, <3>1
  <2>3. KswapdOK'
    BY <2>1
  <2> QED
    BY <2>2, <2>3, Zenon
<1>27. CASE DelWake
  BY <1>27 DEF DelWake, Woken
<1>28. CASE DelStop
  BY <1>28 DEF DelStop, Woken
<1>29. CASE DelJoin
  BY <1>29 DEF DelJoin
<1>30. CASE DelDrain
  <2>1. CASE fifo # <<>>
    <3>1. Head(fifo) \in Pages /\ Tail(fifo) \in Seq(Pages)
      BY <2>1
    <3>2. /\ at' = [at EXCEPT !["del"] = "check"] /\ fifo' = Tail(fifo)
          /\ cur' = [cur EXCEPT !["del"] = Head(fifo)]
          /\ UNCHANGED <<ring, hpc>>
      BY <1>30, <2>1 DEF DelDrain
    <3>3. "del" \in Writers
      BY DEF Writers
    <3>4. /\ at' \in [Writers -> {"none", "check", "lock", "write", "put"}]
          /\ cur' \in [Writers -> Pages \cup {Nobody}]
          /\ \A c \in Writers : at'[c] # "none" => cur'[c] \in Pages
      BY <3>1, <3>2, <3>3
    <3> QED
      BY <1>30, <3>1, <3>2, <3>4 DEF DelDrain
  <2>2. CASE fifo = <<>>
    <3>1. /\ ring' = FALSE /\ hpc' = "idle"
          /\ mem' = mem /\ slot' = slot /\ lock' = lock /\ wb' = wb
          /\ refs' = refs /\ dev' = dev /\ fifo' = fifo /\ task' = task
          /\ threshold' = threshold /\ depth' = depth /\ kpc' = kpc
          /\ kpage' = kpage /\ kret' = kret /\ parked' = parked
          /\ retried' = retried /\ dpc' = dpc /\ stop' = stop /\ at' = at
          /\ cur' = cur
      BY <1>30, <2>2 DEF DelDrain
    <3>2. TypeOK'
      <4>1. ring' \in BOOLEAN /\ hpc' \in {"idle", "create", "wake", "stop", "join", "drain"}
        BY <3>1
      <4> QED
        BY <3>1, <4>1
    <3>3. KswapdOK'
      BY <3>1
    <3> QED
      BY <3>2, <3>3, Zenon
  <2> QED
    BY <2>1, <2>2
<1>31. ASSUME NEW t \in Thresholds, SetThreshold(t) PROVE TypeInv'
  BY <1>31 DEF SetThreshold
<1>32. CASE UNCHANGED vars
  BY <1>32 DEF vars
<1> QED
  BY <1>1, <1>2, <1>3, <1>4, <1>5, <1>6, <1>7, <1>8, <1>9, <1>10, <1>11,
     <1>12, <1>13, <1>14, <1>15, <1>16, <1>17, <1>18, <1>19, <1>20, <1>21, <1>22,
     <1>23, <1>24, <1>25, <1>26, <1>27, <1>28, <1>29, <1>30, <1>31, <1>32
     DEF Next, External, KswapdStep, DrainStep, HotplugStep, SwapoutStep

(* The queue, the page flags, the threads and the counters keep their      *)
(* types.                                                                  *)
THEOREM TypeCorrect == Spec => []TypeOK
<1>1. TypeInv => TypeOK
  BY DEF TypeInv
<1> QED
  BY <1>1, TypeInit, TypeNext, PTL DEF Spec

-----------------------------------------------------------------------------
(* The inductive invariant behind the three safety theorems.               *)

(* Nobody has the page twice.                                              *)
Distinct(q) == \A i, j \in 1..Len(q) : q[i] = q[j] => i = j

(* The page waits for its write, in the ring or with a writer.             *)
Held(p) == p \in Listed(fifo) \/ \E c \in Unwritten : cur[c] = p

(* kswapd holds the lock of the page it works on up to its return.         *)
Locking == {"store", "enqueue", "head", "finish", "sync"}
Offered(p) == kpage = p /\ kpc \in {"head", "finish"} /\ kret = "finish"
Writing(p) == \E c \in Writers : at[c] = "write" /\ cur[c] = p

OnceEach ==
    /\ Distinct(fifo)
    /\ \A c \in Unwritten : cur[c] \notin Listed(fifo)
    /\ \A c, d \in Unwritten : cur[c] = cur[d] => c = d

(* A page that waits is pinned, or its lock is held by the offload.        *)
HeldSafe ==
    \A p \in Pages : Held(p) =>
        /\ slot[p] # Nobody /\ mem[p] = TRUE
        /\ wb[p] = TRUE \/ Offered(p) \/ Writing(p)

KpageSafe ==
    /\ kpc \in Locking => /\ lock[kpage] = "kswapd" /\ slot[kpage] # Nobody
                          /\ mem[kpage] = TRUE
    /\ kpc \in {"store", "enqueue", "sync"} \/ (kpc = "head" /\ kret = "sync") =>
           ~Held(kpage)
    /\ kpc \in {"head", "finish"} /\ kret = "finish" => Held(kpage)
    /\ at["kswapd"] # "none" => kpc = "head"
    /\ "kswapd" \in Unwritten => cur["kswapd"] # kpage

LocksSafe ==
    /\ \A c \in Writers : at[c] = "write" => lock[cur[c]] = c
    /\ \A p \in Pages :
          /\ lock[p] = "kswapd" =>
                \/ p = kpage /\ kpc \in Locking
                \/ p = cur["kswapd"] /\ at["kswapd"] = "write"
          /\ lock[p] = "ext" => mem[p] = TRUE

(* A swap cache page nobody is to write has its data in its slot.          *)
CleanSafe ==
    /\ \A p, q \in Pages : slot[p] # Nobody /\ slot[p] = slot[q] => p = q
    /\ \A p \in Pages : mem[p] = TRUE \/ slot[p] # Nobody
    /\ \A p \in Pages :
          \/ slot[p] = Nobody \/ Held(p) \/ dev[slot[p]] = p
          \/ p = kpage /\ kpc \in Locking

PinInv == OnceEach /\ HeldSafe /\ KpageSafe /\ LocksSafe /\ CleanSafe

(* The invariant holds initially: nothing is queued.                       *)
LEMMA PinInit == Init => PinInv
<1> SUFFICES ASSUME Init PROVE PinInv
  OBVIOUS
<1>1. \A p \in Pages : mem[p] = TRUE /\ slot[p] = Nobody /\ lock[p] = Nobody
  BY DEF Init
<1>2. Listed(fifo) = {} /\ Distinct(fifo)
  BY DEF Init, Listed, Distinct
<1>3. Unwritten = {} /\ (\A c \in Writers : at[c] = "none") /\ kpc = "scan"
  BY DEF Init, Unwritten
<1>4. "kswapd" \in Writers /\ Nobody \notin {"kswapd", "ext"}
  BY KcompressdAssumption DEF Writers
<1> QED
  BY <1>1, <1>2, <1>3, <1>4
     DEF PinInv, OnceEach, HeldSafe, KpageSafe, LocksSafe, CleanSafe, Held,
         Locking

(* Dequeueing takes one page off the ring and leaves the others.           *)
LEMMA RingTail ==
    ASSUME NEW q \in Seq(Pages), q # <<>>, Distinct(q)
    PROVE  /\ Distinct(Tail(q)) /\ Head(q) \notin Listed(Tail(q))
           /\ Listed(q) = Listed(Tail(q)) \cup {Head(q)}
<1>1. /\ Len(q) >= 1 /\ Len(Tail(q)) = Len(q) - 1 /\ Head(q) = q[1]
      /\ \A i \in 1..Len(Tail(q)) : Tail(q)[i] = q[i + 1]
      /\ Len(q) \in Nat /\ Tail(q) \in Seq(Pages)
  OBVIOUS
<1>2. DOMAIN q = 1..Len(q) /\ DOMAIN Tail(q) = 1..Len(Tail(q))
  BY <1>1
<1>3. Distinct(Tail(q))
  BY <1>1 DEF Distinct
<1>4. Head(q) \notin Listed(Tail(q))
  BY <1>1, <1>2 DEF Distinct, Listed
<1>5. ASSUME NEW x \in Listed(q) PROVE x \in Listed(Tail(q)) \cup {Head(q)}
  <2>1. PICK i \in 1..Len(q) : x = q[i]
    BY <1>2 DEF Listed
  <2>2. CASE i = 1
    BY <1>1, <2>1, <2>2
  <2>3. CASE i # 1
    <3>1. i - 1 \in 1..Len(Tail(q)) /\ Tail(q)[i - 1] = q[i]
      BY <1>1, <2>3
    <3> QED
      BY <1>2, <2>1, <3>1 DEF Listed
  <2> QED
    BY <2>2, <2>3
<1>6. ASSUME NEW x \in Listed(Tail(q)) \cup {Head(q)} PROVE x \in Listed(q)
  <2>1. 1 \in DOMAIN q /\ Head(q) = q[1]
    BY <1>1, <1>2
  <2>2. CASE x \in Listed(Tail(q))
    <3>1. PICK i \in 1..Len(Tail(q)) : x = Tail(q)[i]
      BY <1>2, <2>2 DEF Listed
    <3>2. i + 1 \in DOMAIN q /\ x = q[i + 1]
      BY <1>1, <1>2, <3>1
    <3> QED
      BY <3>2 DEF Listed
  <2> QED
    BY <2>1, <2>2 DEF Listed
<1> QED
  BY <1>3, <1>4, <1>5, <1>6

(* Queueing adds one page to the ring.                                     *)
LEMMA RingAppend ==
    ASSUME NEW q \in Seq(Pages), NEW p \in Pages, Distinct(q), p \notin Listed(q)
    PROVE  /\ Distinct(Append(q, p))
           /\ Listed(Append(q, p)) = Listed(q) \cup {p}
<1> DEFINE r == Append(q, p)
<1>1. /\ Len(r) = Len(q) + 1 /\ r[Len(q) + 1] = p /\ Len(q) \in Nat
      /\ \A i \in 1..Len(q) : r[i] = q[i]
      /\ DOMAIN r = 1..(Len(q) + 1) /\ DOMAIN q = 1..Len(q)
  OBVIOUS
<1> HIDE DEF r
<1>2. \A i \in 1..Len(q) : q[i] # p
  BY <1>1 DEF Listed
<1>3. Distinct(r)
  BY <1>1, <1>2 DEF Distinct
<1>4. Listed(r) \subseteq Listed(q) \cup {p}
  BY <1>1 DEF Listed
<1>5. Listed(q) \cup {p} \subseteq Listed(r)
  <2>1. Len(q) + 1 \in DOMAIN r
    BY <1>1
  <2>2. p \in Listed(r)
    BY <1>1, <2>1 DEF Listed
  <2>3. ASSUME NEW x \in Listed(q) PROVE x \in Listed(r)
    <3>1. PICK i \in 1..Len(q) : x = q[i]
      BY <1>1 DEF Listed
    <3>2. i \in DOMAIN r /\ x = r[i]
      BY <1>1, <3>1
    <3> QED
      BY <3>2 DEF Listed
  <2> QED
    BY <2>2, <2>3
<1> QED
  BY <1>3, <1>4, <1>5 DEF r

(* Dequeueing by the drain thread or the teardown keeps the invariant.     *)
LEMMA PinPop ==
    ASSUME TypeInv, PinInv, fifo # <<>>, NEW w \in Writers \ {"kswapd"},
           at[w] = "none", at' = [at EXCEPT ![w] = "check"],
           cur' = [cur EXCEPT ![w] = Head(fifo)], fifo' = Tail(fifo),
           UNCHANGED <<mem, slot, lock, wb, dev, kpc, kpage, kret>>
    PROVE  PinInv'
<1>1. /\ Distinct(fifo') /\ Head(fifo) \notin Listed(fifo')
      /\ Listed(fifo) = Listed(fifo') \cup {Head(fifo)}
  BY RingTail DEF PinInv, OnceEach, TypeInv, TypeOK
<1>2. /\ Unwritten' = Unwritten \cup {w} /\ w \notin Unwritten
      /\ \A d \in Unwritten : cur'[d] = cur[d]
      /\ cur'[w] = Head(fifo) /\ Unwritten \subseteq Writers
  BY DEF Unwritten, TypeInv, TypeOK
<1>3. /\ \A d \in Writers : at'[d] = "write" <=> at[d] = "write"
      /\ \A d \in Writers : at[d] = "write" => d \in Unwritten
      /\ "kswapd" \in Writers /\ w # "kswapd" /\ at'["kswapd"] = at["kswapd"]
  BY DEF Unwritten, TypeInv, TypeOK, Writers
<1>4. \A p : Held(p)' <=> Held(p)
  BY <1>1, <1>2 DEF Held
<1>5. OnceEach'
  BY <1>1, <1>2 DEF PinInv, OnceEach
<1>6. HeldSafe'
  BY <1>2, <1>3, <1>4 DEF PinInv, HeldSafe, Offered, Writing
<1>7. KpageSafe'
  BY <1>2, <1>3, <1>4 DEF PinInv, KpageSafe
<1>8. LocksSafe'
  BY <1>2, <1>3 DEF PinInv, LocksSafe, TypeInv, TypeOK
<1>9. CleanSafe'
  BY <1>4 DEF PinInv, CleanSafe
<1> QED
  BY <1>5, <1>6, <1>7, <1>8, <1>9 DEF PinInv

(* Queueing, with or without the oldest page taken off the ring first,     *)
(* keeps the invariant.                                                    *)
LEMMA PinEnqueue ==
    ASSUME TypeInv, PinInv, Enqueue
    PROVE  PinInv'
<1> DEFINE rest == IF MakesRoom THEN Tail(fifo) ELSE fifo
           room == Len(rest) < FifoSize
<1>1. /\ kpc = "enqueue" /\ kpage \in Pages /\ at["kswapd"] = "none"
      /\ ~Held(kpage) /\ lock[kpage] = "kswapd" /\ slot[kpage] # Nobody
      /\ mem[kpage] = TRUE /\ fifo \in Seq(Pages) /\ Distinct(fifo)
  BY DEF Enqueue, TypeInv, TypeOK, KswapdOK, PinInv, KpageSafe, OnceEach, Locking
<1>2. /\ fifo' = IF room THEN Append(rest, kpage) ELSE rest
      /\ kret' = IF room THEN "finish" ELSE "sync"
      /\ kpc' = IF MakesRoom THEN "head" ELSE kret'
      /\ at' = IF MakesRoom THEN [at EXCEPT !["kswapd"] = "check"] ELSE at
      /\ cur' = IF MakesRoom THEN [cur EXCEPT !["kswapd"] = Head(fifo)] ELSE cur
      /\ UNCHANGED <<mem, slot, lock, wb, dev, kpage>>
  BY DEF Enqueue, swapout
<1>3. MakesRoom => fifo # <<>>
  BY DEF Enqueue, Refuses, NoRoom, MakesRoom
<1>4. /\ rest \in Seq(Pages) /\ Distinct(rest)
      /\ MakesRoom => /\ Listed(fifo) = Listed(rest) \cup {Head(fifo)}
                      /\ Head(fifo) \notin Listed(rest)
      /\ ~MakesRoom => rest = fifo
  <2>1. CASE MakesRoom
    <3>1. rest = Tail(fifo) /\ fifo # <<>> /\ Tail(fifo) \in Seq(Pages)
      BY <1>1, <1>3, <2>1
    <3> QED
      BY <1>1, <2>1, <3>1, RingTail
  <2>2. CASE ~MakesRoom
    BY <1>1, <2>2
  <2> QED
    BY <2>1, <2>2
<1> HIDE DEF rest, room
<1>5. MakesRoom => kpage # Head(fifo)
  BY <1>1, <1>4 DEF Held
<1>6. kpage \notin Listed(rest)
  BY <1>1, <1>4 DEF Held
<1>7. Distinct(fifo') /\ Listed(fifo') = IF room THEN Listed(rest) \cup {kpage}
                                                ELSE Listed(rest)
  <2>1. /\ Distinct(Append(rest, kpage))
        /\ Listed(Append(rest, kpage)) = Listed(rest) \cup {kpage}
    BY <1>1, <1>4, <1>6, RingAppend
  <2> QED
    BY <1>2, <1>4, <2>1
<1>8. /\ Unwritten' = IF MakesRoom THEN Unwritten \cup {"kswapd"} ELSE Unwritten
      /\ "kswapd" \in Writers /\ "kswapd" \notin Unwritten
      /\ Unwritten \subseteq Writers
      /\ \A d \in Unwritten : cur'[d] = cur[d]
      /\ MakesRoom => cur'["kswapd"] = Head(fifo)
      /\ \A d \in Writers : at'[d] = "write" <=> at[d] = "write"
      /\ \A d \in Writers : at[d] = "write" => d \in Unwritten
      /\ at'["kswapd"] # "none" => MakesRoom
  BY <1>1, <1>2 DEF Unwritten, TypeInv, TypeOK, Writers
<1>9. \A p : Held(p)' <=> Held(p) \/ (room /\ p = kpage)
  BY <1>4, <1>7, <1>8 DEF Held
<1>10. OnceEach'
  <2>1. \A c \in Unwritten : cur[c] \notin Listed(fifo) /\ cur[c] # kpage
    BY <1>1 DEF PinInv, OnceEach, Held
  <2> QED
    BY <1>4, <1>5, <1>7, <1>8, <2>1 DEF PinInv, OnceEach
<1>11. HeldSafe'
  <2>1. room => Offered(kpage)'
    BY <1>2 DEF Offered
  <2>2. \A p \in Pages : ~Offered(p) /\ (Writing(p)' <=> Writing(p))
    BY <1>1, <1>8 DEF Offered, Writing
  <2> QED
    BY <1>1, <1>2, <1>9, <2>1, <2>2 DEF PinInv, HeldSafe
<1>12. KpageSafe'
  BY <1>1, <1>2, <1>5, <1>8, <1>9 DEF KpageSafe, Locking
<1>13. LocksSafe'
  BY <1>1, <1>2, <1>8 DEF PinInv, LocksSafe, TypeInv, TypeOK, Locking
<1>14. CleanSafe'
  BY <1>1, <1>2, <1>9 DEF PinInv, CleanSafe, Locking
<1> QED
  BY <1>10, <1>11, <1>12, <1>13, <1>14 DEF PinInv

(* Every step of a tree with the pin keeps the invariant.                  *)
LEMMA PinNext ==
    ASSUME WbPin, TypeInv, PinInv, [Next]_vars
    PROVE  PinInv'
<1> USE KcompressdAssumption
    DEF PinInv, OnceEach, HeldSafe, KpageSafe, LocksSafe, CleanSafe, Held,
        Offered, Writing, Unwritten, Locking, TypeInv, TypeOK, KswapdOK, page,
        kswapd, swapout
<1>1. ASSUME NEW p \in Pages, NEW s \in Slots, ScanMapped(p, s) PROVE PinInv'
  BY <1>1 DEF ScanMapped, Writers, FreeSlots
<1>2. ASSUME NEW p \in Pages, ScanClean(p) PROVE PinInv'
  BY <1>2 DEF ScanClean, Writers
<1>3. ASSUME NEW p \in Pages, SwapIn(p) PROVE PinInv'
  BY <1>3 DEF SwapIn
<1>4. ASSUME NEW p \in Pages, ExtLock(p) PROVE PinInv'
  BY <1>4 DEF ExtLock, Writers
<1>5. ASSUME NEW p \in Pages, ExtFreeSwap(p) PROVE PinInv'
  BY <1>5 DEF ExtFreeSwap, Writers
<1>6. ASSUME NEW p \in Pages, ExtUnlock(p) PROVE PinInv'
  BY <1>6 DEF ExtUnlock, Unlocked, Writers
<1>7. CASE StoreRefuse
  BY <1>7 DEF StoreRefuse
<1>8. CASE Store
  BY <1>8 DEF Store
<1>9. CASE EnqueueRefuse
  BY <1>9 DEF EnqueueRefuse
<1>10. CASE Enqueue
  BY <1>10, PinEnqueue
<1>11. CASE HeadDone
  BY <1>11 DEF HeadDone
<1>12. CASE OffloadReturn
  <2>1. kpage \in Pages /\ at["kswapd"] = "none" /\ lock[kpage] = "kswapd"
    BY <1>12 DEF OffloadReturn, Writers
  <2>2. /\ wb' = [wb EXCEPT ![kpage] = TRUE] /\ kpc' = "success"
        /\ lock' = [lock EXCEPT ![kpage] = Nobody]
        /\ UNCHANGED <<mem, slot, dev, fifo, kpage, kret, at, cur>>
    BY <1>12 DEF OffloadReturn, Pin, Unlocked
  <2>3. OnceEach' /\ HeldSafe'
    BY <2>1, <2>2
  <2>4. KpageSafe' /\ LocksSafe'
    BY <2>1, <2>2 DEF Writers
  <2>5. CleanSafe'
    <3>1. Held(kpage)
      BY <1>12 DEF OffloadReturn
    <3>2. \A p : Held(p)' <=> Held(p)
      BY <2>2
    <3> HIDE DEF Held
    <3> QED
      BY <1>12, <2>2, <3>1, <3>2 DEF OffloadReturn
  <2> QED
    BY <2>3, <2>4, <2>5
<1>13. CASE SyncWrite
  <2>1. /\ kpage \in Pages /\ at["kswapd"] = "none" /\ lock[kpage] = "kswapd"
        /\ slot[kpage] \in Slots /\ ~Held(kpage)
    BY <1>13 DEF SyncWrite, Writers
  <2>2. /\ dev' = [dev EXCEPT ![slot[kpage]] = kpage] /\ kpc' = "success"
        /\ lock' = [lock EXCEPT ![kpage] = Nobody] /\ kpc = "sync"
        /\ UNCHANGED <<mem, slot, wb, fifo, kpage, kret, at, cur>>
    BY <1>13 DEF SyncWrite, Unlocked
  <2>3. OnceEach' /\ HeldSafe'
    BY <2>1, <2>2
  <2>4. KpageSafe' /\ LocksSafe'
    BY <2>1, <2>2 DEF Writers
  <2>5. ASSUME NEW p \in Pages, slot[p] # Nobody, ~Held(p) PROVE dev'[slot[p]] = p
    <3>1. CASE p = kpage
      BY <2>1, <2>2, <3>1
    <3>2. CASE p # kpage
      <4>1. slot[p] \in Slots /\ slot[p] # slot[kpage] /\ dev[slot[p]] = p
        BY <2>1, <2>5, <3>2
      <4> QED
        BY <2>1, <2>2, <4>1
    <3> QED
      BY <3>1, <3>2
  <2>6. CleanSafe'
    BY <2>2, <2>5
  <2> QED
    BY <2>3, <2>4, <2>6
<1>14. CASE PageSuccess
  BY <1>14 DEF PageSuccess
<1>15. CASE EndList
  BY <1>15 DEF EndList
<1>16. CASE WaitParked
  BY <1>16 DEF WaitParked
<1>17. ASSUME NEW c \in Writers, SwapoutCheck(c) PROVE PinInv'
  <2>1. cur[c] \in Pages /\ Held(cur[c]) /\ slot[cur[c]] # Nobody
    BY <1>17 DEF SwapoutCheck
  <2>2. /\ at' = [at EXCEPT ![c] = "lock"] /\ at[c] = "check"
        /\ UNCHANGED <<mem, slot, lock, wb, dev, fifo, kpc, kpage, kret, cur>>
    BY <1>17, <2>1 DEF SwapoutCheck
  <2>3. Unwritten' = Unwritten /\ \A d \in Writers : at'[d] = "write" <=> at[d] = "write"
    BY <2>2
  <2>4. at'["kswapd"] # "none" <=> at["kswapd"] # "none"
    BY <2>2 DEF Writers
  <2> HIDE DEF Unwritten
  <2> QED
    BY <2>2, <2>3, <2>4 DEF Writers
<1>18. ASSUME NEW c \in Writers, SwapoutLock(c) PROVE PinInv'
  BY <1>18 DEF SwapoutLock, EndPin, Writers
<1>19. ASSUME NEW c \in Writers, SwapoutWrite(c) PROVE PinInv'
  BY <1>19 DEF SwapoutWrite, Unlocked, Writers
<1>20. ASSUME NEW c \in Writers, SwapoutPut(c) PROVE PinInv'
  <2>1. /\ at' = [at EXCEPT ![c] = "none"] /\ at[c] = "put"
        /\ cur' = [cur EXCEPT ![c] = Nobody]
        /\ UNCHANGED <<mem, slot, lock, wb, dev, fifo, kpc, kpage, kret>>
    BY <1>20 DEF SwapoutPut
  <2>2. /\ Unwritten' = Unwritten
        /\ \A d \in Unwritten : cur'[d] = cur[d] /\ at'[d] = at[d]
        /\ \A d \in Writers : at'[d] = "write" => d \in Unwritten
        /\ \A d \in Writers : at[d] = "write" => d \in Unwritten
    BY <2>1
  <2>3. /\ at'["kswapd"] # "none" => at["kswapd"] # "none"
        /\ "kswapd" \in Writers
    BY <2>1 DEF Writers
  <2>4. Unwritten \subseteq Writers
    OBVIOUS
  <2> HIDE DEF Unwritten
  <2> QED
    BY <2>1, <2>2, <2>3, <2>4
<1>21. CASE DrainTop
  BY <1>21 DEF DrainTop
<1>22. CASE DrainWait
  BY <1>22 DEF DrainWait
<1>23. CASE DrainPop
  <2>1. CASE fifo # <<>>
    <3>1. /\ at' = [at EXCEPT !["drain"] = "check"] /\ fifo' = Tail(fifo)
          /\ cur' = [cur EXCEPT !["drain"] = Head(fifo)] /\ at["drain"] = "none"
          /\ UNCHANGED <<mem, slot, lock, wb, dev, kpc, kpage, kret>>
      BY <1>23, <2>1 DEF DrainPop
    <3> QED
      BY <2>1, <3>1, PinPop DEF Writers
  <2>2. CASE fifo = <<>>
    BY <1>23, <2>2 DEF DrainPop
  <2> QED
    BY <2>1, <2>2
<1>24. CASE AddAlloc
  BY <1>24 DEF AddAlloc
<1>25. ASSUME NEW ok \in BOOLEAN, AddCreate(ok) PROVE PinInv'
  BY <1>25 DEF AddCreate
<1>26. CASE DelNull
  BY <1>26 DEF DelNull
<1>27. CASE DelWake
  BY <1>27 DEF DelWake, Woken
<1>28. CASE DelStop
  BY <1>28 DEF DelStop, Woken
<1>29. CASE DelJoin
  BY <1>29 DEF DelJoin
<1>30. CASE DelDrain
  <2>1. CASE fifo # <<>>
    <3>1. /\ at' = [at EXCEPT !["del"] = "check"] /\ fifo' = Tail(fifo)
          /\ cur' = [cur EXCEPT !["del"] = Head(fifo)] /\ at["del"] = "none"
          /\ UNCHANGED <<mem, slot, lock, wb, dev, kpc, kpage, kret>>
      BY <1>30, <2>1 DEF DelDrain
    <3> QED
      BY <2>1, <3>1, PinPop DEF Writers
  <2>2. CASE fifo = <<>>
    BY <1>30, <2>2 DEF DelDrain
  <2> QED
    BY <2>1, <2>2
<1>31. ASSUME NEW t \in Thresholds, SetThreshold(t) PROVE PinInv'
  BY <1>31 DEF SetThreshold
<1>32. CASE UNCHANGED vars
  BY <1>32 DEF vars
<1> HIDE DEF PinInv, OnceEach, HeldSafe, KpageSafe, LocksSafe, CleanSafe, Held,
        Offered, Writing, Unwritten, Locking, TypeInv, TypeOK, KswapdOK, page,
        kswapd, swapout
<1> QED
  BY <1>1, <1>2, <1>3, <1>4, <1>5, <1>6, <1>7, <1>8, <1>9, <1>10, <1>11,
     <1>12, <1>13, <1>14, <1>15, <1>16, <1>17, <1>18, <1>19, <1>20, <1>21, <1>22,
     <1>23, <1>24, <1>25, <1>26, <1>27, <1>28, <1>29, <1>30, <1>31, <1>32
     DEF Next, External, KswapdStep, DrainStep, HotplugStep, SwapoutStep

(* With the batch 71 pin a page waits for its deferred write at most once  *)
(* and keeps its swap slot for as long as it waits.                        *)
THEOREM QueuedKeepsSlot ==
    ASSUME WbPin PROVE Spec => []SlotPinned
<1>1. TypeInv /\ PinInv => SlotPinned
  <2> SUFFICES ASSUME TypeInv, PinInv PROVE SlotPinned
    OBVIOUS
  <2>1. \A i \in 1..Len(fifo) : fifo[i] \in Listed(fifo) /\ fifo[i] \in Pages
    BY DEF TypeInv, TypeOK, Listed
  <2>2. \A c \in Unwritten : cur[c] \in Pages
    BY DEF TypeInv, KswapdOK, Unwritten
  <2> QED
    BY <2>1, <2>2 DEF SlotPinned, PinInv, OnceEach, HeldSafe, Held, Distinct
<1> QED
  BY <1>1, TypeInit, TypeNext, PinInit, PinNext, PTL DEF Spec

(* With the pin, the data of every page that has left memory is in its     *)
(* swap slot: deferring the write loses no page and mixes up no slots.     *)
THEOREM SwapOutLosesNothing ==
    ASSUME WbPin PROVE Spec => []SwappedOutIsReadable
<1>1. PinInv => SwappedOutIsReadable
  BY DEF PinInv, HeldSafe, KpageSafe, CleanSafe, SwappedOutIsReadable
<1> QED
  BY <1>1, TypeInit, TypeNext, PinInit, PinNext, PTL DEF Spec

(* With the pin, kswapd never waits for a page lock it holds itself, so    *)
(* writing the oldest page in line cannot deadlock it.                     *)
THEOREM KswapdNeverWaitsForItself ==
    ASSUME WbPin PROVE Spec => []NoSelfLock
<1>1. TypeInv /\ PinInv => NoSelfLock
  BY DEF TypeInv, TypeOK, KswapdOK, PinInv, KpageSafe, LocksSafe, NoSelfLock,
         Unwritten, Writers
<1> QED
  BY <1>1, TypeInit, TypeNext, PinInit, PinNext, PTL DEF Spec

-----------------------------------------------------------------------------
(* The life of the ring                                                    *)

(* Nothing is queued on a node without a thread but what the teardown has  *)
(* still to write; the ring is freed only when that is done.               *)
NodeOK ==
    /\ task => ring /\ hpc = "idle"
    /\ fifo # <<>> => ring
    /\ hpc # "idle" => ring
    /\ ~task /\ hpc \in {"idle", "create"} => fifo = <<>>

(* Every step keeps that: only a node with a thread is queued on, and the  *)
(* steps that neither queue nor add or remove the node leave all of it.    *)
LEMMA NodeNext == TypeInv /\ NodeOK /\ [Next]_vars => NodeOK'
<1> SUFFICES ASSUME TypeInv, NodeOK, [Next]_vars PROVE NodeOK'
  OBVIOUS
<1>0. ring \in BOOLEAN /\ task \in BOOLEAN
  BY DEF TypeInv, TypeOK
<1>1. ASSUME UNCHANGED <<task, ring, hpc>>, fifo' = fifo \/ fifo # <<>> \/ task
      PROVE  NodeOK'
  BY <1>0, <1>1, Zenon DEF NodeOK
<1>2. ASSUME External PROVE NodeOK'
  <2>1. CASE UNCHANGED <<task, ring, hpc, fifo>>
    BY <1>1, <2>1
  <2>2. CASE AddAlloc
    BY <1>0, <2>2, Zenon DEF AddAlloc, NodeOK
  <2>3. CASE DelNull
    BY <1>0, <2>3, Zenon DEF DelNull, NodeOK
  <2> QED
    BY <1>2, <2>1, <2>2, <2>3
       DEF External, ScanMapped, ScanClean, SwapIn, ExtLock, ExtFreeSwap, SetThreshold
<1>3. ASSUME KswapdStep \/ EndList PROVE NodeOK'
  <2>1. CASE Enqueue
    <3>1. task /\ UNCHANGED <<task, ring, hpc>>
      BY <2>1 DEF Enqueue, Refuses
    <3> QED
      BY <1>1, <3>1
  <2>2. CASE UNCHANGED <<task, ring, hpc, fifo>>
    BY <1>1, <2>2
  <2> QED
    BY <1>3, <2>1, <2>2
       DEF KswapdStep, StoreRefuse, Store, EnqueueRefuse, HeadDone, OffloadReturn,
           SyncWrite, PageSuccess, WaitParked, EndList
<1>4. ASSUME DrainStep PROVE NodeOK'
  <2>1. UNCHANGED <<task, ring, hpc>> /\ (fifo' = fifo \/ fifo # <<>>)
    BY <1>4 DEF DrainStep, DrainTop, DrainWait, DrainPop
  <2> QED
    BY <1>1, <2>1
<1>5. ASSUME HotplugStep PROVE NodeOK'
  <2>1. ASSUME NEW ok \in BOOLEAN, AddCreate(ok) PROVE NodeOK'
    BY <1>0, <2>1, Zenon DEF AddCreate, NodeOK
  <2>2. ASSUME DelWake \/ DelStop \/ DelJoin PROVE NodeOK'
    <3>1. hpc \in {"wake", "stop", "join"} /\ hpc' \in {"stop", "join", "drain"}
      BY <2>2 DEF DelWake, DelStop, DelJoin
    <3>2. UNCHANGED <<task, ring, fifo>>
      BY <2>2 DEF DelWake, DelStop, DelJoin
    <3> QED
      BY <1>0, <3>1, <3>2 DEF NodeOK
  <2>3. CASE DelDrain
    <3>1. CASE fifo # <<>>
      <4>1. hpc = "drain" /\ UNCHANGED <<task, ring, hpc>>
        BY <2>3, <3>1 DEF DelDrain
      <4> QED
        BY <1>1, <3>1, <4>1
    <3>2. CASE fifo = <<>>
      <4>1. /\ hpc = "drain" /\ ring' = FALSE /\ hpc' = "idle" /\ fifo' = <<>>
            /\ task' = task
        BY <2>3, <3>2 DEF DelDrain
      <4> QED
        BY <1>0, <4>1 DEF NodeOK
    <3> QED
      BY <3>1, <3>2
  <2> QED
    BY <1>5, <2>1, <2>2, <2>3 DEF HotplugStep
<1>6. ASSUME NEW c \in Writers, SwapoutStep(c) \/ SwapoutLock(c)
      PROVE  UNCHANGED <<task, ring, hpc, fifo>>
  BY <1>6 DEF SwapoutStep, SwapoutCheck, SwapoutLock, SwapoutWrite, SwapoutPut
<1>7. ASSUME NEW p \in Pages, ExtUnlock(p) PROVE UNCHANGED <<task, ring, hpc, fifo>>
  BY <1>7 DEF ExtUnlock
<1>8. CASE UNCHANGED vars
  BY <1>1, <1>8 DEF vars
<1> QED
  BY <1>1, <1>2, <1>3, <1>4, <1>5, <1>6, <1>7, <1>8 DEF Next

(* No page is ever in a ring that is freed, with or without the pin.       *)
THEOREM RingOutlivesPages == Spec => []RingAlive
<1>1. Init => NodeOK
  BY DEF Init, NodeOK
<1>2. NodeOK => RingAlive
  BY DEF NodeOK, RingAlive
<1> QED
  BY <1>1, <1>2, TypeInit, TypeNext, NodeNext, PTL DEF Spec

-----------------------------------------------------------------------------
(* References and the depth                                                *)

(* The places of a page in a ring; the writers with a page, and with this. *)
Places(q, p) == {i \in DOMAIN q : q[i] = p}
Busy(a) == {w \in Writers : a[w] # "none"}
BusyWith(a, c, p) == {w \in Writers : a[w] # "none" /\ c[w] = p}

(* One reference for every place in the ring and for every writer; every   *)
(* queued page and every busy writer counts as depth.                      *)
Refs(q, a, c, r) ==
    \A p \in Pages : r[p] = Cardinality(Places(q, p)) + Cardinality(BusyWith(a, c, p))
Depth(q, a, d) == d = Len(q) + Cardinality(Busy(a))
RefsOK  == Refs(fifo, at, cur, refs)
DepthOK == Depth(fifo, at, depth)

(* kswapd has a page to write only while it makes room in the ring.        *)
KswapdBusy == at["kswapd"] # "none" => kpc = "head"

(* The places of a page are finitely many; a page more at the end is one   *)
(* place more for that page.                                               *)
LEMMA PlacesAppend ==
    ASSUME NEW q \in Seq(Pages), NEW x \in Pages, NEW p
    PROVE  /\ IsFiniteSet(Places(q, p)) /\ Cardinality(Places(q, p)) \in Nat
           /\ Cardinality(Places(Append(q, x), p)) =
                 Cardinality(Places(q, p)) + (IF x = p THEN 1 ELSE 0)
<1> DEFINE r == Append(q, x)
           n == Len(q)
<1>1. /\ n \in Nat /\ DOMAIN q = 1..n /\ DOMAIN r = 1..(n + 1)
      /\ r[n + 1] = x /\ \A i \in 1..n : r[i] = q[i]
  OBVIOUS
<1> HIDE DEF r, n
<1>2. IsFiniteSet(1..n)
  <2>1. 1 \in Int /\ n \in Int
    BY <1>1
  <2> QED
    BY <2>1, FS_Interval, Zenon
<1>3. IsFiniteSet(Places(q, p)) /\ Cardinality(Places(q, p)) \in Nat
  <2>1. Places(q, p) \in SUBSET (1..n)
    BY <1>1 DEF Places
  <2> QED
    BY <1>2, <2>1, FS_Subset, FS_CardinalityType
<1>4. n + 1 \notin Places(q, p)
  BY <1>1 DEF Places
<1>5. Places(r, p) = IF x = p THEN Places(q, p) \cup {n + 1} ELSE Places(q, p)
  BY <1>1 DEF Places
<1>6. Cardinality(Places(q, p) \cup {n + 1}) = Cardinality(Places(q, p)) + 1
  BY <1>3, <1>4, FS_AddElement
<1> QED
  BY <1>3, <1>5, <1>6 DEF r

(* The oldest page off the ring is one place less for that page.           *)
LEMMA PlacesTail ==
    ASSUME NEW q \in Seq(Pages), q # <<>>, NEW p
    PROVE  Cardinality(Places(q, p)) =
              Cardinality(Places(Tail(q), p)) + (IF Head(q) = p THEN 1 ELSE 0)
<1> DEFINE r == Tail(q)
           n == Len(q)
           T == Places(r, p)
           R == Places(q, p) \ {1}
           f == [i \in T |-> i + 1]
<1>1. /\ n \in Nat \ {0} /\ DOMAIN q = 1..n /\ DOMAIN r = 1..(n - 1)
      /\ Head(q) = q[1] /\ \A i \in 1..(n - 1) : r[i] = q[i + 1]
  OBVIOUS
<1> HIDE DEF r, n
<1>2. /\ IsFiniteSet(Places(q, p)) /\ Cardinality(Places(q, p)) \in Nat
      /\ IsFiniteSet(T)
  <2>1. \A m \in Nat : IsFiniteSet(1..m)
    <3>1. ASSUME NEW m \in Nat PROVE IsFiniteSet(1..m)
      <4>1. 1 \in Int /\ m \in Int
        OBVIOUS
      <4> QED
        BY <4>1, FS_Interval, Zenon
    <3> QED
      BY <3>1
  <2>2. n \in Nat /\ n - 1 \in Nat
    BY <1>1
  <2>3. Places(q, p) \in SUBSET (1..n) /\ T \in SUBSET (1..(n - 1))
    BY <1>1 DEF Places
  <2> QED
    BY <2>1, <2>2, <2>3, FS_Subset, FS_CardinalityType
<1>3. f \in Bijection(T, R)
  <2>0. \A i \in T : i \in 1..(n - 1) /\ q[i + 1] = p
    BY <1>1 DEF Places
  <2>1. \A i \in T : i \in Int /\ f[i] = i + 1 /\ f[i] \in R
    BY <1>1, <2>0 DEF Places
  <2>2. \A j \in R : j \in 1..n /\ j # 1 /\ q[j] = p
    BY <1>1 DEF Places
  <2>3. \A j \in R : j - 1 \in T /\ j = (j - 1) + 1
    BY <1>1, <2>2 DEF Places
  <2>4. f \in [T -> R]
    BY <2>1
  <2>5. \A i, j \in T : f[i] = f[j] => i = j
    BY <2>1
  <2>6. \A j \in R : \E i \in T : f[i] = j
    BY <2>1, <2>3
  <2> HIDE DEF f, T, R
  <2> QED
    BY <2>4, <2>5, <2>6, Zenon DEF Bijection, Injection, Surjection, IsInjective
<1>4. Cardinality(R) = Cardinality(T)
  <2>1. ExistsBijection(T, R)
    BY <1>3, Zenon DEF ExistsBijection
  <2> HIDE DEF T, R
  <2> QED
    BY <1>2, <2>1, FS_Bijection
<1>5. 1 \in Places(q, p) <=> Head(q) = p
  BY <1>1 DEF Places
<1>6. Cardinality(R) = IF 1 \in Places(q, p) THEN Cardinality(Places(q, p)) - 1
                                             ELSE Cardinality(Places(q, p))
  BY <1>2, FS_RemoveElement
<1> QED
  BY <1>2, <1>4, <1>5, <1>6 DEF r

(* The writers are three.                                                  *)
LEMMA FewWriters ==
    ASSUME NEW S \in SUBSET Writers
    PROVE  IsFiniteSet(S) /\ Cardinality(S) \in Nat
<1>1. IsFiniteSet({"kswapd"} \cup {"drain"} \cup {"del"})
  <2>1. IsFiniteSet({"kswapd"})
    BY FS_Singleton
  <2>2. IsFiniteSet({"kswapd"} \cup {"drain"})
    BY <2>1, FS_AddElement
  <2> QED
    BY <2>2, FS_AddElement
<1>2. Writers = {"kswapd"} \cup {"drain"} \cup {"del"}
  BY DEF Writers
<1> QED
  BY <1>1, <1>2, FS_Subset, FS_CardinalityType

(* A writer that takes a page is one more at work.                         *)
LEMMA OneMoreBusy ==
    ASSUME NEW a, NEW b, NEW w \in Writers, a[w] = "none", b[w] # "none",
           \A v \in Writers \ {w} : b[v] = a[v]
    PROVE  Cardinality(Busy(b)) = Cardinality(Busy(a)) + 1
<1>1. IsFiniteSet(Busy(a))
  <2>1. Busy(a) \in SUBSET Writers
    BY DEF Busy
  <2> QED
    BY <2>1, FewWriters
<1>2. w \notin Busy(a) /\ Busy(b) = Busy(a) \cup {w}
  BY DEF Busy
<1> QED
  BY <1>1, <1>2, FS_AddElement

(* It is one more with that page, and no more with any other.              *)
LEMMA WriterTakes ==
    ASSUME NEW a, NEW c, NEW b, NEW d, NEW w \in Writers, NEW p, a[w] = "none", b[w] # "none",
           \A v \in Writers \ {w} : b[v] = a[v] /\ d[v] = c[v]
    PROVE  Cardinality(BusyWith(b, d, p)) =
              Cardinality(BusyWith(a, c, p)) + (IF d[w] = p THEN 1 ELSE 0)
<1>1. IsFiniteSet(BusyWith(a, c, p)) /\ Cardinality(BusyWith(a, c, p)) \in Nat
  <2>1. BusyWith(a, c, p) \in SUBSET Writers
    BY DEF BusyWith
  <2> QED
    BY <2>1, FewWriters
<1>2. /\ w \notin BusyWith(a, c, p)
      /\ BusyWith(b, d, p) = IF d[w] = p THEN BusyWith(a, c, p) \cup {w}
                                         ELSE BusyWith(a, c, p)
  BY DEF BusyWith
<1>3. Cardinality(BusyWith(a, c, p) \cup {w}) = Cardinality(BusyWith(a, c, p)) + 1
  BY <1>1, <1>2, FS_AddElement
<1> QED
  BY <1>1, <1>2, <1>3

(* The writer w is done with its page, nobody else moves.                  *)
Holds(c, w, p) == IF c[w] = p THEN 1 ELSE 0
Leaves(a, c, b, d, w) ==
    /\ a[w] # "none" /\ b[w] = "none"
    /\ \A v \in Writers \ {w} : b[v] = a[v] /\ d[v] = c[v]

(* It is one less with its page.                                           *)
LEMMA WriterLeaves ==
    ASSUME NEW a, NEW c, NEW b, NEW d, NEW w \in Writers, NEW p, Leaves(a, c, b, d, w)
    PROVE  Cardinality(BusyWith(a, c, p)) = Cardinality(BusyWith(b, d, p)) + Holds(c, w, p)
<1>1. /\ a[w] # "none" /\ b[w] = "none"
      /\ \A v \in Writers \ {w} : b[v] = a[v] /\ d[v] = c[v]
  BY DEF Leaves
<1>2. IsFiniteSet(BusyWith(b, d, p)) /\ Cardinality(BusyWith(b, d, p)) \in Nat
  <2>1. BusyWith(b, d, p) \in SUBSET Writers
    BY DEF BusyWith
  <2> QED
    BY <2>1, FewWriters
<1>3. /\ w \notin BusyWith(b, d, p)
      /\ BusyWith(a, c, p) = IF c[w] = p THEN BusyWith(b, d, p) \cup {w}
                                         ELSE BusyWith(b, d, p)
  BY <1>1 DEF BusyWith
<1>4. Cardinality(BusyWith(b, d, p) \cup {w}) = Cardinality(BusyWith(b, d, p)) + 1
  BY <1>2, <1>3, FS_AddElement
<1> QED
  BY <1>2, <1>3, <1>4 DEF Holds

(* Taking the oldest page keeps the references and the depth: the page has *)
(* gone from the ring to a writer.                                         *)
LEMMA TakeOldest ==
    ASSUME NEW q \in Seq(Pages), q # <<>>, NEW a, NEW c, NEW b, NEW d, NEW r, NEW n,
           NEW w \in Writers, a[w] = "none", b[w] # "none", d[w] = Head(q),
           \A v \in Writers \ {w} : b[v] = a[v] /\ d[v] = c[v]
    PROVE  /\ Refs(q, a, c, r) => Refs(Tail(q), b, d, r)
           /\ Depth(q, a, n) => Depth(Tail(q), b, n)
<1>1. ASSUME NEW p \in Pages, r[p] = Cardinality(Places(q, p)) + Cardinality(BusyWith(a, c, p))
      PROVE  r[p] = Cardinality(Places(Tail(q), p)) + Cardinality(BusyWith(b, d, p))
  <2> DEFINE k == IF Head(q) = p THEN 1 ELSE 0
  <2>1. Cardinality(Places(q, p)) = Cardinality(Places(Tail(q), p)) + k
    BY PlacesTail
  <2>2. Cardinality(BusyWith(b, d, p)) = Cardinality(BusyWith(a, c, p)) + k
    BY WriterTakes
  <2>3. /\ Cardinality(Places(Tail(q), p)) \in Nat
        /\ Cardinality(BusyWith(a, c, p)) \in Nat /\ k \in Nat
    <3>1. Tail(q) \in Seq(Pages) /\ Head(q) \in Pages
      OBVIOUS
    <3>2. BusyWith(a, c, p) \in SUBSET Writers
      BY DEF BusyWith
    <3> QED
      BY <3>1, <3>2, PlacesAppend, FewWriters
  <2> HIDE DEF k
  <2> QED
    BY <1>1, <2>1, <2>2, <2>3
<1>2. ASSUME n = Len(q) + Cardinality(Busy(a)) PROVE n = Len(Tail(q)) + Cardinality(Busy(b))
  <2>1. Cardinality(Busy(b)) = Cardinality(Busy(a)) + 1
    BY OneMoreBusy
  <2>2. Cardinality(Busy(a)) \in Nat
    <3>1. Busy(a) \in SUBSET Writers
      BY DEF Busy
    <3> QED
      BY <3>1, FewWriters
  <2>3. Len(Tail(q)) = Len(q) - 1 /\ Len(q) \in Nat
    OBVIOUS
  <2> QED
    BY <1>2, <2>1, <2>2, <2>3
<1> QED
  BY <1>1, <1>2 DEF Refs, Depth

(* Queueing a page takes one reference to it and is one deeper.            *)
LEMMA QueueOne ==
    ASSUME NEW q \in Seq(Pages), NEW x \in Pages, NEW a, NEW c, NEW r \in [Pages -> Int],
           NEW n \in Int
    PROVE  /\ Refs(q, a, c, r) => Refs(Append(q, x), a, c, [r EXCEPT ![x] = r[x] + 1])
           /\ Depth(q, a, n) => Depth(Append(q, x), a, n + 1)
<1> DEFINE s == [r EXCEPT ![x] = r[x] + 1]
<1>1. ASSUME NEW p \in Pages, r[p] = Cardinality(Places(q, p)) + Cardinality(BusyWith(a, c, p))
      PROVE  s[p] = Cardinality(Places(Append(q, x), p)) + Cardinality(BusyWith(a, c, p))
  <2> DEFINE k == IF x = p THEN 1 ELSE 0
  <2>1. s[p] = r[p] + k
    OBVIOUS
  <2>2. /\ Cardinality(Places(Append(q, x), p)) = Cardinality(Places(q, p)) + k
        /\ Cardinality(Places(q, p)) \in Nat
    BY PlacesAppend
  <2>3. Cardinality(BusyWith(a, c, p)) \in Nat /\ k \in Nat
    <3>1. BusyWith(a, c, p) \in SUBSET Writers
      BY DEF BusyWith
    <3> QED
      BY <3>1, FewWriters
  <2> HIDE DEF k, s
  <2> QED
    BY <1>1, <2>1, <2>2, <2>3
<1>2. ASSUME n = Len(q) + Cardinality(Busy(a))
      PROVE  n + 1 = Len(Append(q, x)) + Cardinality(Busy(a))
  <2>1. Cardinality(Busy(a)) \in Nat
    <3>1. Busy(a) \in SUBSET Writers
      BY DEF Busy
    <3> QED
      BY <3>1, FewWriters
  <2>2. Len(Append(q, x)) = Len(q) + 1 /\ Len(q) \in Nat
    OBVIOUS
  <2> QED
    BY <1>2, <2>1, <2>2
<1> QED
  BY <1>1, <1>2 DEF Refs, Depth

(* A writer that is done with its page gives back the reference.           *)
LEMMA GiveBack ==
    ASSUME NEW q \in Seq(Pages), NEW a, NEW c, NEW b, NEW d, NEW r \in [Pages -> Int],
           NEW n \in Int, NEW w \in Writers, a[w] # "none", b[w] = "none", c[w] \in Pages,
           \A v \in Writers \ {w} : b[v] = a[v] /\ d[v] = c[v]
    PROVE  /\ Refs(q, a, c, r) => Refs(q, b, d, [r EXCEPT ![c[w]] = r[c[w]] - 1])
           /\ Depth(q, a, n) => Depth(q, b, n - 1)
<1> DEFINE s == [r EXCEPT ![c[w]] = r[c[w]] - 1]
<1>1. ASSUME NEW p \in Pages, r[p] = Cardinality(Places(q, p)) + Cardinality(BusyWith(a, c, p))
      PROVE  s[p] = Cardinality(Places(q, p)) + Cardinality(BusyWith(b, d, p))
  <2> DEFINE k == Holds(c, w, p)
  <2>1. s[p] = r[p] - k
    BY DEF Holds
  <2>2. Cardinality(BusyWith(a, c, p)) = Cardinality(BusyWith(b, d, p)) + k
    <3>1. Leaves(a, c, b, d, w)
      BY DEF Leaves
    <3> QED
      BY <3>1, WriterLeaves
  <2>3. /\ Cardinality(BusyWith(b, d, p)) \in Nat /\ k \in Nat
        /\ Cardinality(Places(q, p)) \in Nat
    <3>1. BusyWith(b, d, p) \in SUBSET Writers
      BY DEF BusyWith
    <3>2. Cardinality(Places(q, p)) \in Nat
      BY PlacesAppend
    <3> QED
      BY <3>1, <3>2, FewWriters DEF Holds
  <2> HIDE DEF k, s
  <2> QED
    BY <1>1, <2>1, <2>2, <2>3
<1>2. ASSUME n = Len(q) + Cardinality(Busy(a))
      PROVE  n - 1 = Len(q) + Cardinality(Busy(b))
  <2>1. Cardinality(Busy(a)) = Cardinality(Busy(b)) + 1
    <3>1. \A v \in Writers \ {w} : a[v] = b[v]
      OBVIOUS
    <3> QED
      BY <3>1, OneMoreBusy
  <2>2. Cardinality(Busy(b)) \in Nat /\ Len(q) \in Nat
    <3>1. Busy(b) \in SUBSET Writers
      BY DEF Busy
    <3> QED
      BY <3>1, FewWriters
  <2> QED
    BY <1>2, <2>1, <2>2
<1> QED
  BY <1>1, <1>2 DEF Refs, Depth

(* With the pin no writer finds its page without a slot.                   *)
Pinned == \A c \in Writers : at[c] = "check" => slot[cur[c]] # Nobody

(* Every step keeps the references, and the depth if no writer drops its   *)
(* page: the abandoned page would count as queued for ever.                *)
LEMMA RefsNext ==
    ASSUME TypeInv, KswapdBusy, RefsOK, [Next]_vars
    PROVE  KswapdBusy' /\ RefsOK' /\ (DepthOK /\ Pinned => DepthOK')
<1> DEFINE G == KswapdBusy' /\ RefsOK' /\ (DepthOK /\ Pinned => DepthOK')
<1>0. /\ fifo \in Seq(Pages) /\ refs \in [Pages -> Int] /\ depth \in Int
      /\ at \in [Writers -> {"none", "check", "lock", "write", "put"}]
      /\ cur \in [Writers -> Pages \cup {Nobody}]
      /\ \A c \in Writers : at[c] # "none" => cur[c] \in Pages
      /\ kpc \in {"store", "enqueue"} => kpage \in Pages
  BY DEF TypeInv, TypeOK, KswapdOK
<1>w. "kswapd" \in Writers /\ "drain" \in Writers /\ "del" \in Writers
  BY DEF Writers
<1>1. ASSUME UNCHANGED <<fifo, refs, depth, cur>>, NEW b, at' = b,
             \A c \in Writers : b[c] # "none" <=> at[c] # "none",
             kpc' = kpc \/ b["kswapd"] = "none"
      PROVE  G
  <2>1. Busy(b) = Busy(at) /\ \A p : BusyWith(b, cur, p) = BusyWith(at, cur, p)
    BY <1>1 DEF Busy, BusyWith
  <2>2. KswapdBusy'
    BY <1>1, <1>w DEF KswapdBusy
  <2>3. RefsOK' /\ (DepthOK => DepthOK')
    BY <1>1, <2>1 DEF RefsOK, DepthOK, Refs, Depth
  <2> QED
    BY <2>2, <2>3
<1>2. ASSUME UNCHANGED <<fifo, refs, depth, cur, at, kpc>> PROVE G
  BY <1>2 DEF KswapdBusy, RefsOK, DepthOK, Refs, Depth
<1>3. ASSUME UNCHANGED <<fifo, refs, depth, cur, at>>, at["kswapd"] = "none" PROVE G
  BY <1>3 DEF KswapdBusy, RefsOK, DepthOK, Refs, Depth
<1>4. ASSUME NEW w \in {"drain", "del"}, at[w] = "none", fifo # <<>>,
             at' = [at EXCEPT ![w] = "check"], cur' = [cur EXCEPT ![w] = Head(fifo)],
             fifo' = Tail(fifo), UNCHANGED <<refs, depth, kpc>>
      PROVE  G
  <2>1. /\ w \in Writers /\ at'[w] # "none" /\ cur'[w] = Head(fifo)
        /\ at'["kswapd"] = at["kswapd"]
        /\ \A v \in Writers \ {w} : at'[v] = at[v] /\ cur'[v] = cur[v]
    BY <1>0, <1>4, <1>w
  <2>2. /\ Refs(fifo, at, cur, refs) => Refs(Tail(fifo), at', cur', refs)
        /\ Depth(fifo, at, depth) => Depth(Tail(fifo), at', depth)
    BY <1>0, <1>4, <2>1, TakeOldest
  <2> QED
    BY <1>4, <2>1, <2>2 DEF RefsOK, DepthOK, KswapdBusy
<1>5. ASSUME NEW w \in Writers, at[w] # "none",
             at' = [at EXCEPT ![w] = "none"], cur' = [cur EXCEPT ![w] = Nobody],
             refs' = [refs EXCEPT ![cur[w]] = refs[cur[w]] - 1],
             depth' = depth - 1 \/ ~Pinned, UNCHANGED <<fifo, kpc>>
      PROVE  G
  <2>1. /\ at'[w] = "none" /\ cur[w] \in Pages
        /\ at'["kswapd"] = at["kswapd"] \/ at'["kswapd"] = "none"
        /\ \A v \in Writers \ {w} : at'[v] = at[v] /\ cur'[v] = cur[v]
    BY <1>0, <1>5, <1>w
  <2>2. /\ Refs(fifo, at, cur, refs) => Refs(fifo, at', cur', refs')
        /\ Depth(fifo, at, depth) => Depth(fifo, at', depth - 1)
    BY <1>0, <1>5, <2>1, GiveBack
  <2> QED
    BY <1>5, <2>1, <2>2 DEF RefsOK, DepthOK, KswapdBusy
<1>6. ASSUME Enqueue PROVE G
  <2> DEFINE rest == IF MakesRoom THEN Tail(fifo) ELSE fifo
             room == Len(rest) < FifoSize
  <2>0. /\ kpc = "enqueue" /\ kpage \in Pages /\ at["kswapd"] = "none"
        /\ MakesRoom => fifo # <<>>
    BY <1>0 , <1>6 DEF Enqueue, Refuses, NoRoom, MakesRoom, KswapdBusy
  <2>1. /\ IF room
           THEN /\ refs' = [refs EXCEPT ![kpage] = refs[kpage] + 1]
                /\ fifo' = Append(rest, kpage) /\ depth' = depth + 1
           ELSE fifo' = rest /\ UNCHANGED <<refs, depth>>
        /\ IF MakesRoom
           THEN /\ kpc' = "head" /\ at' = [at EXCEPT !["kswapd"] = "check"]
                /\ cur' = [cur EXCEPT !["kswapd"] = Head(fifo)]
           ELSE at' = at /\ cur' = cur
    BY <1>6 DEF Enqueue, GetPage, swapout
  <2>2. rest \in Seq(Pages)
    BY <1>0, <2>0
  <2>3. /\ Refs(fifo, at, cur, refs) => Refs(rest, at', cur', refs)
        /\ Depth(fifo, at, depth) => Depth(rest, at', depth)
    <3>1. CASE MakesRoom
      <4>1. /\ at'["kswapd"] # "none" /\ cur'["kswapd"] = Head(fifo)
            /\ \A v \in Writers \ {"kswapd"} : at'[v] = at[v] /\ cur'[v] = cur[v]
        BY <1>0, <1>w, <2>1, <3>1
      <4>2. rest = Tail(fifo) /\ fifo # <<>>
        BY <2>0, <3>1
      <4>3. /\ Refs(fifo, at, cur, refs) => Refs(Tail(fifo), at', cur', refs)
            /\ Depth(fifo, at, depth) => Depth(Tail(fifo), at', depth)
        <5>1. fifo \in Seq(Pages) /\ "kswapd" \in Writers
          BY <1>0, <1>w
        <5>2. at["kswapd"] = "none" /\ fifo # <<>>
          BY <2>0, <4>2
        <5> QED
          BY <4>1, <5>1, <5>2, TakeOldest, Zenon
      <4> HIDE DEF rest
      <4> QED
        BY <4>2, <4>3, Zenon
    <3>2. CASE ~MakesRoom
      BY <2>1, <3>2
    <3> QED
      BY <3>1, <3>2
  <2> HIDE DEF rest, room
  <2>4. /\ Refs(rest, at', cur', refs) =>
              Refs(Append(rest, kpage), at', cur', [refs EXCEPT ![kpage] = refs[kpage] + 1])
        /\ Depth(rest, at', depth) => Depth(Append(rest, kpage), at', depth + 1)
    BY <1>0, <2>0, <2>2, QueueOne
  <2>5. RefsOK' /\ (DepthOK => DepthOK')
    <3>1. CASE room
      BY <2>1, <2>3, <2>4, <3>1 DEF RefsOK, DepthOK
    <3>2. CASE ~room
      BY <2>1, <2>3, <3>2 DEF RefsOK, DepthOK
    <3> QED
      BY <3>1, <3>2
  <2>6. KswapdBusy'
    BY <2>0, <2>1 DEF KswapdBusy
  <2> QED
    BY <2>5, <2>6
<1> HIDE DEF G
<1>7. ASSUME External \/ EndList PROVE G
  <2>1. CASE UNCHANGED <<fifo, refs, depth, cur, at, kpc>>
    BY <1>2, <2>1
  <2>2. CASE UNCHANGED <<fifo, refs, depth, cur, at>> /\ kpc = "scan"
    BY <1>3, <2>2 DEF KswapdBusy
  <2> QED
    BY <1>7, <2>1, <2>2
       DEF External, ScanMapped, ScanClean, SwapIn, ExtLock, ExtFreeSwap, SetThreshold,
           AddAlloc, DelNull, EndList, page, kswapd, swapout
<1>8. ASSUME KswapdStep PROVE G
  <2>1. CASE UNCHANGED <<fifo, refs, depth, cur, at>> /\ kpc # "head"
    BY <1>3, <2>1 DEF KswapdBusy
  <2>2. CASE HeadDone
    BY <1>3, <2>2 DEF HeadDone, page, swapout
  <2> QED
    BY <1>6, <1>8, <2>1, <2>2
       DEF KswapdStep, StoreRefuse, Store, EnqueueRefuse, OffloadReturn, SyncWrite,
           PageSuccess, WaitParked, page, swapout
<1>9. ASSUME DrainStep PROVE G
  <2>1. CASE UNCHANGED <<fifo, refs, depth, cur, at, kpc>>
    BY <1>2, <2>1
  <2>2. CASE DrainPop /\ fifo # <<>>
    <3>1. /\ at["drain"] = "none" /\ at' = [at EXCEPT !["drain"] = "check"]
          /\ cur' = [cur EXCEPT !["drain"] = Head(fifo)] /\ fifo' = Tail(fifo)
          /\ UNCHANGED <<refs, depth, kpc>>
      BY <2>2 DEF DrainPop, page, kswapd
    <3> QED
      BY <1>4, <2>2, <3>1
  <2> QED
    BY <1>9, <2>1, <2>2 DEF DrainStep, DrainTop, DrainWait, DrainPop, page, kswapd, swapout
<1>10. ASSUME HotplugStep PROVE G
  <2>1. CASE UNCHANGED <<fifo, refs, depth, cur, at, kpc>>
    BY <1>2, <2>1
  <2>2. CASE DelDrain /\ fifo # <<>>
    <3>1. /\ at["del"] = "none" /\ at' = [at EXCEPT !["del"] = "check"]
          /\ cur' = [cur EXCEPT !["del"] = Head(fifo)] /\ fifo' = Tail(fifo)
          /\ UNCHANGED <<refs, depth, kpc>>
      BY <2>2 DEF DelDrain, page, kswapd
    <3> QED
      BY <1>4, <2>2, <3>1
  <2> QED
    BY <1>10, <2>1, <2>2
       DEF HotplugStep, AddCreate, DelWake, DelStop, DelJoin, DelDrain, page, kswapd, swapout
<1>11. ASSUME NEW c \in Writers, SwapoutCheck(c) PROVE G
  <2>1. CASE slot[cur[c]] # Nobody
    <3>1. /\ at' = [at EXCEPT ![c] = "lock"] /\ at[c] = "check"
          /\ UNCHANGED <<fifo, refs, depth, cur, kpc>>
      BY <1>11, <2>1 DEF SwapoutCheck, kswapd
    <3>2. \A d \in Writers : at'[d] # "none" <=> at[d] # "none"
      BY <1>0, <3>1
    <3> QED
      BY <1>1, <3>1, <3>2
  <2>2. CASE slot[cur[c]] = Nobody
    <3>1. /\ at' = [at EXCEPT ![c] = "none"] /\ at[c] = "check"
          /\ cur' = [cur EXCEPT ![c] = Nobody]
          /\ refs' = [refs EXCEPT ![cur[c]] = refs[cur[c]] - 1]
          /\ UNCHANGED <<fifo, kpc>>
      BY <1>11, <2>2 DEF SwapoutCheck, PutPage, kswapd
    <3>2. ~Pinned
      BY <2>2, <3>1 DEF Pinned
    <3> QED
      BY <1>5, <3>1, <3>2
  <2> QED
    BY <2>1, <2>2
<1>12. ASSUME NEW c \in Writers, SwapoutLock(c) \/ SwapoutWrite(c) PROVE G
  <2>1. /\ at[c] # "none" /\ UNCHANGED <<fifo, refs, depth, cur, kpc>>
        /\ at' = [at EXCEPT ![c] = "write"] \/ at' = [at EXCEPT ![c] = "put"]
    BY <1>12 DEF SwapoutLock, SwapoutWrite, kswapd
  <2>2. \A d \in Writers : at'[d] # "none" <=> at[d] # "none"
    BY <1>0, <2>1
  <2> QED
    BY <1>1, <2>1, <2>2
<1>13. ASSUME NEW c \in Writers, SwapoutPut(c) PROVE G
  <2>1. /\ at' = [at EXCEPT ![c] = "none"] /\ at[c] = "put"
        /\ cur' = [cur EXCEPT ![c] = Nobody] /\ depth' = depth - 1
        /\ refs' = [refs EXCEPT ![cur[c]] = refs[cur[c]] - 1]
        /\ UNCHANGED <<fifo, kpc>>
    BY <1>13 DEF SwapoutPut, PutPage, kswapd
  <2> QED
    BY <1>5, <2>1
<1>14. ASSUME NEW p \in Pages, ExtUnlock(p) PROVE G
  BY <1>2, <1>14 DEF ExtUnlock, kswapd, swapout
<1>15. ASSUME UNCHANGED vars PROVE G
  BY <1>2, <1>15 DEF vars, page, kswapd, swapout
<1>16. G
  BY <1>7, <1>8, <1>9, <1>10, <1>11, <1>12, <1>13, <1>14, <1>15 DEF Next, SwapoutStep
<1> QED
  BY <1>16 DEF G

(* Nothing is queued at first, and no reference held.                      *)
LEMMA RefsInit == Init => KswapdBusy /\ RefsOK /\ DepthOK
<1> SUFFICES ASSUME Init PROVE KswapdBusy /\ RefsOK /\ DepthOK
  OBVIOUS
<1>1. /\ fifo = <<>> /\ depth = 0 /\ (\A c \in Writers : at[c] = "none")
      /\ \A p \in Pages : refs[p] = 0
  BY DEF Init
<1>2. Busy(at) = {} /\ \A p \in Pages : Places(fifo, p) = {} /\ BusyWith(at, cur, p) = {}
  BY <1>1 DEF Busy, BusyWith, Places
<1>3. Cardinality({}) = 0 /\ Len(fifo) = 0
  BY <1>1, FS_EmptySet
<1>4. KswapdBusy
  BY <1>1 DEF KswapdBusy, Writers
<1>5. ASSUME NEW p \in Pages
      PROVE  refs[p] = Cardinality(Places(fifo, p)) + Cardinality(BusyWith(at, cur, p))
  <2>1. Places(fifo, p) = {} /\ BusyWith(at, cur, p) = {} /\ refs[p] = 0
    BY <1>1, <1>2
  <2> QED
    BY <1>3, <2>1
<1>6. depth = Len(fifo) + Cardinality(Busy(at))
  BY <1>1, <1>2, <1>3
<1> QED
  BY <1>4, <1>5, <1>6 DEF RefsOK, DepthOK, Refs, Depth

(* With or without the pin, the offload holds one reference for each place *)
(* of a page in the ring and for each writer that has it: no page is freed *)
(* while its write is due, and none is kept for ever.                      *)
THEOREM ReferencesMatch == Spec => []RefsOK
<1>1. TypeInv /\ KswapdBusy /\ RefsOK /\ [Next]_vars => (KswapdBusy /\ RefsOK)'
  BY RefsNext
<1> QED
  BY <1>1, TypeInit, TypeNext, RefsInit, PTL DEF Spec

(* With the pin, moreover, the counters' difference is the number of pages *)
(* queued or being written, so the two agree when there are none.          *)
THEOREM CountersMeet ==
    ASSUME WbPin PROVE Spec => []RefsBalanced
<1>1. PinInv /\ TypeInv => Pinned
  <2> SUFFICES ASSUME PinInv, TypeInv PROVE Pinned
    OBVIOUS
  <2>1. ASSUME NEW c \in Writers, at[c] = "check" PROVE slot[cur[c]] # Nobody
    <3>1. cur[c] \in Pages /\ Held(cur[c])
      BY <2>1 DEF TypeInv, KswapdOK, Held, Unwritten
    <3> QED
      BY <3>1 DEF PinInv, HeldSafe
  <2> QED
    BY <2>1 DEF Pinned
<1>2. RefsOK /\ DepthOK => RefsBalanced
  <2> SUFFICES ASSUME RefsOK, DepthOK PROVE RefsBalanced
    OBVIOUS
  <2>1. \A p \in Pages :
           refs[p] = Cardinality({i \in DOMAIN fifo : fifo[i] = p})
                       + Cardinality({c \in Writers : at[c] # "none" /\ cur[c] = p})
    BY DEF RefsOK, Refs, Places, BusyWith
  <2>2. ASSUME fifo = <<>>, \A c \in Writers : at[c] = "none" PROVE depth = 0
    <3>1. Busy(at) = {} /\ Len(fifo) = 0
      BY <2>2 DEF Busy
    <3>2. Cardinality({}) = 0
      BY FS_EmptySet
    <3> QED
      BY <3>1, <3>2 DEF DepthOK, Depth
  <2> QED
    BY <2>1, <2>2 DEF RefsBalanced
<1>3. TypeInv /\ PinInv /\ KswapdBusy /\ RefsOK /\ DepthOK /\ [Next]_vars
         => (KswapdBusy /\ RefsOK /\ DepthOK)'
  BY <1>1, RefsNext
<1> QED
  BY <1>2, <1>3, TypeInit, TypeNext, PinInit, PinNext, RefsInit, PTL DEF Spec
=============================================================================
