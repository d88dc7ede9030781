------------------------ MODULE ZramRecompressProofs ------------------------
(***************************************************************************)
(* What TLAPS proves of recompression for every device size, every set of  *)
(* secondary algorithms and every length of the queue: the types, that a   *)
(* queued job outlives neither the table nor the compressors it was queued *)
(* for, and that no sweep and no job changes a slot that is not its to     *)
(* change.                                                                 *)
(***************************************************************************)
EXTENDS ZramRecompress, TLAPS, FiniteSetTheorems

-----------------------------------------------------------------------------
(* The invariant                                                           *)

(* A sweep inside init_lock finds the device set up; the page it is about  *)
(* to queue is within its bound; the worker it has found is still there.   *)
CallOK(x) ==
    /\ x.nr \in {0} \cup Sizes
    /\ x.pc \in {"scan", "find", "post"} => disksize # 0
    /\ x.pc \in {"find", "post"} => x.index < x.nr
    /\ x.pc = "post" => worker

(* Without overlapping set-ups, the table and all compressors are there    *)
(* from disksize_store() until the reset frees them, and the count of      *)
(* active algorithms is one too many.                                      *)
PoolOK ==
    /\ stage # "none" => disksize = 0
    /\ disksize # 0 \/ stage \in {"drain", "free"} => table
    /\ disksize # 0 \/ stage # "none" => comps = Prios
    /\ disksize = 0 /\ stage = "none" => comps = {}
    /\ active = 1 + Cardinality(comps)

(* The count is at least one too many; the worker lives until a reset has  *)
(* drained it, and the jobs have a worker.                                 *)
LifeOK ==
    /\ stage = "drain" => disksize = 0
    /\ active \in Nat /\ 1 + Cardinality(comps) <= active
    /\ worker => disksize # 0 \/ stage = "drain"
    /\ jobs # <<>> \/ run # NoJob => worker
    /\ ~Overlap => PoolOK

LifeInv == TypeOK /\ LifeOK /\ \A c \in Callers : CallOK(call[c])

(* All set-ups of the device give it the same size.                        *)
OneSize == \A m, n \in Sizes : m = n

-----------------------------------------------------------------------------
(* The types                                                               *)

TypeDevice ==
    /\ disksize \in {0} \cup Sizes /\ table \in BOOLEAN /\ comps \subseteq Prios
    /\ active \in Nat /\ stage \in {"none", "drain", "free", "comps"}
TypeSlots  == slot \in [Index -> SlotType]
TypeCalls  == call \in [Callers -> CallType]
TypeQueue  == worker \in BOOLEAN /\ jobs \in Seq(JobType) /\ run \in JobType \cup {NoJob}
TypePolicy == loop \in {"sleep", "mark", "pass", "dead"} /\ ticks \in Nat
TypeBounds == stores \in 0..MaxStores /\ fails \in 0..MaxFails

(* TypeOK, group by group.                                                 *)
LEMMA TypeParts ==
    TypeOK <=> TypeDevice /\ TypeSlots /\ TypeCalls /\ TypeQueue /\ TypePolicy /\ TypeBounds
BY DEF TypeOK, TypeDevice, TypeSlots, TypeCalls, TypeQueue, TypePolicy, TypeBounds

-----------------------------------------------------------------------------
(* Numbers                                                                 *)

(* The priorities are a few numbers.                                       *)
LEMMA FewPrios ==
    /\ Prios \subseteq 0..3 /\ IsFiniteSet(Prios) /\ 0 \in Prios
    /\ IsFiniteSet({}) /\ Cardinality({}) = 0 /\ Cardinality(Prios) \in Nat
<1>1. Prios \subseteq 0..3 /\ 0 \in Prios
  BY RecompressAssumption DEF Prios, MaxComps
<1>2. IsFiniteSet(0..3)
  <2>1. 0 \in Int /\ 3 \in Int
    OBVIOUS
  <2> QED
    BY <2>1, FS_Interval, Zenon
<1>3. IsFiniteSet(Prios)
  BY <1>1, <1>2, FS_Subset
<1> QED
  BY <1>1, <1>3, FS_EmptySet, FS_CardinalityType

(* So are the compressors there are, all or from one on.                   *)
LEMMA FewComps ==
    ASSUME TypeDevice, NEW p
    PROVE  /\ IsFiniteSet(comps) /\ Cardinality(comps) \in Nat
           /\ Cardinality({q \in comps : q >= p}) \in Nat
           /\ Cardinality({q \in comps : q >= p}) <= Cardinality(comps)
<1>1. IsFiniteSet(comps)
  BY FewPrios, FS_Subset DEF TypeDevice
<1> DEFINE S == {q \in comps : q >= p}
<1>2. S \subseteq comps
  OBVIOUS
<1> HIDE DEF S
<1>3. IsFiniteSet(S) /\ Cardinality(S) <= Cardinality(comps)
  BY <1>1, <1>2, FS_Subset
<1> QED
  BY <1>1, <1>3, FS_CardinalityType DEF S

(* The algorithm that wins is one of those that were tried.                *)
LEMMA LeastWorks ==
    ASSUME NEW S \in SUBSET Nat, S # {}
    PROVE  Least(S) \in S
<1> DEFINE R == OpToRel(<, Nat)
<1>1. \A x, y \in Nat : <<x, y>> \in R <=> x < y
  BY DEF OpToRel
<1>2. IsWellFoundedOn(R, Nat)
  BY NatLessThanWellFounded
<1> HIDE DEF R
<1>3. PICK x \in S : \A y \in S : <<y, x>> \notin R
  BY <1>2, WFMin
<1>4. ASSUME NEW y \in S PROVE x <= y
  <2>1. x \in Nat /\ y \in Nat
    OBVIOUS
  <2>2. ~(y < x)
    BY <1>1, <1>3, <2>1, Zenon
  <2> QED
    BY <2>1, <2>2
<1> QED
  BY <1>3, <1>4 DEF Least

-----------------------------------------------------------------------------
(* Slots                                                                   *)

(* zram_free_page(), a store and a new object make slots of slots.         *)
LEMMA FreedIsSlot ==
    ASSUME NEW sl \in SlotType, NEW c \in Contents \cup {NoPage}, NEW p \in Prios
    PROVE  /\ FreeSlot \in SlotType /\ FreedSlot(sl) \in SlotType
           /\ [FreedSlot(sl) EXCEPT !.c = c] \in SlotType
           /\ [FreedSlot(sl) EXCEPT !.c = c, !.prio = p] \in SlotType
<1>1. FreeSlot \in SlotType /\ FreedSlot(sl) \in SlotType
  BY FewPrios DEF SlotType, FreedSlot, FreeSlot
<1>2. ASSUME NEW x \in SlotType
      PROVE  [x EXCEPT !.c = c] \in SlotType /\ [x EXCEPT !.c = c, !.prio = p] \in SlotType
  BY DEF SlotType
<1> QED
  BY <1>1, <1>2

(* So do new flags.                                                        *)
LEMMA FlagsAreSlot ==
    ASSUME NEW sl \in SlotType, NEW b \in BOOLEAN, NEW w \in {"none", "under", "done"}
    PROVE  /\ [sl EXCEPT !.idle = b] \in SlotType
           /\ [sl EXCEPT !.wb = w, !.idle = b] \in SlotType
           /\ [sl EXCEPT !.idle = FALSE, !.incomp = b] \in SlotType
BY DEF SlotType

(* What recompression makes of a slot is a slot.                           *)
LEMMA RecompressedIsSlot ==
    ASSUME TypeDevice, NEW sl \in SlotType, NEW lo, NEW hi, NEW thr
    PROVE  Recompressed(sl, lo, hi, thr) \in SlotType
<1> DEFINE tried == Above(sl, lo, hi)
           wins  == {p \in tried : Accepts(sl, p, thr)}
           none  == \/ sl.incomp
                    \/ /\ tried # {} /\ sl.c[Greatest(tried)] >= Class(sl)
                       /\ Cardinality(tried) = active - 1
<1>1. wins \in SUBSET Prios
  BY DEF TypeDevice, Above
<1>2. \A S \in SUBSET Prios : S # {} => Least(S) \in Prios
  <2>1. \A S \in SUBSET Prios : S \in SUBSET Nat
    BY FewPrios
  <2> QED
    BY <2>1, LeastWorks
<1>3. sl.c \in Contents \cup {NoPage}
  BY DEF SlotType
<1>4. sl.incomp \in BOOLEAN
  BY DEF SlotType
<1>5. none \in BOOLEAN
  BY <1>4, Zenon
<1>6. Recompressed(sl, lo, hi, thr) =
         IF Class(sl) < thr THEN sl
         ELSE IF wins # {} THEN [FreedSlot(sl) EXCEPT !.c = sl.c, !.prio = Least(wins)]
         ELSE [sl EXCEPT !.idle = FALSE, !.incomp = none]
  <2>1. [ClearsIdle(sl) EXCEPT !.incomp =
               \/ @
               \/ /\ tried # {} /\ sl.c[Greatest(tried)] >= Class(sl)
                  /\ Cardinality(tried) = active - 1]
           = [sl EXCEPT !.idle = FALSE, !.incomp = none]
    BY DEF ClearsIdle, SlotType
  <2> QED
    BY <2>1 DEF Recompressed
<1> HIDE DEF wins, none
<1>7. ASSUME wins # {}
      PROVE  [FreedSlot(sl) EXCEPT !.c = sl.c, !.prio = Least(wins)] \in SlotType
  BY <1>1, <1>2, <1>3, <1>7, FreedIsSlot
<1>8. [sl EXCEPT !.idle = FALSE, !.incomp = none] \in SlotType
  BY <1>5, FlagsAreSlot
<1> QED
  BY <1>6, <1>7, <1>8

(* A recompression that fails, too.                                        *)
LEMMA FailedIsSlot ==
    ASSUME NEW sl \in SlotType, NEW x \in FailedRecompress(sl)
    PROVE  x \in SlotType
BY DEF FailedRecompress, ClearsIdle, SlotType

-----------------------------------------------------------------------------
(* Who changes what                                                        *)

(* A slot changes by the user's doing, writeback's, or recompression's.    *)
LEMMA SlotSteps ==
    ASSUME [Next]_vars
    PROVE  \/ UNCHANGED slot
           \/ \E i \in Index : SlotFree(i) \/ Accessed(i) \/ UnderWb(i) \/ WritebackEnds(i)
           \/ \E i \in Index, c \in Contents : Store(i, c)
           \/ \E c \in Callers : Attempt(c)
           \/ Work \/ MetaFree
           \/ \E n \in Sizes : DisksizeStore(n)
           \/ \E cold \in SUBSET Index : MarkIdle(cold)
<1>1. ASSUME NEW c \in Callers, Step(c) PROVE UNCHANGED slot \/ Attempt(c)
  BY <1>1 DEF Step, Enter, EndScan, Skip, Candidate, FindWorker, QueueWork
<1>2. ASSUME NEW q \in Requests, WriteNode(q) PROVE UNCHANGED slot
  BY <1>2 DEF WriteNode
<1>3. ASSUME Worker \/ Reset PROVE UNCHANGED slot \/ Work \/ MetaFree
  BY <1>3 DEF Worker, Reset, TakeJob, Drain, DestroyComps
<1>4. ASSUME UserLoop PROVE UNCHANGED slot \/ \E cold \in SUBSET Index : MarkIdle(cold)
  BY <1>4 DEF UserLoop, WakeUp, Pass
<1>5. ASSUME ResetDevice PROVE UNCHANGED slot
  BY <1>5 DEF ResetDevice
<1>6. CASE UNCHANGED vars
  BY <1>6 DEF vars
<1> QED
  BY <1>1, <1>2, <1>3, <1>4, <1>5, <1>6 DEF Next

(* The device's own state changes only by set-up and reset.                *)
LEMMA DeviceSteps ==
    ASSUME [Next]_vars
    PROVE  \/ UNCHANGED device
           \/ ResetDevice \/ Drain \/ MetaFree \/ DestroyComps
           \/ \E n \in Sizes : DisksizeStore(n)
<1>1. ASSUME NEW c \in Callers, Step(c) PROVE UNCHANGED device
  BY <1>1 DEF Step, Enter, EndScan, Skip, Attempt, Candidate, FindWorker, QueueWork
<1>2. ASSUME NEW i \in Index, SlotFree(i) \/ Accessed(i) \/ UnderWb(i) \/ WritebackEnds(i)
      PROVE  UNCHANGED device
  BY <1>2 DEF SlotFree, Accessed, UnderWb, WritebackEnds
<1>3. ASSUME NEW i \in Index, NEW c \in Contents, Store(i, c) PROVE UNCHANGED device
  BY <1>3 DEF Store
<1>4. ASSUME NEW q \in Requests, WriteNode(q) PROVE UNCHANGED device
  BY <1>4 DEF WriteNode
<1>5. ASSUME Worker \/ UserLoop PROVE UNCHANGED device
  BY <1>5 DEF Worker, UserLoop, TakeJob, Work, WakeUp, MarkIdle, Pass
<1>6. CASE UNCHANGED vars
  BY <1>6 DEF vars
<1> QED
  BY <1>1, <1>2, <1>3, <1>4, <1>5, <1>6 DEF Next, Reset

(* The calls and the queue change by their own steps, the queue by the     *)
(* worker's and the drain, too.                                            *)
LEMMA QueueSteps ==
    ASSUME [Next]_vars
    PROVE  \/ UNCHANGED <<call, queue>>
           \/ \E c \in Callers : Step(c)
           \/ \E q \in Requests : WriteNode(q)
           \/ \E node \in Nodes, cap \in Caps : Pass(node, cap)
           \/ TakeJob \/ Work \/ Drain
<1>1. ASSUME NEW i \in Index, SlotFree(i) \/ Accessed(i) \/ UnderWb(i) \/ WritebackEnds(i)
      PROVE  UNCHANGED <<call, queue>>
  BY <1>1 DEF SlotFree, Accessed, UnderWb, WritebackEnds
<1>2. ASSUME NEW i \in Index, NEW c \in Contents, Store(i, c) PROVE UNCHANGED <<call, queue>>
  BY <1>2 DEF Store
<1>3. ASSUME UserLoop
      PROVE  \/ UNCHANGED <<call, queue>>
             \/ \E node \in Nodes, cap \in Caps : Pass(node, cap)
  BY <1>3 DEF UserLoop, WakeUp, MarkIdle
<1>4. ASSUME MetaFree \/ DestroyComps \/ ResetDevice \/ \E n \in Sizes : DisksizeStore(n)
      PROVE  UNCHANGED <<call, queue>>
  BY <1>4 DEF MetaFree, DestroyComps, ResetDevice, DisksizeStore
<1>5. CASE UNCHANGED vars
  BY <1>5 DEF vars
<1> QED
  BY <1>1, <1>2, <1>3, <1>4, <1>5 DEF Next, Worker, Reset

-----------------------------------------------------------------------------
(* Types                                                                   *)

(* A step of a sweep or of the worker leaves alone what is not in memory,  *)
(* or not to stay there.                                                   *)
Untouched ==
    <<call, run>>' # <<call, run>> => \A i \in Index : Away(i) => slot'[i] = slot[i]

(* The table keeps its type, and a step of a sweep or job changes at most  *)
(* a slot that holds an object and is not under writeback.                 *)
LEMMA SlotsNext ==
    ASSUME TypeOK, \A c \in Callers : CallOK(call[c]), [Next]_vars
    PROVE  TypeSlots' /\ Untouched
<1>0. TypeDevice /\ TypeSlots /\ TypeCalls /\ TypeQueue
  BY TypeParts
<1>p. \A i \in Index : slot[i] \in SlotType
  BY <1>0 DEF TypeSlots
<1> DEFINE G == TypeSlots' /\ Untouched
           Quiet == call' = call /\ run' = run
<1>1. ASSUME slot' = slot PROVE G
  BY <1>0, <1>1 DEF TypeSlots, Untouched
<1>2. ASSUME NEW i \in Index, NEW x \in SlotType, slot' = [slot EXCEPT ![i] = x],
             Quiet \/ ~Away(i)
      PROVE  G
  <2>1. TypeSlots'
    BY <1>0, <1>2 DEF TypeSlots
  <2>2. \A j \in Index : j # i => slot'[j] = slot[j]
    BY <1>0, <1>2 DEF TypeSlots
  <2>3. Untouched
    BY <1>2, <2>2 DEF Untouched
  <2> QED
    BY <2>1, <2>3
<1>3. ASSUME Quiet, TypeSlots' PROVE G
  BY <1>3 DEF Untouched
<1> HIDE DEF G
<1>4. ASSUME NEW i \in Index, NEW c \in Contents, Store(i, c) PROVE G
  <2>1. slot' = [slot EXCEPT ![i] = [FreedSlot(slot[i]) EXCEPT !.c = c]] /\ Quiet
    BY <1>4 DEF Store, queue
  <2>2. [FreedSlot(slot[i]) EXCEPT !.c = c] \in SlotType
    BY <1>p, FreedIsSlot, FewPrios, Zenon
  <2> QED
    BY <1>2, <2>1, <2>2
<1>5. ASSUME NEW i \in Index, SlotFree(i) PROVE G
  <2>1. slot' = [slot EXCEPT ![i] = FreedSlot(slot[i])] /\ Quiet
    BY <1>5 DEF SlotFree, queue
  <2>2. FreedSlot(slot[i]) \in SlotType
    <3>1. NoPage \in Contents \cup {NoPage}
      OBVIOUS
    <3> QED
      BY <1>p, <3>1, FreedIsSlot, FewPrios, Zenon
  <2> QED
    BY <1>2, <2>1, <2>2
<1>6. ASSUME NEW i \in Index, Accessed(i) PROVE G
  <2>1. slot' = [slot EXCEPT ![i] = [slot[i] EXCEPT !.idle = FALSE]] /\ Quiet
    BY <1>6 DEF Accessed, queue
  <2>2. [slot[i] EXCEPT !.idle = FALSE] \in SlotType
    BY <1>p, FlagsAreSlot, Zenon
  <2> QED
    BY <1>2, <2>1, <2>2
<1>7. ASSUME NEW i \in Index, UnderWb(i) \/ WritebackEnds(i) PROVE G
  <2>1. \/ slot' = [slot EXCEPT ![i] = [slot[i] EXCEPT !.wb = "under", !.idle = TRUE]]
        \/ slot' = [slot EXCEPT ![i] = [slot[i] EXCEPT !.wb = "none", !.idle = FALSE]]
        \/ slot' = [slot EXCEPT ![i] = [slot[i] EXCEPT !.wb = "done", !.idle = FALSE]]
    BY <1>0, <1>7 DEF UnderWb, WritebackEnds, TypeSlots, SlotType
  <2>2. Quiet
    BY <1>7 DEF UnderWb, WritebackEnds, queue
  <2>3. ASSUME NEW w \in {"none", "under", "done"}, NEW b \in BOOLEAN
        PROVE  [slot[i] EXCEPT !.wb = w, !.idle = b] \in SlotType
    BY <1>p, FlagsAreSlot, Zenon
  <2> QED
    BY <1>2, <2>1, <2>2, <2>3
<1>8. ASSUME NEW i \in Index, ~Away(i), NEW lo, NEW hi, NEW thr,
             slot' = [slot EXCEPT ![i] = Recompressed(slot[i], lo, hi, thr)]
      PROVE  G
  <2>1. Recompressed(slot[i], lo, hi, thr) \in SlotType
    BY <1>0, <1>p, RecompressedIsSlot
  <2> QED
    BY <1>2, <1>8, <2>1
<1>9. ASSUME NEW i \in Index, ~Away(i), NEW x \in FailedRecompress(slot[i]),
             slot' = [slot EXCEPT ![i] = x]
      PROVE  G
  <2>1. x \in SlotType
    BY <1>p, <1>9, FailedIsSlot
  <2> QED
    BY <1>2, <1>9, <2>1
<1>10. ASSUME NEW c \in Callers, Attempt(c) PROVE G
  <2>1. /\ call[c] \in CallType /\ ~Finished(call[c])
        /\ slot[call[c].index].wb = "none" /\ Held(slot[call[c].index])
    BY <1>0, <1>10 DEF Attempt, Attempts, Selected, TypeCalls
  <2>2. PICK i \in Index : i = call[c].index
    BY <2>1, RecompressAssumption DEF Finished, CallType, Index
  <2>3. \/ slot' = [slot EXCEPT ![i] =
                       Recompressed(slot[i], call[c].lo, call[c].hi, call[c].thr)]
        \/ \E x \in FailedRecompress(slot[i]) : slot' = [slot EXCEPT ![i] = x]
    BY <1>10, <2>2 DEF Attempt
  <2>4. ~Away(i)
    BY <2>1, <2>2 DEF Away
  <2>5. ASSUME slot' = [slot EXCEPT ![i] =
                          Recompressed(slot[i], call[c].lo, call[c].hi, call[c].thr)]
        PROVE  G
    BY <1>8, <2>4, <2>5
  <2> QED
    BY <1>9, <2>3, <2>4, <2>5, Zenon
<1>11. ASSUME Work PROVE G
  <2>1. PICK i \in Index : i = run.idx
    BY <1>0, <1>11 DEF Work, TypeQueue, JobType
  <2>2. \/ slot' = slot
        \/ /\ slot[i].wb = "none" /\ Held(slot[i])
           /\ \/ slot' = [slot EXCEPT ![i] = Recompressed(slot[i], run.lo, run.hi, run.thr)]
              \/ \E x \in FailedRecompress(slot[i]) : slot' = [slot EXCEPT ![i] = x]
    BY <1>11, <2>1 DEF Work, Revalidates
  <2>3. slot' = slot \/ ~Away(i)
    BY <2>2 DEF Away
  <2> QED
    BY <1>1, <1>8, <1>9, <2>2, <2>3
<1>12. ASSUME MetaFree \/ \E n \in Sizes : DisksizeStore(n) PROVE G
  <2>1. slot' = [i \in Index |-> FreeSlot] /\ Quiet
    BY <1>12 DEF MetaFree, DisksizeStore, queue
  <2>2. FreeSlot \in SlotType
    BY FewPrios DEF FreeSlot, SlotType
  <2> HIDE DEF FreeSlot
  <2>3. TypeSlots'
    BY <2>1, <2>2 DEF TypeSlots
  <2> QED
    BY <1>3, <2>1, <2>3
<1>13. ASSUME NEW cold \in SUBSET Index, MarkIdle(cold) PROVE G
  <2>1. \/ slot' = slot
        \/ slot' = [i \in Index |-> IF Marks(i) THEN [slot[i] EXCEPT !.idle = i \in cold]
                                    ELSE slot[i]]
    BY <1>13 DEF MarkIdle
  <2>2. Quiet
    BY <1>13 DEF MarkIdle, queue
  <2>3. ASSUME NEW i \in Index
        PROVE  [slot[i] EXCEPT !.idle = i \in cold] \in SlotType
    <3> DEFINE b == i \in cold
    <3>1. b \in BOOLEAN
      OBVIOUS
    <3> HIDE DEF b
    <3>2. [slot[i] EXCEPT !.idle = b] \in SlotType
      BY <1>p, <3>1, FlagsAreSlot
    <3> QED
      BY <3>2 DEF b
  <2>4. CASE slot' = [i \in Index |-> IF Marks(i) THEN [slot[i] EXCEPT !.idle = i \in cold]
                                      ELSE slot[i]]
    <3>1. \A i \in Index : slot'[i] \in SlotType
      BY <1>p, <2>3, <2>4
    <3>2. TypeSlots'
      BY <2>4, <3>1 DEF TypeSlots
    <3> QED
      BY <1>3, <2>2, <3>2
  <2> QED
    BY <1>1, <2>1, <2>4
<1>14. G
  BY <1>1, <1>4, <1>5, <1>6, <1>7, <1>10, <1>11, <1>12, <1>13, SlotSteps
<1> QED
  BY <1>14 DEF G

-----------------------------------------------------------------------------
(* The calls                                                               *)

Pcs == {"off", "enter", "scan", "find", "post"}

(* A call may be anywhere, at any page within its bound.                   *)
LEMMA CallFields ==
    ASSUME NEW x \in CallType, NEW pc \in Pcs, NEW k \in 0..NPages, NEW m \in 0..NPages
    PROVE  /\ [x EXCEPT !.pc = pc] \in CallType /\ [x EXCEPT !.pc = pc].pc = pc
           /\ [x EXCEPT !.pc = pc].nr = x.nr /\ [x EXCEPT !.pc = pc].index = x.index
           /\ [x EXCEPT !.index = k] \in CallType /\ [x EXCEPT !.index = k].pc = x.pc
           /\ [x EXCEPT !.index = k].nr = x.nr
           /\ [x EXCEPT !.left = m] \in CallType /\ [x EXCEPT !.left = m].pc = x.pc
           /\ [x EXCEPT !.left = m].nr = x.nr /\ [x EXCEPT !.left = m].index = x.index
BY DEF CallType, Pcs

(* The bound of a sweep is the size of some device.                        *)
LEMMA CallBound ==
    ASSUME TypeOK, NEW c \in Callers
    PROVE  /\ call[c] \in CallType /\ call[c].pc \in Pcs
           /\ call[c].index \in 0..NPages /\ call[c].left \in 0..NPages
           /\ call[c].nr \in 0..NPages /\ NPages \in Nat
<1>1. call[c] \in CallType
  BY TypeParts DEF TypeCalls
<1> QED
  BY <1>1, RecompressAssumption DEF CallType, Pcs

(* The next page is still a page, or the end of the device.                *)
LEMMA NextPage ==
    ASSUME NEW x \in CallType, x.index < x.nr
    PROVE  /\ NextIndex(x) \in CallType /\ NextIndex(x).pc = x.pc
           /\ NextIndex(x).nr = x.nr /\ NextIndex(x).left = x.left
<1>1. x.index \in 0..NPages /\ x.nr \in 0..NPages /\ NPages \in Nat
  BY RecompressAssumption DEF CallType
<1>2. x.index + 1 \in 0..NPages
  BY <1>1
<1>3. PICK k \in 0..NPages : k = x.index + 1
  BY <1>2
<1>4. NextIndex(x) = [x EXCEPT !.index = k]
  BY <1>3, Zenon DEF NextIndex
<1>5. /\ [x EXCEPT !.index = k] \in CallType /\ [x EXCEPT !.index = k].pc = x.pc
      /\ [x EXCEPT !.index = k].nr = x.nr /\ [x EXCEPT !.index = k].left = x.left
  BY DEF CallType
<1> QED
  BY <1>4, <1>5, Zenon

(* An attempt takes one off what is left of the cap.                       *)
LEMMA OneLess ==
    ASSUME NEW x \in CallType, x.left # 0
    PROVE  /\ Charged(x) \in CallType /\ Charged(x).pc = x.pc
           /\ Charged(x).nr = x.nr /\ Charged(x).index = x.index
<1>1. x.left \in 0..NPages /\ NPages \in Nat
  BY RecompressAssumption DEF CallType
<1>2. x.left - 1 \in 0..NPages
  BY <1>1
<1>3. PICK m \in 0..NPages : m = x.left - 1
  BY <1>2
<1>4. Charged(x) = [x EXCEPT !.left = m]
  BY <1>3, Zenon DEF Charged
<1>5. /\ [x EXCEPT !.left = m] \in CallType /\ [x EXCEPT !.left = m].pc = x.pc
      /\ [x EXCEPT !.left = m].nr = x.nr /\ [x EXCEPT !.left = m].index = x.index
  BY DEF CallType
<1> QED
  BY <1>4, <1>5, Zenon

(* A sweep that is not finished has a page left to go on to.               *)
LEMMA SweepGoesOn ==
    ASSUME NEW x \in CallType, ~Finished(x)
    PROVE  /\ x.index < x.nr
           /\ NextIndex(x) \in CallType /\ NextIndex(x).pc = x.pc /\ NextIndex(x).nr = x.nr
           /\ Charged(x) \in CallType /\ Charged(x).pc = x.pc
           /\ Charged(x).nr = x.nr /\ Charged(x).index = x.index
           /\ Charged(NextIndex(x)) \in CallType /\ Charged(NextIndex(x)).pc = x.pc
           /\ Charged(NextIndex(x)).nr = x.nr
<1>1. x.index \in 0..NPages /\ x.nr \in 0..NPages /\ NPages \in Nat
  BY RecompressAssumption DEF CallType
<1>2. x.index < x.nr /\ x.left # 0
  BY <1>1 DEF Finished
<1>3. /\ NextIndex(x) \in CallType /\ NextIndex(x).pc = x.pc
      /\ NextIndex(x).nr = x.nr /\ NextIndex(x).left = x.left
  BY <1>2, NextPage
<1>4. /\ Charged(x) \in CallType /\ Charged(x).pc = x.pc
      /\ Charged(x).nr = x.nr /\ Charged(x).index = x.index
  BY <1>2, OneLess
<1> DEFINE y == NextIndex(x)
<1>5. y \in CallType /\ y.left # 0
  BY <1>2, <1>3
<1> HIDE DEF y
<1>6. Charged(y) \in CallType /\ Charged(y).pc = y.pc /\ Charged(y).nr = y.nr
  BY <1>5, OneLess
<1> QED
  BY <1>2, <1>3, <1>4, <1>6, Zenon DEF y

(* A call that has returned, or not begun, is in order.                    *)
LEMMA NoCallOK == NoCall \in CallType /\ NoCall.pc = "off" /\ NoCall.nr = 0
BY RecompressAssumption DEF NoCall, CallType, MaxComps

(* A write begins with the size of the device as it is.                    *)
LEMMA CallBegins ==
    ASSUME TypeOK, NEW c \in Callers, NEW q \in Request, NEW cap \in 0..NPages,
           BeginCall(c, q, cap)
    PROVE  \E y \in CallType : /\ call' = [call EXCEPT ![c] = y]
                               /\ y.pc = "enter" /\ y.nr \in {0} \cup Sizes
<1> DEFINE lo == IF q.algo = 0 THEN 1 ELSE q.algo
           hi == IF q.algo = 0 THEN MaxComps ELSE q.algo + 1
           y  == [NoCall EXCEPT !.pc = "enter", !.node = q.node, !.mode = q.mode,
                    !.thr = q.thr, !.nr = disksize, !.left = cap, !.lo = lo, !.hi = hi]
<1>1. call' = [call EXCEPT ![c] = y]
  BY DEF BeginCall
<1>2. disksize \in {0} \cup Sizes
  BY TypeParts DEF TypeDevice
<1>3. disksize \in 0..NPages
  BY <1>2, RecompressAssumption
<1>4. lo \in 1..MaxComps - 1 /\ hi \in 2..MaxComps
  <2>1. q.algo \in 0..3
    BY FewPrios DEF Request, Prios
  <2> QED
    BY <2>1 DEF MaxComps
<1>5. /\ q.node \in {"sync", "async"} /\ q.mode \in {"all", "idle", "huge", "huge_idle"}
      /\ q.thr \in 0..Huge - 1
  BY DEF Request
<1> HIDE DEF lo, hi
<1>6. y \in CallType /\ y.pc = "enter" /\ y.nr = disksize
  BY <1>3, <1>4, <1>5, NoCallOK DEF CallType
<1> QED
  BY <1>1, <1>2, <1>6

(* A call goes on by entering, by going on to the next page, by queueing   *)
(* its page, or by returning; nothing else of it changes.                  *)
LEMMA StepCall ==
    ASSUME LifeInv, NEW c \in Callers, Step(c)
    PROVE  \E y \in CallType : call' = [call EXCEPT ![c] = y] /\ CallOK(y)'
<1> DEFINE x == call[c]
           Put(y) == call' = [call EXCEPT ![c] = y] /\ CallOK(y)'
           G == \E y \in CallType : Put(y)
<1>t. TypeOK /\ CallOK(x)
  BY DEF LifeInv
<1>x. x \in CallType /\ x.pc \in Pcs /\ NPages \in Nat
  BY <1>t, CallBound, Zenon
<1>z. 0 \in 0..NPages
  BY <1>x
<1>d. disksize' = disksize /\ (worker => worker')
  BY DEF Step, Enter, EndScan, Skip, Attempt, Candidate, FindWorker, QueueWork,
         device, queue, Returns, Moves
<1>1. ASSUME Returns(c) PROVE G
  BY <1>1, NoCallOK DEF Returns, CallOK
<1>2. ASSUME NEW y \in CallType, call' = [call EXCEPT ![c] = y], y.nr = x.nr,
             y.pc \in {"scan", "find", "post"} => disksize # 0,
             y.pc \in {"find", "post"} => y.index < y.nr,
             y.pc = "post" => worker'
      PROVE  G
  <2>1. CallOK(y)'
    BY <1>t, <1>d, <1>2 DEF CallOK
  <2> QED
    BY <1>2, <2>1
<1> HIDE DEF G
<1>3. ASSUME NEW pc \in Pcs, Moves(c, pc), pc \in {"scan", "find", "post"} => disksize # 0,
             pc \in {"find", "post"} => x.index < x.nr, pc = "post" => worker'
      PROVE  G
  <2> DEFINE y == [x EXCEPT !.pc = pc]
  <2>1. call' = [call EXCEPT ![c] = y]
    BY <1>3 DEF Moves
  <2>2. y \in CallType /\ y.pc = pc /\ y.nr = x.nr /\ y.index = x.index
    BY <1>x, <1>z, CallFields, Zenon
  <2> HIDE DEF y
  <2> QED
    BY <1>2, <1>3, <2>1, <2>2
<1>4. ASSUME Enter(c) PROVE G
  <2>1. Returns(c) \/ (disksize # 0 /\ Moves(c, "scan"))
    BY <1>4, Zenon DEF Enter, Errs
  <2>2. "scan" \in Pcs
    BY DEF Pcs
  <2> QED
    BY <1>1, <1>3, <2>1, <2>2
<1>5. ASSUME EndScan(c) PROVE G
  BY <1>1, <1>5 DEF EndScan, Errs
<1>6. ASSUME Skip(c) PROVE G
  <2>1. x.pc = "scan" /\ call' = [call EXCEPT ![c] = NextIndex(x)] /\ ~Finished(x)
    BY <1>6 DEF Skip
  <2>2. NextIndex(x) \in CallType /\ NextIndex(x).pc = "scan" /\ NextIndex(x).nr = x.nr
    BY <1>x, <2>1, SweepGoesOn
  <2>3. disksize # 0
    BY <1>t, <2>1 DEF CallOK
  <2> QED
    BY <1>2, <2>1, <2>2, <2>3
<1>7. ASSUME Attempt(c) PROVE G
  <2> DEFINE y == Charged(NextIndex(x))
  <2>1. /\ x.pc = "scan" /\ ~Finished(x)
        /\ Returns(c) \/ call' = [call EXCEPT ![c] = y]
    BY <1>7 DEF Attempt, Errs
  <2>2. y \in CallType /\ y.pc = "scan" /\ y.nr = x.nr
    BY <1>x, <2>1, SweepGoesOn
  <2>3. disksize # 0
    BY <1>t, <2>1 DEF CallOK
  <2> HIDE DEF y
  <2> QED
    BY <1>1, <1>2, <2>1, <2>2, <2>3
<1>8. ASSUME Candidate(c) PROVE G
  <2> DEFINE z == Charged(x)
             y == [z EXCEPT !.pc = "find"]
  <2>1. x.pc = "scan" /\ ~Finished(x) /\ call' = [call EXCEPT ![c] = y]
    BY <1>8 DEF Candidate
  <2>2. z \in CallType /\ z.nr = x.nr /\ z.index = x.index /\ x.index < x.nr
    BY <1>x, <2>1, SweepGoesOn
  <2>3. disksize # 0
    BY <1>t, <2>1 DEF CallOK
  <2> HIDE DEF z
  <2>4. y \in CallType /\ y.pc = "find" /\ y.nr = z.nr /\ y.index = z.index
    <3>1. "find" \in Pcs
      BY DEF Pcs
    <3> QED
      BY <1>z, <2>2, <3>1, CallFields, Zenon
  <2> HIDE DEF y
  <2> QED
    BY <1>2, <2>1, <2>2, <2>3, <2>4
<1>9. ASSUME FindWorker(c) PROVE G
  <2>1. x.pc = "find" /\ (Returns(c) \/ (worker' /\ Moves(c, "post")))
    BY <1>9, Zenon DEF FindWorker, Errs
  <2>2. "post" \in Pcs
    BY DEF Pcs
  <2>3. disksize # 0 /\ x.index < x.nr
    BY <1>t, <2>1 DEF CallOK
  <2> QED
    BY <1>1, <1>3, <2>1, <2>2, <2>3
<1>10. ASSUME QueueWork(c) PROVE G
  <2> DEFINE z == NextIndex(x)
             y == [z EXCEPT !.pc = "scan"]
  <2>1. x.pc = "post" /\ (Returns(c) \/ call' = [call EXCEPT ![c] = y])
    BY <1>10 DEF QueueWork, Errs
  <2>2. disksize # 0 /\ x.index < x.nr
    BY <1>t, <2>1 DEF CallOK
  <2>3. z \in CallType /\ z.nr = x.nr
    BY <1>x, <2>2, NextPage
  <2> HIDE DEF z
  <2>4. y \in CallType /\ y.pc = "scan" /\ y.nr = z.nr
    <3>1. "scan" \in Pcs
      BY DEF Pcs
    <3> QED
      BY <1>z, <2>3, <3>1, CallFields, Zenon
  <2> HIDE DEF y
  <2> QED
    BY <1>1, <1>2, <2>1, <2>2, <2>3, <2>4
<1>11. G
  BY <1>4, <1>5, <1>6, <1>7, <1>8, <1>9, <1>10 DEF Step
<1> QED
  BY <1>11 DEF G

(* As long as somebody is inside init_lock, the device stays set up.       *)
LEMMA ReadersHoldDevice ==
    ASSUME [Next]_vars, NEW c \in Callers, Inside(c)
    PROVE  disksize' = disksize
<1>1. ~NoReader
  BY DEF NoReader
<1> QED
  BY <1>1, DeviceSteps, Zenon DEF device, ResetDevice, MayReset, Drain, MetaFree,
                                    DestroyComps, DisksizeStore, MaySetUp

(* A job is one of the worker's jobs: its page is a page of the device.    *)
LEMMA JobIsJob ==
    ASSUME NEW x \in CallType, x.index < x.nr
    PROVE  JobOf(x) \in JobType
<1>1. x.index \in 0..NPages /\ x.nr \in 0..NPages /\ NPages \in Nat
  BY RecompressAssumption DEF CallType
<1>2. x.index \in Index
  BY <1>1 DEF Index
<1>3. /\ x.thr \in 0..Huge - 1 /\ x.lo \in 1..MaxComps - 1 /\ x.hi \in 2..MaxComps
      /\ (x.mode \in {"idle", "huge_idle"}) \in BOOLEAN
  BY DEF CallType
<1> QED
  BY <1>2, <1>3, Zenon DEF JobOf, JobType

(* The calls keep their type, and what they found when they came in.       *)
LEMMA CallsNext ==
    ASSUME LifeInv, [Next]_vars
    PROVE  TypeCalls' /\ \A c \in Callers : CallOK(call[c])'
<1> DEFINE G == TypeCalls' /\ \A c \in Callers : CallOK(call[c])'
<1>0. TypeCalls /\ LifeOK /\ \A c \in Callers : CallOK(call[c])
  BY TypeParts DEF LifeInv
<1>1. ASSUME NEW c \in Callers, worker => worker'
      PROVE  CallOK(call[c]) => (/\ call[c].nr \in {0} \cup Sizes
                                 /\ call[c].pc \in {"scan", "find", "post"} => disksize' # 0
                                 /\ call[c].pc \in {"find", "post"} =>
                                        call[c].index < call[c].nr
                                 /\ call[c].pc = "post" => worker')
  BY <1>1, ReadersHoldDevice DEF CallOK, Inside
<1>2. ASSUME call' = call, worker => worker' PROVE G
  <2>1. TypeCalls'
    BY <1>0, <1>2 DEF TypeCalls
  <2>2. ASSUME NEW c \in Callers PROVE CallOK(call[c])'
    BY <1>0, <1>1, <1>2 DEF CallOK
  <2> QED
    BY <2>1, <2>2
<1>3. ASSUME NEW c \in Callers, NEW y \in CallType, call' = [call EXCEPT ![c] = y],
             CallOK(y)', worker => worker'
      PROVE  G
  <2>1. TypeCalls'
    BY <1>0, <1>3 DEF TypeCalls
  <2>2. call'[c] = y /\ \A d \in Callers : d # c => call'[d] = call[d]
    BY <1>0, <1>3 DEF TypeCalls
  <2>3. ASSUME NEW d \in Callers PROVE CallOK(call[d])'
    BY <1>0, <1>1, <1>3, <2>2 DEF CallOK
  <2> QED
    BY <2>1, <2>3
<1> HIDE DEF G
<1>4. ASSUME NEW c \in Callers, Step(c) PROVE G
  <2>1. worker => worker'
    BY <1>4 DEF Step, Enter, EndScan, Skip, Attempt, Candidate, FindWorker, QueueWork, queue
  <2> QED
    BY <1>3, <1>4, <2>1, StepCall
<1>5. ASSUME NEW c \in Callers, NEW q \in Request, NEW cap \in 0..NPages,
             BeginCall(c, q, cap), UNCHANGED worker
      PROVE  G
  <2>1. PICK y \in CallType : /\ call' = [call EXCEPT ![c] = y]
                              /\ y.pc = "enter" /\ y.nr \in {0} \cup Sizes
    BY <1>5, CallBegins DEF LifeInv
  <2>2. CallOK(y)'
    BY <2>1 DEF CallOK
  <2> QED
    BY <1>3, <1>5, <2>1, <2>2
<1>6. ASSUME NEW q \in Requests, WriteNode(q) PROVE G
  <2>1. q \in Request /\ NPages \in 0..NPages /\ "other" \in Callers
    BY RecompressAssumption DEF Callers
  <2> QED
    BY <1>5, <1>6, <2>1 DEF WriteNode, queue
<1>7. ASSUME NEW node \in Nodes, NEW cap \in Caps, Pass(node, cap) PROVE G
  <2>1. Sweep(node) \in Request
    BY RecompressAssumption DEF Sweep, Request
  <2>2. cap \in 0..NPages /\ "loop" \in Callers
    BY RecompressAssumption DEF Callers
  <2> QED
    BY <1>5, <1>7, <2>1, <2>2 DEF Pass, queue
<1>8. ASSUME TakeJob \/ Work PROVE G
  BY <1>2, <1>8 DEF TakeJob, Work
<1>9. ASSUME Drain PROVE G
  <2>1. disksize = 0 /\ call' = call /\ disksize' = disksize
    BY <1>0, <1>9 DEF Drain, LifeOK
  <2>2. ASSUME NEW c \in Callers PROVE CallOK(call[c])'
    BY <1>0, <2>1 DEF CallOK
  <2>3. TypeCalls'
    BY <1>0, <2>1 DEF TypeCalls
  <2> QED
    BY <2>2, <2>3 DEF G
<1>10. ASSUME UNCHANGED <<call, queue>> PROVE G
  BY <1>2, <1>10 DEF queue
<1>11. G
  BY <1>4, <1>6, <1>7, <1>8, <1>9, <1>10, QueueSteps
<1> QED
  BY <1>11 DEF G

(* The queue keeps its type.                                               *)
LEMMA QueueNext ==
    ASSUME LifeInv, [Next]_vars
    PROVE  TypeQueue'
<1>0. TypeQueue /\ TypeOK /\ \A c \in Callers : call[c] \in CallType /\ CallOK(call[c])
  BY TypeParts DEF LifeInv, TypeCalls
<1>1. CASE UNCHANGED queue
  BY <1>0, <1>1 DEF TypeQueue, queue
<1>2. ASSUME NEW c \in Callers, Step(c) PROVE TypeQueue'
  <2>1. CASE UNCHANGED queue
    BY <1>0, <2>1 DEF TypeQueue, queue
  <2>2. CASE FindWorker(c)
    BY <1>0, <2>2 DEF FindWorker, TypeQueue
  <2>3. CASE QueueWork(c)
    <3>1. UNCHANGED <<worker, run>> /\ (jobs' = jobs \/ jobs' = Append(jobs, JobOf(call[c])))
      BY <2>3 DEF QueueWork
    <3>2. call[c].index < call[c].nr
      BY <1>0, <2>3 DEF QueueWork, CallOK
    <3>3. JobOf(call[c]) \in JobType
      BY <1>0, <3>2, JobIsJob
    <3> QED
      BY <1>0, <3>1, <3>3 DEF TypeQueue
  <2> QED
    BY <1>2, <2>1, <2>2, <2>3 DEF Step, Enter, EndScan, Skip, Attempt, Candidate, queue
<1>3. CASE TakeJob
  <2>1. /\ jobs # <<>> /\ run' = Head(jobs) /\ jobs' = Tail(jobs) /\ worker' = worker
    BY <1>3 DEF TakeJob
  <2>2. Head(jobs) \in JobType /\ Tail(jobs) \in Seq(JobType)
    BY <1>0, <2>1 DEF TypeQueue
  <2> QED
    BY <1>0, <2>1, <2>2 DEF TypeQueue
<1>4. CASE Work
  BY <1>0, <1>4 DEF Work, NextJob, TypeQueue
<1>5. CASE Drain
  BY <1>0, <1>5 DEF Drain, TypeQueue
<1>6. ASSUME \/ \E q \in Requests : WriteNode(q)
             \/ \E node \in Nodes, cap \in Caps : Pass(node, cap)
      PROVE  UNCHANGED queue
  BY <1>6 DEF WriteNode, Pass
<1> QED
  BY <1>1, <1>2, <1>3, <1>4, <1>5, <1>6, QueueSteps DEF queue

(* The loop and its clock keep their types.                                *)
LEMMA PolicyNext ==
    ASSUME TypePolicy, [Next]_vars
    PROVE  TypePolicy'
<1>1. CASE UNCHANGED policy
  BY <1>1 DEF TypePolicy, policy
<1>2. ASSUME NEW c \in Callers, Errs(c) PROVE TypePolicy'
  BY <1>2 DEF Errs, TypePolicy
<1>3. ASSUME NEW c \in Callers, Step(c) PROVE TypePolicy'
  BY <1>1, <1>2, <1>3 DEF Step, Enter, EndScan, Skip, Attempt, Candidate, FindWorker, QueueWork
<1>4. CASE WakeUp
  <2>1. loop' \in {"mark", "pass"} /\ ticks' = NextTick
    BY <1>4 DEF WakeUp
  <2>2. ASSUME NEW t \in Nat, NEW m \in Nat
        PROVE  (IF m = 0 THEN 1 ELSE (t + 1) % m) \in Nat
    OBVIOUS
  <2>3. NextTick \in Nat
    BY <2>2, RecompressAssumption DEF NextTick, TypePolicy
  <2> QED
    BY <2>1, <2>3 DEF TypePolicy
<1>5. ASSUME NEW cold \in SUBSET Index, MarkIdle(cold) PROVE TypePolicy'
  <2>1. loop' \in {"dead", "sleep", "pass"} /\ ticks' = ticks
    BY <1>5, Zenon DEF MarkIdle
  <2> QED
    BY <2>1 DEF TypePolicy
<1>6. ASSUME NEW node \in Nodes, NEW cap \in Caps, Pass(node, cap) PROVE TypePolicy'
  BY <1>6 DEF Pass, TypePolicy
<1>7. CASE UserLoop
  BY <1>4, <1>5, <1>6, <1>7 DEF UserLoop
<1>8. ASSUME NEW i \in Index, SlotFree(i) \/ Accessed(i) \/ UnderWb(i) \/ WritebackEnds(i)
      PROVE  UNCHANGED policy
  BY <1>8 DEF SlotFree, Accessed, UnderWb, WritebackEnds
<1>9. ASSUME NEW i \in Index, NEW c \in Contents, Store(i, c) PROVE UNCHANGED policy
  BY <1>9 DEF Store
<1>10. ASSUME NEW q \in Requests, WriteNode(q) PROVE UNCHANGED policy
  BY <1>10 DEF WriteNode
<1>11. ASSUME Worker \/ Reset \/ ResetDevice \/ \E n \in Sizes : DisksizeStore(n)
       PROVE  UNCHANGED policy
  BY <1>11 DEF Worker, Reset, TakeJob, Work, Drain, MetaFree, DestroyComps,
               ResetDevice, DisksizeStore
<1>12. CASE UNCHANGED vars
  BY <1>1, <1>12 DEF vars
<1> QED
  BY <1>1, <1>3, <1>7, <1>8, <1>9, <1>10, <1>11, <1>12 DEF Next

(* Stores and failures are counted up to their bounds.                     *)
LEMMA BoundsNext ==
    ASSUME TypeBounds, [Next]_vars
    PROVE  TypeBounds'
<1>1. CASE UNCHANGED bounds
  BY <1>1 DEF TypeBounds, bounds
<1>2. CASE Fail
  BY <1>2, RecompressAssumption DEF Fail, MayFail, TypeBounds
<1>3. ASSUME NEW i \in Index, NEW c \in Contents, Store(i, c) PROVE TypeBounds'
  <2>1. stores < MaxStores /\ stores' = stores + 1 /\ fails' = fails
    BY <1>3 DEF Store
  <2> QED
    BY <2>1, RecompressAssumption DEF TypeBounds
<1>4. ASSUME NEW c \in Callers, Step(c) PROVE UNCHANGED bounds \/ Fail
  BY <1>4 DEF Step, Enter, EndScan, Skip, Attempt, Candidate, FindWorker, QueueWork
<1>5. ASSUME Worker \/ Reset \/ ResetDevice \/ UserLoop \/ \E n \in Sizes : DisksizeStore(n)
      PROVE  UNCHANGED bounds \/ Fail
  BY <1>5 DEF Worker, Reset, TakeJob, Work, Drain, MetaFree, DestroyComps, ResetDevice,
              DisksizeStore,              UserLoop, WakeUp, MarkIdle, Pass
<1>6. ASSUME NEW i \in Index, SlotFree(i) \/ Accessed(i) \/ UnderWb(i) \/ WritebackEnds(i)
      PROVE  UNCHANGED bounds
  BY <1>6 DEF SlotFree, Accessed, UnderWb, WritebackEnds
<1>7. ASSUME NEW q \in Requests, WriteNode(q) PROVE UNCHANGED bounds
  BY <1>7 DEF WriteNode
<1>8. CASE UNCHANGED vars
  BY <1>1, <1>8 DEF vars
<1> QED
  BY <1>1, <1>2, <1>3, <1>4, <1>5, <1>6, <1>7, <1>8 DEF Next

-----------------------------------------------------------------------------
(* The life of the device                                                  *)

(* What the reset takes down is not in use: the device keeps its type, and *)
(* the invariant its part on the device.                                   *)
LEMMA LifeNext ==
    ASSUME LifeInv, [Next]_vars
    PROVE  TypeDevice' /\ LifeOK'
<1> DEFINE G == TypeDevice' /\ LifeOK'
<1>0. TypeDevice /\ LifeOK /\ \A c \in Callers : CallOK(call[c])
  BY TypeParts DEF LifeInv
<1>n. 0 \notin Sizes
  BY RecompressAssumption
<1>1. ASSUME UNCHANGED device, worker' => worker \/ disksize # 0,
             jobs' # <<>> \/ run' # NoJob => worker'
      PROVE  G
  <2>1. TypeDevice'
    BY <1>0, <1>1 DEF TypeDevice, device
  <2>2. LifeOK'
    BY <1>0, <1>1, Zenon DEF LifeOK, PoolOK, device
  <2> QED
    BY <2>1, <2>2
<1>2. ASSUME UNCHANGED queue, NEW n \in Sizes, DisksizeStore(n) PROVE G
  <2>0. /\ disksize = 0 /\ stage # "drain" /\ stage' = stage
        /\ Overlap \/ stage = "none"
    BY <1>0, <1>2, Zenon DEF DisksizeStore, MaySetUp, LifeOK
  <2>q. ~worker' /\ jobs' = <<>> /\ run' = NoJob
    BY <1>0, <1>2, <2>0, Zenon DEF LifeOK, queue
  <2>e. ASSUME ~Overlap PROVE comps = {} /\ active = 1
    <3>1. comps = {} /\ active = 1 + Cardinality(comps)
      BY <1>0, <2>0, <2>e, Zenon DEF LifeOK, PoolOK
    <3>2. Cardinality(comps) = 0
      BY <3>1, FewPrios, Zenon
    <3> QED
      BY <3>1, <3>2
  <2>1. CASE /\ disksize' = n /\ table' = TRUE /\ comps' = Prios
             /\ active' = active + Cardinality(Prios)
    <3>1. active' \in Nat /\ 1 + Cardinality(comps') <= active'
      <4>1. Cardinality(comps) \in Nat /\ active \in Nat /\ 1 + Cardinality(comps) <= active
        BY <1>0, FewComps DEF LifeOK
      <4>2. Cardinality(Prios) \in Nat /\ Cardinality(comps') = Cardinality(Prios)
        BY <2>1, FewPrios, Zenon
      <4> QED
        BY <2>1, <4>1, <4>2
    <3>2. ASSUME ~Overlap PROVE active' = 1 + Cardinality(comps')
      BY <2>1, <2>e, <3>2, Zenon
    <3>3. disksize' # 0
      BY <1>n, <2>1
    <3>4. TypeDevice'
      BY <1>0, <2>0, <2>1, <3>1 DEF TypeDevice
    <3>5. (~Overlap => PoolOK)'
      BY <2>0, <2>1, <3>2, <3>3, Zenon DEF PoolOK
    <3>6. LifeOK'
      BY <2>0, <2>q, <3>1, <3>5, Zenon DEF LifeOK
    <3> QED
      BY <3>4, <3>6
  <2>2. ASSUME disksize' = 0, table' = FALSE, comps' \subseteq comps,
               active' \in Nat, 1 + Cardinality(comps') <= active',
               ~Overlap => active' = 1
        PROVE  G
    <3>1. TypeDevice'
      BY <1>0, <2>0, <2>2 DEF TypeDevice
    <3>2. (~Overlap => PoolOK)'
      <4>1. ~Overlap => comps' = {} /\ stage' = "none"
        BY <2>0, <2>2, <2>e
      <4>2. ~Overlap => active' = 1 + Cardinality(comps')
        BY <2>2, <4>1, FewPrios
      <4> QED
        BY <2>2, <4>1, <4>2, Zenon DEF PoolOK
    <3>3. LifeOK'
      BY <2>0, <2>2, <2>q, <3>2, Zenon DEF LifeOK
    <3> QED
      BY <3>1, <3>3
  <2>3. CASE table' = FALSE /\ UNCHANGED <<disksize, comps, active>>
    BY <1>0, <2>0, <2>2, <2>3, <2>e DEF LifeOK
  <2>4. ASSUME NEW p \in Prios, table' = FALSE, comps' = {}, disksize' = disksize,
               active' = active - Cardinality({q \in comps : q >= p})
        PROVE  G
    <3>1. /\ Cardinality(comps) \in Nat /\ Cardinality({q \in comps : q >= p}) \in Nat
          /\ Cardinality({q \in comps : q >= p}) <= Cardinality(comps)
      BY <1>0, FewComps
    <3>2. active' \in Nat /\ 1 <= active'
      BY <1>0, <2>4, <3>1 DEF LifeOK
    <3>3. 1 + Cardinality(comps') <= active'
      BY <2>4, <3>2, FewPrios
    <3>4. ASSUME ~Overlap PROVE active' = 1
      <4>1. {q \in comps : q >= p} = {} /\ active = 1
        BY <2>e, <3>4
      <4>2. Cardinality({q \in comps : q >= p}) = 0
        BY <4>1, FewPrios, Zenon
      <4> QED
        BY <2>4, <4>1, <4>2
    <3> QED
      BY <2>0, <2>2, <2>4, <3>2, <3>3, <3>4
  <2> QED
    BY <1>2, <2>1, <2>3, <2>4 DEF DisksizeStore
<1>3. ASSUME UNCHANGED queue, ResetDevice PROVE G
  <2>1. /\ disksize # 0 /\ stage = "none" /\ disksize' = 0 /\ stage' = "drain"
        /\ table' = table /\ comps' = comps /\ active' = active
    BY <1>3 DEF ResetDevice, MayReset
  <2>2. TypeDevice'
    BY <1>0, <2>1 DEF TypeDevice
  <2>3. LifeOK'
    BY <1>0, <1>3, <2>1, Zenon DEF LifeOK, PoolOK, queue
  <2> QED
    BY <2>2, <2>3
<1>4. ASSUME Drain PROVE G
  <2>1. /\ stage = "drain" /\ stage' = "free" /\ worker' = FALSE
        /\ disksize' = disksize /\ table' = table /\ comps' = comps /\ active' = active
        /\ jobs' = <<>> /\ run' = NoJob
    BY <1>4 DEF Drain, Flushed
  <2>2. TypeDevice'
    BY <1>0, <2>1 DEF TypeDevice
  <2>3. (~Overlap => PoolOK)'
    BY <1>0, <2>1, Zenon DEF LifeOK, PoolOK
  <2>4. LifeOK'
    BY <1>0, <2>1, <2>3, Zenon DEF LifeOK
  <2> QED
    BY <2>2, <2>4
<1>5. ASSUME UNCHANGED queue, MetaFree PROVE G
  <2>1. /\ stage = "free" /\ stage' = "comps" /\ disksize' = disksize
        /\ comps' = comps /\ active' = active /\ table' = FALSE
    BY <1>5 DEF MetaFree
  <2>2. TypeDevice'
    BY <1>0, <2>1 DEF TypeDevice
  <2>3. (~Overlap => PoolOK)'
    BY <1>0, <2>1, Zenon DEF LifeOK, PoolOK
  <2>4. LifeOK'
    BY <1>0, <1>5, <2>1, <2>3, Zenon DEF LifeOK, queue
  <2> QED
    BY <2>2, <2>4
<1>d. ASSUME UNCHANGED queue, DestroyComps PROVE G
  <2>1. /\ stage = "comps" /\ stage' = "none" /\ disksize' = disksize
        /\ comps' = {} /\ active' = active - Cardinality(comps) /\ table' = table
    BY <1>d DEF DestroyComps
  <2>2. Cardinality(comps) \in Nat /\ active \in Nat /\ 1 + Cardinality(comps) <= active
    BY <1>0, FewComps DEF LifeOK
  <2>3. active' \in Nat /\ 1 + Cardinality(comps') <= active'
    BY <2>1, <2>2, FewPrios
  <2>4. TypeDevice'
    BY <1>0, <2>1, <2>3 DEF TypeDevice
  <2>5. (~Overlap => PoolOK)'
    <3>1. ~Overlap => active' = 1 + Cardinality(comps')
      BY <1>0, <2>1, <2>2, FewPrios DEF LifeOK, PoolOK
    <3>2. ~Overlap => disksize' = 0
      BY <1>0, <2>1, Zenon DEF LifeOK, PoolOK
    <3> QED
      BY <2>1, <3>1, <3>2, Zenon DEF PoolOK
  <2>6. LifeOK'
    BY <1>0, <1>d, <2>1, <2>3, <2>5, Zenon DEF LifeOK, queue
  <2> QED
    BY <2>4, <2>6
<1> HIDE DEF G
<1>6. ASSUME UNCHANGED queue, UNCHANGED device PROVE G
  BY <1>0, <1>1, <1>6 DEF queue, LifeOK
<1>7. ASSUME NEW c \in Callers, Step(c) PROVE G
  <2>0. UNCHANGED device
    BY <1>7 DEF Step, Enter, EndScan, Skip, Attempt, Candidate, FindWorker, QueueWork
  <2>1. CASE UNCHANGED queue
    BY <1>6, <2>0, <2>1
  <2>2. CASE FindWorker(c)
    <3>1. disksize # 0
      BY <1>0, <2>2 DEF FindWorker, CallOK
    <3>2. UNCHANGED <<jobs, run>> /\ (worker => worker')
      BY <2>2 DEF FindWorker
    <3> QED
      BY <1>0, <1>1, <2>0, <3>1, <3>2 DEF LifeOK
  <2>3. CASE QueueWork(c)
    <3>1. worker /\ worker' = worker
      BY <1>0, <2>3 DEF QueueWork, CallOK
    <3> QED
      BY <1>1, <2>0, <3>1
  <2> QED
    BY <1>7, <2>1, <2>2, <2>3 DEF Step, Enter, EndScan, Skip, Attempt, Candidate, queue
<1>8. ASSUME TakeJob \/ Work PROVE G
  <2>1. UNCHANGED device /\ worker' = worker /\ (jobs # <<>> \/ run # NoJob)
    BY <1>8 DEF TakeJob, Work
  <2>2. worker
    BY <1>0, <2>1 DEF LifeOK
  <2> QED
    BY <1>1, <2>1, <2>2
<1>9. ASSUME \/ \E q \in Requests : WriteNode(q)
             \/ \E node \in Nodes, cap \in Caps : Pass(node, cap)
      PROVE  UNCHANGED queue
  BY <1>9 DEF WriteNode, Pass
<1>10. ASSUME \/ ResetDevice \/ MetaFree \/ DestroyComps
              \/ \E n \in Sizes : DisksizeStore(n)
       PROVE  UNCHANGED queue
  BY <1>10 DEF ResetDevice, MetaFree, DestroyComps, DisksizeStore
<1>11. ASSUME UNCHANGED device PROVE G
  BY <1>4, <1>6, <1>7, <1>8, <1>9, <1>11, QueueSteps DEF queue
<1>12. G
  BY <1>2, <1>3, <1>4, <1>5, <1>d, <1>10, <1>11, DeviceSteps
<1> QED
  BY <1>12 DEF G

(* It holds of the device as zram_add() makes it.                          *)
LEMMA LifeInit == Init => LifeInv
<1> SUFFICES ASSUME Init PROVE LifeInv
  OBVIOUS
<1>0. /\ disksize = 0 /\ table = FALSE /\ comps = {} /\ active = 1 /\ stage = "none"
      /\ worker = FALSE /\ jobs = <<>> /\ run = NoJob
      /\ loop = "sleep" /\ ticks = 0 /\ stores = 0 /\ fails = 0
  BY Zenon DEF Init, ActiveAtAdd
<1>1. TypeDevice /\ TypePolicy
  BY <1>0 DEF TypeDevice, TypePolicy
<1>b. TypeBounds
  BY <1>0, RecompressAssumption DEF TypeBounds
<1>2. TypeSlots
  BY FewPrios DEF Init, FreeSlot, TypeSlots, SlotType
<1>3. TypeCalls /\ \A c \in Callers : CallOK(call[c])
  BY NoCallOK DEF Init, TypeCalls, CallOK
<1>4. TypeQueue
  <2>1. <<>> \in Seq(JobType)
    OBVIOUS
  <2> QED
    BY <1>0, <2>1, Zenon DEF TypeQueue
<1>5. LifeOK
  <2>1. active = 1 + Cardinality(comps) /\ active \in Nat
    BY <1>0, FewPrios
  <2>2. 1 + Cardinality(comps) <= active
    BY <2>1
  <2>3. PoolOK
    BY <1>0, <2>1, Zenon DEF PoolOK
  <2> QED
    BY <1>0, <2>1, <2>2, <2>3, Zenon DEF LifeOK
<1> QED
  BY <1>1, <1>b, <1>2, <1>3, <1>4, <1>5, TypeParts DEF LifeInv

(* Every step keeps it.                                                    *)
LEMMA LifeStep == LifeInv /\ [Next]_vars => LifeInv'
<1> SUFFICES ASSUME LifeInv, [Next]_vars PROVE LifeInv'
  OBVIOUS
<1>1. TypeSlots'
  BY SlotsNext DEF LifeInv
<1>2. TypeCalls' /\ \A c \in Callers : CallOK(call[c])'
  BY CallsNext
<1>3. TypeQueue' /\ TypeDevice' /\ LifeOK'
  BY QueueNext, LifeNext
<1>4. TypePolicy' /\ TypeBounds'
  BY TypeParts, PolicyNext, BoundsNext DEF LifeInv
<1>5. TypeOK'
        <=> (TypeDevice /\ TypeSlots /\ TypeCalls /\ TypeQueue /\ TypePolicy /\ TypeBounds)'
  BY TypeParts, PTL
<1> QED
  BY <1>1, <1>2, <1>3, <1>4, <1>5 DEF LifeInv

-----------------------------------------------------------------------------
(* The theorems                                                            *)

(* The device's life, its queue and its calls agree in every state.        *)
THEOREM LifeCorrect == Spec => []LifeInv
BY LifeInit, LifeStep, PTL DEF Spec

(* Every variable has its type, and the sweeps' caps never wrap.           *)
THEOREM TypesCorrect == Spec => []TypeOK
<1>1. LifeInv => TypeOK
  BY DEF LifeInv
<1> QED
  BY <1>1, LifeCorrect, PTL

(* A state of the invariant is one in which every job finds what it needs. *)
LEMMA LifeServesJobs ==
    ASSUME OneSize, ~Overlap, LifeInv
    PROVE  JobsAlive
<1>0. TypeDevice /\ LifeOK /\ TypeOK /\ \A c \in Callers : CallOK(call[c])
  BY TypeParts DEF LifeInv
<1>1. jobs # <<>> \/ run # NoJob => worker /\ table /\ comps = Prios
  BY <1>0, Zenon DEF LifeOK, PoolOK
<1>2. \A c \in Callers : call[c].pc = "post" => worker
  BY <1>0 DEF CallOK
<1>3. ASSUME NEW c \in Callers, call[c].pc = "scan", ~Finished(call[c])
      PROVE  table /\ call[c].index < disksize
  <2>1. call[c].index \in Nat /\ call[c].index < call[c].nr
    BY <1>0, <1>3, CallBound, SweepGoesOn
  <2>2. call[c].nr \in Sizes /\ disksize \in Sizes
    BY <1>0, <1>3, <2>1 DEF CallOK, TypeDevice
  <2>3. call[c].nr = disksize
    BY <2>2 DEF OneSize
  <2>4. table
    BY <1>0, <1>3 DEF CallOK, LifeOK, PoolOK
  <2> QED
    BY <2>1, <2>3, <2>4
<1> QED
  BY <1>1, <1>2, <1>3 DEF JobsAlive, JobsSeeLivePool, SweepsInTable

(* No job outlives the table, the compressors and the worker it was queued *)
(* for, and no sweep leaves the table, as long as the device is always set *)
(* up with one size, and never before a reset is over: a sweep reads its   *)
(* bound before the lock, and the reset frees after it.                    *)
THEOREM JobsOutliveNothing ==
    ASSUME OneSize, ~Overlap
    PROVE  Spec => []JobsAlive
<1>1. LifeInv => JobsAlive
  BY LifeServesJobs
<1> QED
  BY <1>1, LifeCorrect, PTL

(* No step of a sweep and no job, whenever it was queued, changes a slot   *)
(* that is empty, on its way to the backing device, or there.              *)
THEOREM AwayIsUntouched == Spec => AwayUntouched
<1>1. LifeInv /\ [Next]_vars => [Untouched]_vars
  BY SlotsNext DEF LifeInv
<1>2. Spec => [][Untouched]_vars
  BY <1>1, LifeCorrect, PTL DEF Spec
<1> QED
  BY <1>2 DEF AwayUntouched, Untouched
=============================================================================
