--------------------------- MODULE ZramPagesProofs ---------------------------
(***************************************************************************)
(* What TLAPS proves of the pages' contents: however writeback, idle       *)
(* marks, recompression and resets interleave, the device is an array of   *)
(* pages to its user (PageStore).                                          *)
(***************************************************************************)
EXTENDS ZramBlocksProofs

-----------------------------------------------------------------------------
(* The invariant                                                           *)

(* What a request must hold for the slot that it is about, and how a read  *)
(* of a written-back slot decodes the block.                               *)
Expected(sl) == IF compressed THEN RawObject(sl) ELSE PageOf(sl)
Encoding(sl) == IF compressed /\ sl.kind # "huge" THEN sl.prio ELSE Raw

(* A page is in memory, or on the device as a read expects it.             *)
ContentOf(i) == IF slot[i].wb THEN Decoded(block[slot[i].blk], Encoding(slot[i]))
                ELSE slot[i].val
ContentOK == \A i \in Index : ContentOf(i) = last[i]

(* A request that holds the page of a slot nobody has touched since, and   *)
(* a page read without compression.                                        *)
Holding(s, r, i) ==
    \/ sw[s].pc = "submit" /\ sw[s].held = r /\ sw[s].index = i
    \/ req[s][r].st \in {"flight", "done"} /\ req[s][r].idx = i
BufferOK ==
    /\ \A s \in Sweeps : sw[s].pc = "read" => ~compressed
    /\ \A s \in Sweeps, r \in Reqs, i \in Index :
          Holding(s, r, i) /\ Unchanged(slot[i]) => req[s][r].data = Expected(slot[i])
(* Once its bio has succeeded, the block holds what the request holds.     *)
BlockOK == \A s \in Sweeps, r \in Reqs :
    req[s][r].st = "done" /\ ~req[s][r].err => block[req[s][r].blk] = req[s][r].data

(* The user reads from a device that it has open, and from the block that  *)
(* the slot still has.  Only a read that went on to __zram_bvec_read() and *)
(* found a compressed block there returns what was not stored.             *)
ReaderOK ==
    LET sl == slot[rd.idx]
    IN /\ rd.pc # "off" => open /\ rd.idx < disksize
       /\ rd.pc \in {"bdev", "decompress"} => sl.wb
       /\ rd.pc = "bdev" =>
             /\ rd.blk = sl.blk
             /\ IF rd.raw THEN rd.gap <=> compressed /\ sl.kind # "huge"
                ELSE compressed /\ sl.kind # "huge"
       /\ rd.pc = "decompress" =>
             compressed /\ sl.kind # "huge" /\ rd.data = block[sl.blk]
       /\ rd.pc = "end" /\ ~rd.gap => rd.val = last[rd.idx]

PagesInv == ContentOK /\ BufferOK /\ BlockOK /\ ReaderOK

-----------------------------------------------------------------------------
(* What keeps still                                                        *)

(* wb_compressed is set while there is no sweep and nothing is stored.     *)
LEMMA CompressedKept ==
    ASSUME OneSetup, ControlInv, FreeOutside, [Next]_vars
    PROVE  \/ UNCHANGED compressed
           \/ /\ disksize = 0 /\ NoReader
              /\ UNCHANGED <<slot, block, last, sw, req, rd, open, disksize>>
              /\ \A i \in Index : ~slot[i].wb
<1>0. DeviceOK /\ (disksize = 0 => NoReader)
  BY DEF ControlInv, SweepOK, LiveOK, NoReader
<1> DEFINE G == \/ UNCHANGED compressed
                \/ /\ disksize = 0 /\ NoReader
                   /\ UNCHANGED <<slot, block, last, sw, req, rd, open, disksize>>
                   /\ \A i \in Index : ~slot[i].wb
<1>1. ASSUME NEW v \in BOOLEAN, CompressedStore(v) PROVE G
  <2>1. /\ disksize = 0 /\ NoReader /\ ~Freeing
        /\ UNCHANGED <<slot, block, last, sw, req, rd, open, disksize>>
    BY <1>1 DEF CompressedStore, Admin, OneSetup, Freeing
  <2> QED
    BY <2>1, NothingStored
<1>2. ASSUME ZramAdd PROVE G
  <2>1. /\ disksize = 0 /\ stage = "none"
        /\ UNCHANGED <<slot, block, last, sw, req, rd, open, disksize>>
    BY <1>0, <1>2 DEF ZramAdd, DeviceOK
  <2>2. ~Freeing
    BY <2>1 DEF Freeing
  <2> QED
    BY <1>0, <2>1, <2>2, NothingStored
<1>3. \/ UNCHANGED compressed \/ ZramAdd \/ \E v \in BOOLEAN : CompressedStore(v)
  BY DeviceSteps DEF device, Open, Close, BackingDevStore, MetaFree, ResetBdev,
     RemoveDetach, BatchSizeStore, DisksizeStore, ResetDevice
<1> HIDE DEF G
<1>4. G
  BY <1>1, <1>2, <1>3 DEF G
<1> QED
  BY <1>4 DEF G

(* Only a bio that ends well changes a block.                              *)
LEMMA BlockChanges ==
    ASSUME [Next]_vars
    PROVE  \/ UNCHANGED block
           \/ \E s \in Sweeps, r \in Reqs : Endio(s, r, FALSE)
<1>1. ASSUME NEW s \in Sweeps, NEW r \in Reqs, NEW err \in BOOLEAN, Endio(s, r, err)
      PROVE  UNCHANGED block \/ Endio(s, r, FALSE)
  <2>1. CASE err = TRUE
    BY <1>1, <2>1 DEF Endio
  <2>2. CASE err = FALSE
    BY <1>1, <2>2
  <2> QED
    BY <2>1, <2>2
<1>2. \/ UNCHANGED block
      \/ \E s \in Sweeps, r \in Reqs, err \in BOOLEAN : Endio(s, r, err)
  BY BdevSteps DEF SlotFree, Store, BackingDevStore, MetaFree, ResetBdev, RemoveDetach,
     Reserve, Tail, Complete, CompleteError
<1> QED
  BY <1>1, <1>2

(* ... and what it writes: a block that no slot and no other request has.  *)
LEMMA BlockWritten ==
    ASSUME ControlInv, OwnersOK, NEW s \in Sweeps, NEW r \in Reqs, Endio(s, r, FALSE)
    PROVE  /\ block'[req[s][r].blk] = req[s][r].data
           /\ \A i \in Index : slot[i].wb => block'[slot[i].blk] = block[slot[i].blk]
           /\ \A t \in Sweeps, q \in Reqs :
                 (t # s \/ q # r) /\ req[t][q].st \in {"flight", "done"}
                     => block'[req[t][q].blk] = block[req[t][q].blk]
<1>0. TypeSlots /\ TypeBdev /\ TypeReqs /\ HasBlock
  BY TypeParts DEF ControlInv
<1>1. req[s][r].st = "flight" /\ block' = [block EXCEPT ![req[s][r].blk] = req[s][r].data]
  BY DEF Endio
<1>2. PICK b \in Blocks : b = req[s][r].blk
  BY <1>1, InTable
<1>b. 0 \notin Blocks
  BY DEF Blocks
<1>3. block'[b] = req[s][r].data /\ \A c \in Blocks : c # b => block'[c] = block[c]
  BY <1>0, <1>1, <1>2 DEF TypeBdev
<1>k. PICK k \in Owners : k = <<"req", s, r>> /\ Owns[k] = b
  BY <1>1, <1>2, OwnerKeys, OwnsWhat DEF ReqOwns
<1>4. ASSUME NEW i \in Index, slot[i].wb PROVE block'[slot[i].blk] = block[slot[i].blk]
  <2>1. slot[i].blk \in Blocks
    BY <1>0, <1>4, SlotFields DEF HasBlock
  <2>2. PICK l \in Owners : l = <<"slot", i, 0>> /\ Owns[l] = slot[i].blk
    BY <1>4, OwnerKeys, OwnsWhat DEF SlotOwns
  <2>3. k # l
    BY <1>k, <2>2
  <2>4. slot[i].blk # b
    BY <1>b, <1>k, <2>1, <2>2, <2>3 DEF OwnersOK, Accounted
  <2> QED
    BY <1>3, <2>1, <2>4
<1>5. ASSUME NEW t \in Sweeps, NEW q \in Reqs, t # s \/ q # r,
             req[t][q].st \in {"flight", "done"}
      PROVE  block'[req[t][q].blk] = block[req[t][q].blk]
  <2>1. req[t][q].blk \in Blocks
    BY <1>5, InTable
  <2>2. PICK l \in Owners : l = <<"req", t, q>> /\ Owns[l] = req[t][q].blk
    BY <1>5, OwnerKeys, OwnsWhat DEF ReqOwns
  <2>3. k # l
    BY <1>k, <1>5, <2>2
  <2>4. req[t][q].blk # b
    BY <1>b, <1>k, <2>1, <2>2, <2>3 DEF OwnersOK, Accounted
  <2> QED
    BY <1>3, <2>1, <2>4
<1> QED
  BY <1>2, <1>3, <1>4, <1>5

SamePage(i) == /\ slot'[i].kind = slot[i].kind /\ slot'[i].val = slot[i].val
               /\ slot'[i].prio = slot[i].prio

(* A slot that is marked and still looks untouched after a step has not    *)
(* been touched: a store, a free, an access and a completion take the idle *)
(* flag away, and idle marking, recompression and other sweeps pass by.    *)
LEMMA MarkedKept ==
    ASSUME ControlInv, [Next]_vars, NEW i \in Index, slot[i].under, Unchanged(slot'[i])
    PROVE  Unchanged(slot[i]) /\ SamePage(i)
<1>0. TypeSlots /\ TypeSweeps /\ TypeReqs
  BY TypeParts DEF ControlInv
<1>u. slot'[i].kind # "free" /\ slot'[i].idle
  BY DEF Unchanged
<1> DEFINE G == Unchanged(slot[i]) /\ SamePage(i)
<1>1. ASSUME slot'[i] = slot[i] PROVE G
  BY <1>1, <1>u DEF Unchanged, SamePage
<1>2. ASSUME NEW j \in Index, SlotsKeptBut(j), j # i PROVE G
  BY <1>1, <1>2 DEF SlotsKeptBut
<1>3. ASSUME NEW j \in Index, SlotsKeptBut(j), ~slot[j].under \/ ~slot'[j].idle
                                                 \/ slot'[j].kind = "free"
      PROVE  G
  BY <1>2, <1>3, <1>u
<1>4. ASSUME NEW j \in Index, SlotFree(j) PROVE G
  BY <1>0, <1>3, <1>4, SlotFreeEffect DEF SlotTurns
<1>5. ASSUME NEW j \in Index, Accessed(j) PROVE G
  BY <1>0, <1>3, <1>5, AccessedEffect DEF FlagsTurn, SlotTurns
<1>6. ASSUME NEW j \in Index, NEW v \in Vals, NEW k \in Kinds, Store(j, v, k) PROVE G
  BY <1>0, <1>3, <1>6, StoreEffect DEF SlotTurns
<1>7. ASSUME NEW j \in Index, NEW b \in BOOLEAN, MarkIdle(j, b) PROVE G
  BY <1>0, <1>3, <1>7, MarkIdleEffect
<1>8. ASSUME NEW j \in Index, NEW b \in BOOLEAN, Recompress(j, b) PROVE G
  BY <1>0, <1>3, <1>8, RecompressEffect
<1>9. ASSUME slot' = [j \in Index |-> FreeSlot] PROVE G
  BY <1>9, <1>u, FreshTable DEF SlotTurns
<1>10. ASSUME NEW n \in 1..MaxPages, DisksizeStore(n) PROVE G
  BY <1>9, <1>10 DEF DisksizeStore
<1>11. ASSUME MetaFree PROVE G
  BY <1>9, <1>11 DEF MetaFree
<1>12. ASSUME NEW s \in Sweeps, Mark(s) PROVE G
  <2>1. PICK j \in Index : j = sw[s].index
    BY <1>12, InTable DEF Mark, At
  <2>2. slot' = slot \/ (SlotsKeptBut(j) /\ ~slot[j].under)
    BY <1>0, <1>12, <2>1, MarkSlot
  <2> QED
    BY <1>1, <1>3, <2>2
<1>13. ASSUME NEW s \in Sweeps, ReadFails(s) PROVE G
  <2>1. PICK j \in Index : j = sw[s].index
    BY <1>13, InTable DEF ReadFails, At
  <2>2. SlotsKeptBut(j) /\ ~slot'[j].idle
    BY <1>0, <1>13, <2>1, ReadFailsSlot DEF FlagsTurn, SlotTurns
  <2> QED
    BY <1>3, <2>2
<1>14. ASSUME NEW s \in Sweeps, NEW r \in Reqs, Complete(s, r) \/ UnmarkFailed(s, r)
       PROVE  G
  <2>1. PICK j \in Index : j = req[s][r].idx
    BY <1>14, InTable DEF Complete, UnmarkFailed, At
  <2>2. SlotsKeptBut(j) /\ ~slot'[j].idle
    BY <1>0, <1>14, <2>1, CompleteSlot, UnmarkFailedSlot DEF FlagsTurn, SlotTurns
  <2> QED
    BY <1>3, <2>2
<1> HIDE DEF G
<1>15. G
  BY <1>1, <1>4, <1>5, <1>6, <1>7, <1>8, <1>10, <1>11, <1>12, <1>13, <1>14, SlotSteps
<1> QED
  BY <1>15 DEF G

SameBlock(i) == /\ slot'[i].wb /\ slot'[i].blk = slot[i].blk
                /\ slot'[i].kind = slot[i].kind /\ slot'[i].prio = slot[i].prio

(* A written-back slot keeps its block until the user, who does not while  *)
(* reading it, stores to it or frees it, or the device is reset.           *)
LEMMA BlockKept ==
    ASSUME OneSetup, ControlInv, MarksOK, [Next]_vars, NEW i \in Index, slot[i].wb,
           open, i < disksize, rd.pc # "off", rd.idx = i
    PROVE  SameBlock(i)
<1>0. TypeSlots /\ TypeSweeps /\ TypeReqs /\ TypeDevice /\ DeviceOK
  BY TypeParts DEF ControlInv
<1>d. disksize # 0 /\ stage = "none"
  <2>1. i \in Nat /\ disksize \in Nat
    BY <1>0, ZramAssumption DEF TypeDevice, Index
  <2> QED
    BY <1>0, <2>1 DEF DeviceOK
<1> DEFINE G == SameBlock(i)
<1>1. ASSUME slot'[i] = slot[i] PROVE G
  BY <1>1 DEF SameBlock
<1>2. ASSUME NEW j \in Index, SlotsKeptBut(j), j # i PROVE G
  BY <1>1, <1>2 DEF SlotsKeptBut
<1>3. ASSUME NEW j \in Index, SlotsKeptBut(j), NEW a, NEW b, FlagsTurn(j, a, b) PROVE G
  BY <1>2, <1>3 DEF FlagsTurn, SlotTurns, SameBlock
<1>4. ASSUME NEW j \in Index, SlotFree(j) PROVE G
  BY <1>0, <1>2, <1>4, SlotFreeEffect DEF Writable
<1>5. ASSUME NEW j \in Index, Accessed(j) PROVE G
  BY <1>0, <1>3, <1>5, AccessedEffect
<1>6. ASSUME NEW j \in Index, NEW v \in Vals, NEW k \in Kinds, Store(j, v, k) PROVE G
  BY <1>0, <1>2, <1>6, StoreEffect DEF Writable
<1>7. ASSUME NEW j \in Index, NEW b \in BOOLEAN, MarkIdle(j, b) PROVE G
  BY <1>0, <1>2, <1>7, MarkIdleEffect
<1>8. ASSUME NEW j \in Index, NEW b \in BOOLEAN, Recompress(j, b) PROVE G
  BY <1>0, <1>2, <1>8, RecompressEffect
<1>10. ASSUME NEW n \in 1..MaxPages, DisksizeStore(n) PROVE G
  BY <1>d, <1>10 DEF DisksizeStore
<1>11. ASSUME MetaFree PROVE G
  BY <1>d, <1>11 DEF MetaFree
<1>12. ASSUME NEW s \in Sweeps, Mark(s) \/ ReadFails(s) PROVE G
  <2>1. PICK j \in Index : j = sw[s].index
    BY <1>12, InTable DEF Mark, ReadFails, At
  <2>2. slot' = slot \/ (SlotsKeptBut(j) /\ \E a, b \in BOOLEAN : FlagsTurn(j, a, b))
    BY <1>0, <1>12, <2>1, MarkSlot, ReadFailsSlot
  <2> QED
    BY <1>1, <1>3, <2>2
<1>13. ASSUME NEW s \in Sweeps, NEW r \in Reqs, UnmarkFailed(s, r) PROVE G
  <2>1. PICK j \in Index : j = req[s][r].idx
    BY <1>13, InTable DEF UnmarkFailed, At
  <2> QED
    BY <1>0, <1>3, <1>13, <2>1, UnmarkFailedSlot
<1>14. ASSUME NEW s \in Sweeps, NEW r \in Reqs, Complete(s, r) PROVE G
  <2>0. req[s][r].st = "done"
    BY <1>14 DEF Complete
  <2>1. PICK j \in Index : j = req[s][r].idx
    BY <2>0, InTable
  <2>2. About(s, r) = j /\ r \in Turns
    BY <2>0, <2>1, TurnsNumbers DEF About
  <2>3. j # i
    BY <2>2 DEF MarksOK
  <2> QED
    BY <1>0, <1>2, <1>14, <2>1, <2>3, CompleteSlot
<1> HIDE DEF G
<1>15. G
  BY <1>1, <1>4, <1>5, <1>6, <1>7, <1>8, <1>10, <1>11, <1>12, <1>13, <1>14, SlotSteps
<1> QED
  BY <1>15 DEF G

(* A request comes to hold a page by a copy or a read under the slot lock, *)
(* and keeps it until its completion.                                      *)
Fills(s, r, i) ==
    /\ sw[s].index = i /\ sw[s].held = r
    /\ \/ Mark(s) /\ compressed /\ req'[s][r].data = RawObject(slot[i])
       \/ Read(s) /\ req'[s][r].data = PageOf(slot[i])

(* A page that is held after a step was held before it, or is filled in by *)
(* it.                                                                     *)
LEMMA HoldingNext ==
    ASSUME ControlInv, [Next]_vars, NEW s \in Sweeps, NEW r \in Reqs, NEW i \in Index,
           Holding(s, r, i)'
    PROVE  \/ Holding(s, r, i) /\ req'[s][r].data = req[s][r].data
           \/ Fills(s, r, i)
<1>0. /\ TypeSweeps /\ TypeReqs /\ TypeBdev /\ HoldsOK(sw[s]) /\ BoundOK(sw[s])
      /\ ReqOK(sw[s], r, req[s][r]) /\ (sw[s].pc = "off" <=> sw[s].ctl # "live")
  BY TypeParts DEF ControlInv, SweepOK, LiveOK
<1> DEFINE G == \/ Holding(s, r, i) /\ req'[s][r].data = req[s][r].data
                \/ Fills(s, r, i)
<1>h. \/ sw'[s].pc = "submit" /\ sw'[s].held = r /\ sw'[s].index = i
      \/ req'[s][r].st \in {"flight", "done"} /\ req'[s][r].idx = i
  BY DEF Holding
<1>1. ASSUME sw'[s] = sw[s], req'[s] = req[s] PROVE G
  BY <1>1, <1>h DEF Holding
<1>q. ASSUME req'[s][r] = req[s][r], sw'[s].pc # "submit" PROVE G
  BY <1>h, <1>q DEF Holding
<1>2. ASSUME NEW t \in Sweeps, t # s, OthersKept(t) PROVE G
  BY <1>1, <1>2 DEF OthersKept
<1> USE <1>0 DEF At
<1>3. ASSUME LimitCheck(s) PROVE G
  <2>1. sw'[s].pc # "submit" /\ req' = req
    BY <1>3, LimitCheckEffect DEF SweepMoves, SweepTurns
  <2> QED
    BY <1>q, <2>1
<1>4. ASSUME ReadFails(s) PROVE G
  <2>1. sw'[s].pc # "submit" /\ req' = req
    BY <1>4, ReadFailsEffect DEF SweepMoves, SweepTurns
  <2> QED
    BY <1>q, <2>1
<1>5. ASSUME WaitDone(s) PROVE G
  <2>1. sw'[s].pc # "submit" /\ req' = req
    BY <1>5, WaitDoneEffect DEF SweepMoves, SweepTurns
  <2> QED
    BY <1>q, <2>1
<1>6. ASSUME CompleteNone(s) PROVE G
  <2>1. sw'[s].pc # "submit" /\ req' = req
    BY <1>6, CompleteNoneEffect DEF SweepMoves, SweepTurns
  <2> QED
    BY <1>q, <2>1
<1>7. ASSUME Reserve(s) PROVE G
  <2>1. sw'[s].pc # "submit" /\ req' = req
    BY <1>7, ReserveEffect DEF SweepMoves, SweepTurns, TypeBdev
  <2> QED
    BY <1>q, <2>1
<1>8. ASSUME SelectIdleReq(s) PROVE G
  <2>1. sw'[s].pc # "submit" /\ (req'[s][r] = req[s][r] \/ req'[s][r].st = "held")
    BY <1>8, SelectEffect DEF SweepMoves, SweepTurns, ReqTurns, ReqsKeptBut
  <2> QED
    BY <1>h, <1>q, <2>1
<1>9. ASSUME Mark(s) PROVE G
  <2>1. PICK h \in Reqs : h = sw[s].held
    BY <1>9, InTable DEF Mark
  <2>2. req[s][h].st = "held" /\ (r # h => req[s][r].st # "held")
    BY <2>1 DEF ControlInv, SweepOK, ReqOK
  <2>3. /\ sw[s].pc = "mark" /\ ReqsKeptBut(s, h)
        /\ \/ sw'[s].pc \in {"top", "read"} /\ req' = req
           \/ /\ compressed /\ sw'[s].index = sw[s].index /\ sw'[s].held = h
              /\ req'[s][h].st = req[s][h].st
              /\ req'[s][h].data = RawObject(slot[sw[s].index])
    BY <1>9, <2>1, MarkEffect DEF SweepMoves, SweepTurns, ReqTurns
  <2>4. CASE sw'[s].pc \in {"top", "read"} /\ req' = req
    BY <1>q, <2>4
  <2>5. CASE /\ compressed /\ sw'[s].index = sw[s].index /\ sw'[s].held = h
             /\ req'[s][h].st = req[s][h].st
             /\ req'[s][h].data = RawObject(slot[sw[s].index])
    <3>1. CASE r = h
      BY <1>9, <1>h, <2>1, <2>2, <2>5, <3>1 DEF Fills
    <3>2. CASE r # h
      BY <1>h, <2>3, <2>5, <3>2 DEF ReqsKeptBut, Holding
    <3> QED
      BY <3>1, <3>2
  <2> QED
    BY <2>3, <2>4, <2>5
<1>10. ASSUME Read(s) PROVE G
  <2>1. PICK h \in Reqs : h = sw[s].held
    BY <1>10, InTable DEF Read
  <2>2. req[s][h].st = "held"
    BY <2>1 DEF ControlInv, SweepOK, ReqOK
  <2>3. /\ ReqsKeptBut(s, h) /\ sw'[s].index = sw[s].index /\ sw'[s].held = h
        /\ req'[s][h].st = req[s][h].st
        /\ req'[s][h].data = PageOf(slot[sw[s].index])
    BY <1>10, <2>1, ReadEffect DEF SweepMoves, SweepTurns, ReqTurns
  <2>4. CASE r = h
    BY <1>10, <1>h, <2>1, <2>2, <2>3, <2>4 DEF Fills
  <2>5. CASE r # h
    BY <1>h, <2>3, <2>5 DEF ReqsKeptBut, Holding
  <2> QED
    BY <2>4, <2>5
<1>11. ASSUME Submit(s) PROVE G
  <2>1. PICK h \in Reqs : h = sw[s].held
    BY <1>11, InTable DEF Submit
  <2>2. /\ sw[s].pc = "submit" /\ ReqsKeptBut(s, h) /\ sw'[s].pc = "top"
        /\ req'[s][h].idx = sw[s].index /\ req'[s][h].data = req[s][h].data
    BY <1>11, <2>1, SubmitEffect DEF SweepTurns, ReqTurns
  <2>3. CASE r = h
    BY <1>h, <2>1, <2>2, <2>3 DEF Holding
  <2>4. CASE r # h
    BY <1>q, <2>2, <2>4 DEF ReqsKeptBut
  <2> QED
    BY <2>3, <2>4
<1>12. ASSUME Tail(s) PROVE G
  <2>1. sw'[s].pc = "drain" /\ (req'[s][r] = req[s][r] \/ req'[s][r].st = "none")
    BY <1>12, TailEffect DEF SweepTurns, ReqTurns, ReqsKeptBut
  <2> QED
    BY <1>h, <1>q, <2>1
<1>13. ASSUME Drain(s) PROVE G
  <2>1. sw'[s].pc # "submit"
    BY <1>13, DrainEffect DEF SweepMoves, SweepTurns
  <2>2. req'[s][r] = req[s][r] \/ req'[s][r] = NoReq
    BY <1>13, DrainEffect
  <2>3. NoReq.st = "none"
    BY DEF NoReq
  <2> QED
    BY <1>h, <1>q, <2>1, <2>2, <2>3
<1>14. ASSUME NEW q \in Reqs, Complete(s, q) \/ CompleteError(s, q) \/ UnmarkFailed(s, q)
       PROVE  G
  <2>1. /\ sw'[s].pc # "submit" /\ ReqsKeptBut(s, q)
        /\ req'[s][q].st \in {"idle", "failed"}
    BY <1>14, CompleteEffect, CompleteErrorEffect, UnmarkFailedEffect
       DEF SweepMoves, SweepTurns, ReqTurns
  <2> QED
    BY <1>h, <1>q, <2>1 DEF ReqsKeptBut
<1>15. ASSUME EndioWake(s) PROVE G
  <2>1. /\ req' = req /\ sw'[s].index = sw[s].index /\ sw'[s].held = sw[s].held
        /\ sw'[s].pc = WokenBy(sw[s].pc)
    BY <1>15, EndioWakeEffect DEF SweepTurns
  <2>2. sw'[s].pc = "submit" => sw[s].pc = "submit"
    BY <2>1 DEF WokenBy
  <2> QED
    BY <1>h, <2>1, <2>2 DEF Holding
<1>16. ASSUME RcuFree(s) PROVE G
  <2>1. req' = req /\ sw'[s].pc = "off"
    BY <1>16, RcuFreeEffect DEF SweepTurns
  <2> QED
    BY <1>q, <2>1
<1>17. ASSUME NEW q \in Reqs, NEW err \in BOOLEAN, Endio(s, q, err) PROVE G
  <2>1. /\ sw'[s].pc = sw[s].pc /\ sw'[s].index = sw[s].index
        /\ sw'[s].held = sw[s].held /\ ReqsKeptBut(s, q)
        /\ req[s][q].st = "flight" /\ req'[s][q].idx = req[s][q].idx
        /\ req'[s][q].data = req[s][q].data
    BY <1>17, EndioEffect DEF SweepTurns, ReqTurns
  <2> QED
    BY <1>h, <2>1 DEF ReqsKeptBut, Holding
<1>18. ASSUME NEW m \in Modes, NEW j \in Index, NEW n \in Reqs, Start(s, m, j, n)
       PROVE  G
  <2>1. sw'[s].pc = "top" /\ (req'[s][r] = IdleReq \/ req'[s][r] = NoReq)
    BY <1>18, StartEffect DEF Starts, SweepTurns
  <2>2. NoReq.st = "none" /\ IdleReq.st = "idle"
    BY DEF NoReq, IdleReq
  <2> QED
    BY <1>h, <2>1, <2>2
<1>19. ASSUME SweepStep(s) \/ Device(s) PROVE G
  BY <1>19, <1>3, <1>4, <1>5, <1>6, <1>7, <1>8, <1>9, <1>10, <1>11, <1>12, <1>13, <1>14, <1>15,
     <1>16, <1>17
     DEF SweepStep, Device
<1>20. ASSUME NEW t \in Sweeps, SweepStep(t) \/ Device(t) PROVE G
  BY <1>20, <1>2, <1>19, OwnControl
<1>21. ASSUME NEW t \in Sweeps, NEW m \in Modes, NEW j \in Index, NEW n \in Reqs,
              Start(t, m, j, n)
       PROVE  G
  <2>1. OthersKept(t)
    BY <1>21, StartEffect DEF Starts
  <2> QED
    BY <1>21, <1>2, <1>18, <2>1
<1> HIDE DEF G
<1>22. G
  BY <1>1, <1>20, <1>21, SweepSteps DEF SweepStep, Device
<1> QED
  BY <1>22 DEF G


-----------------------------------------------------------------------------
(* Pages                                                                   *)

(* The content of a page is a matter of its slot but for the flags.        *)
LEMMA ContentSame ==
    ASSUME NEW i \in Index, ContentOf(i) = last[i], SamePage(i),
           slot'[i].wb <=> slot[i].wb, slot'[i].blk = slot[i].blk,
           slot[i].wb => block'[slot[i].blk] = block[slot[i].blk],
           last'[i] = last[i], compressed' = compressed
    PROVE  ContentOf(i)' = last'[i]
BY DEF SamePage, ContentOf, Encoding, Decoded

(* Where the steps of one slot leave the blocks and the stores alone, the  *)
(* other pages keep their contents.                                        *)
LEMMA ContentElsewhere ==
    ASSUME ContentOK, NEW i \in Index, SlotsKeptBut(i), UNCHANGED <<block, compressed>>,
           \A j \in Index : j # i => last'[j] = last[j],
           ContentOf(i)' = last'[i]
    PROVE  ContentOK'
<1> SUFFICES ASSUME NEW j \in Index, j # i PROVE ContentOf(j)' = last'[j]
  BY DEF ContentOK
<1>1. slot'[j] = slot[j] /\ ContentOf(j) = last[j] /\ last'[j] = last[j]
  BY DEF SlotsKeptBut, ContentOK
<1> QED
  BY <1>1, ContentSame DEF SamePage

(* Flags say nothing of the content.                                       *)
LEMMA ContentFlags ==
    ASSUME ContentOK, NEW i \in Index, SlotsKeptBut(i), NEW a, NEW b, FlagsTurn(i, a, b),
           UNCHANGED <<block, compressed, last>>
    PROVE  ContentOK'
<1>1. SamePage(i) /\ (slot'[i].wb <=> slot[i].wb) /\ slot'[i].blk = slot[i].blk
  BY DEF FlagsTurn, SlotTurns, SamePage
<1>2. ContentOf(i) = last[i]
  BY DEF ContentOK
<1>3. ContentOf(i)' = last'[i]
  BY <1>1, <1>2, ContentSame
<1> QED
  BY <1>3, ContentElsewhere

(* A completion makes a written-back slot of one whose block holds what a  *)
(* read expects.                                                           *)
LEMMA ContentComplete ==
    ASSUME ControlInv, MarksOK, PagesInv, NEW s \in Sweeps, NEW r \in Reqs, Complete(s, r)
    PROVE  ContentOK'
<1>0. TypeSlots /\ ContentOK
  BY TypeParts DEF ControlInv, PagesInv
<1>1. req[s][r].st = "done" /\ ~req[s][r].err /\ UNCHANGED <<block, compressed, last>>
  BY DEF Complete, device
<1>2. PICK i \in Index : i = req[s][r].idx
  BY <1>1, InTable
<1>3. ~slot[i].wb
  <2>1. About(s, r) = i /\ r \in Turns
    BY <1>1, <1>2, TurnsNumbers DEF About
  <2> QED
    BY <2>1 DEF MarksOK
<1>4. CASE ~Unchanged(slot[i])
  <2>1. SlotsKeptBut(i) /\ FlagsTurn(i, FALSE, FALSE)
    BY <1>0, <1>2, <1>4, CompleteSlot DEF Unchanged
  <2> QED
    BY <1>0, <1>1, <2>1, ContentFlags
<1>5. CASE Unchanged(slot[i])
  <2>1. /\ SlotsKeptBut(i)
        /\ SlotTurns(i, slot[i].kind, None, slot[i].prio, TRUE, req[s][r].blk, FALSE, FALSE)
    BY <1>0, <1>2, <1>5, CompleteSlot DEF Unchanged
  <2>2. block[req[s][r].blk] = Expected(slot[i])
    <3>1. Holding(s, r, i)
      BY <1>1, <1>2 DEF Holding
    <3> QED
      BY <1>1, <1>5, <3>1 DEF PagesInv, BufferOK, BlockOK
  <2>3. slot[i].val = last[i]
    BY <1>0, <1>3 DEF ContentOK, ContentOf
  <2>4. ContentOf(i)' = Decoded(Expected(slot[i]), Encoding(slot[i]))
    BY <1>1, <2>1, <2>2 DEF SlotTurns, ContentOf, Encoding
  <2>5. Decoded(Expected(slot[i]), Encoding(slot[i])) = slot[i].val
    BY DEF Decoded, Expected, Encoding, RawObject, PageOf
  <2>6. ContentOf(i)' = last'[i]
    BY <1>1, <2>3, <2>4, <2>5
  <2> QED
    BY <1>0, <1>1, <2>1, <2>6, ContentElsewhere
<1> QED
  BY <1>4, <1>5

(* Every step keeps every page as it was last stored.                      *)
LEMMA ContentNext ==
    ASSUME OneSetup, ControlInv, FreeOutside, MarksOK, OwnersOK, PagesInv, [Next]_vars
    PROVE  ContentOK'
<1>0. TypeSlots /\ TypeSweeps /\ TypeReqs /\ TypeUser /\ ContentOK
  BY TypeParts DEF ControlInv, PagesInv
<1>1. ASSUME UNCHANGED <<slot, block, compressed, last>> PROVE ContentOK'
  BY <1>0, <1>1 DEF ContentOK, ContentOf, Encoding
<1>2. ASSUME NEW s \in Sweeps, NEW r \in Reqs, Endio(s, r, FALSE) PROVE ContentOK'
  <2>1. UNCHANGED <<slot, compressed, last>>
    BY <1>2 DEF Endio, device
  <2>2. ASSUME NEW i \in Index PROVE ContentOf(i)' = last'[i]
    BY <1>0, <1>2, <2>1, BlockWritten, ContentSame DEF ContentOK, SamePage
  <2> QED
    BY <2>2 DEF ContentOK
<1>3. ASSUME \A i \in Index : ~slot[i].wb, UNCHANGED <<slot, last>> PROVE ContentOK'
  BY <1>0, <1>3 DEF ContentOK, ContentOf
<1>4. ASSUME slot' = [i \in Index |-> FreeSlot], last' = [i \in Index |-> None]
      PROVE  ContentOK'
  <2>1. ASSUME NEW i \in Index PROVE ContentOf(i)' = last'[i]
    BY <1>4, FreshTable DEF SlotTurns, ContentOf
  <2> QED
    BY <2>1 DEF ContentOK
<1>5. ASSUME NEW i \in Index, SlotFree(i) PROVE ContentOK'
  <2>1. UNCHANGED <<block, compressed>> /\ last' = [last EXCEPT ![i] = None]
    BY <1>5 DEF SlotFree, device
  <2>2. SlotsKeptBut(i) /\ ~slot'[i].wb /\ slot'[i].val = None
    BY <1>0, <1>5, SlotFreeEffect DEF SlotTurns
  <2>3. /\ \A j \in Index : j # i => last'[j] = last[j]
        /\ ContentOf(i)' = last'[i]
    BY <1>0, <2>1, <2>2 DEF TypeUser, ContentOf
  <2> QED
    BY <1>0, <2>1, <2>2, <2>3, ContentElsewhere
<1>6. ASSUME NEW i \in Index, NEW v \in Vals, NEW k \in Kinds, Store(i, v, k)
      PROVE  ContentOK'
  <2>1. UNCHANGED <<block, compressed>> /\ last' = [last EXCEPT ![i] = v]
    BY <1>6 DEF Store, device
  <2>2. SlotsKeptBut(i) /\ ~slot'[i].wb /\ slot'[i].val = v
    BY <1>0, <1>6, StoreEffect DEF SlotTurns
  <2>3. /\ \A j \in Index : j # i => last'[j] = last[j]
        /\ ContentOf(i)' = last'[i]
    BY <1>0, <2>1, <2>2 DEF TypeUser, ContentOf
  <2> QED
    BY <1>0, <2>1, <2>2, <2>3, ContentElsewhere
<1>7. ASSUME NEW i \in Index, NEW b \in BOOLEAN, Recompress(i, b) PROVE ContentOK'
  <2>1. UNCHANGED <<block, compressed, last>>
    BY <1>7 DEF Recompress, device
  <2>2. /\ SlotsKeptBut(i) /\ ~slot[i].wb
        /\ FlagsTurn(i, FALSE, FALSE) \/ (slot'[i].val = slot[i].val /\ ~slot'[i].wb)
    BY <1>0, <1>7, RecompressEffect DEF SlotTurns
  <2>3. CASE FlagsTurn(i, FALSE, FALSE)
    BY <1>0, <2>1, <2>2, <2>3, ContentFlags
  <2>4. CASE slot'[i].val = slot[i].val /\ ~slot'[i].wb
    <3>1. ContentOf(i)' = last'[i]
      BY <1>0, <2>1, <2>2, <2>4 DEF ContentOK, ContentOf
    <3> QED
      BY <1>0, <2>1, <2>2, <3>1, ContentElsewhere
  <2> QED
    BY <2>2, <2>3, <2>4
<1>8. ASSUME NEW i \in Index, SlotsKeptBut(i), NEW a, NEW b, FlagsTurn(i, a, b),
             UNCHANGED <<block, compressed, last>>
      PROVE  ContentOK'
  BY <1>0, <1>8, ContentFlags
<1>9. ASSUME NEW i \in Index, Accessed(i) PROVE ContentOK'
  BY <1>0, <1>8, <1>9, AccessedEffect DEF Accessed, device
<1>10. ASSUME NEW i \in Index, NEW b \in BOOLEAN, MarkIdle(i, b) PROVE ContentOK'
  BY <1>0, <1>8, <1>10, MarkIdleEffect DEF MarkIdle, device
<1>11. ASSUME NEW s \in Sweeps, Mark(s) PROVE ContentOK'
  <2>1. PICK i \in Index : i = sw[s].index
    BY <1>11, InTable DEF Mark, At
  <2>2. UNCHANGED <<block, compressed, last>>
    BY <1>11 DEF Mark, device
  <2>3. slot' = slot \/ (SlotsKeptBut(i) /\ FlagsTurn(i, TRUE, TRUE))
    BY <1>0, <1>11, <2>1, MarkSlot
  <2> QED
    BY <1>1, <1>8, <2>2, <2>3
<1>12. ASSUME NEW s \in Sweeps, ReadFails(s) PROVE ContentOK'
  <2>1. PICK i \in Index : i = sw[s].index
    BY <1>12, InTable DEF ReadFails, At
  <2>2. UNCHANGED <<block, compressed, last>>
    BY <1>12 DEF ReadFails, device
  <2>3. SlotsKeptBut(i) /\ FlagsTurn(i, FALSE, FALSE)
    BY <1>0, <1>12, <2>1, ReadFailsSlot
  <2> QED
    BY <1>8, <2>2, <2>3
<1>13. ASSUME NEW s \in Sweeps, NEW r \in Reqs, UnmarkFailed(s, r) PROVE ContentOK'
  <2>1. PICK i \in Index : i = req[s][r].idx
    BY <1>13, InTable DEF UnmarkFailed
  <2>2. UNCHANGED <<block, compressed, last>>
    BY <1>13 DEF UnmarkFailed, device
  <2>3. SlotsKeptBut(i) /\ FlagsTurn(i, FALSE, FALSE)
    BY <1>0, <1>13, <2>1, UnmarkFailedSlot
  <2> QED
    BY <1>8, <2>2, <2>3
<1>14. ASSUME NEW s \in Sweeps, NEW r \in Reqs, Complete(s, r) PROVE ContentOK'
  BY <1>14, ContentComplete
<1>15. ASSUME (\E n \in 1..MaxPages : DisksizeStore(n)) \/ MetaFree PROVE ContentOK'
  BY <1>4, <1>15 DEF DisksizeStore, MetaFree
<1>16. CASE \E s \in Sweeps, r \in Reqs : Endio(s, r, FALSE)
  BY <1>2, <1>16
<1>17. CASE disksize = 0 /\ UNCHANGED <<slot, last>> /\ \A i \in Index : ~slot[i].wb
  BY <1>3, <1>17
<1>18. CASE UNCHANGED <<block, compressed>>
  <2>1. CASE UNCHANGED <<rd, last>> \/ UNCHANGED last
    <3>1. CASE slot' = slot
      BY <1>1, <1>18, <2>1, <3>1
    <3> QED
      BY <1>5, <1>6, <1>7, <1>9, <1>10, <1>11, <1>12, <1>13, <1>14, <1>15, <3>1, SlotSteps
  <2>2. ASSUME NEW i \in Index, BvecRead(i) PROVE UNCHANGED last
    BY <2>2 DEF BvecRead
  <2>3. ReadSlot \/ ReadBdev \/ ReadBdevFails \/ Decompress \/ ReadEnd => UNCHANGED last
    BY DEF ReadSlot, ReadBdev, ReadBdevFails, Decompress, ReadEnd
  <2> QED
    BY <1>5, <1>6, <1>15, <2>1, <2>2, <2>3, UserSteps
<1> QED
  BY <1>16, <1>17, <1>18, CompressedKept, BlockChanges

-----------------------------------------------------------------------------
(* Requests and blocks                                                     *)

(* A sweep comes to read a page only where writeback is not compressed.    *)
LEMMA ReadingNext ==
    ASSUME ControlInv, [Next]_vars, NEW s \in Sweeps, sw'[s].pc = "read"
    PROVE  sw[s].pc = "read" \/ ~compressed
<1>0. /\ TypeSweeps /\ TypeReqs /\ TypeBdev
      /\ (sw[s].pc = "off" <=> sw[s].ctl # "live")
  BY TypeParts DEF ControlInv, SweepOK, LiveOK
<1> DEFINE G == sw[s].pc = "read" \/ ~compressed
<1>1. ASSUME sw'[s] = sw[s] PROVE G
  BY <1>1
<1>2. ASSUME NEW t \in Sweeps, t # s, OthersKept(t) PROVE G
  BY <1>1, <1>2 DEF OthersKept
<1> USE <1>0 DEF At
<1>3. ~LimitCheck(s) /\ ~ReadFails(s) /\ ~WaitDone(s) /\ ~CompleteNone(s)
  BY LimitCheckEffect, ReadFailsEffect, WaitDoneEffect, CompleteNoneEffect
     DEF SweepMoves, SweepTurns
<1>4. ~Reserve(s) /\ ~SelectIdleReq(s) /\ ~Tail(s) /\ ~Drain(s)
  BY ReserveEffect, SelectEffect, TailEffect, DrainEffect
     DEF SweepMoves, SweepTurns, TypeBdev
<1>5. ASSUME Mark(s) PROVE G
  <2>1. sw[s].held \in Reqs
    BY <1>5, InTable DEF Mark
  <2> QED
    BY <1>5, <2>1, MarkEffect DEF SweepMoves, SweepTurns
<1>6. ASSUME Read(s) \/ Submit(s) PROVE FALSE
  <2>1. sw[s].held \in Reqs
    BY <1>6, InTable DEF Read, Submit
  <2> QED
    BY <1>6, <2>1, ReadEffect, SubmitEffect DEF SweepMoves, SweepTurns
<1>7. ASSUME NEW q \in Reqs, Complete(s, q) \/ CompleteError(s, q) \/ UnmarkFailed(s, q)
      PROVE  FALSE
  BY <1>7, CompleteEffect, CompleteErrorEffect, UnmarkFailedEffect
     DEF SweepMoves, SweepTurns
<1>8. ASSUME EndioWake(s) PROVE G
  <2>1. sw'[s].pc = WokenBy(sw[s].pc)
    BY <1>8, EndioWakeEffect DEF SweepTurns
  <2> QED
    BY <2>1 DEF WokenBy
<1>9. ~RcuFree(s)
  BY RcuFreeEffect DEF SweepTurns
<1>10. ASSUME NEW q \in Reqs, NEW err \in BOOLEAN, Endio(s, q, err) PROVE G
  BY <1>10, EndioEffect DEF SweepTurns
<1>11. ASSUME NEW m \in Modes, NEW j \in Index, NEW n \in Reqs, Start(s, m, j, n)
       PROVE  FALSE
  BY <1>11, StartEffect DEF Starts, SweepTurns
<1>12. ASSUME SweepStep(s) \/ Device(s) PROVE G
  BY <1>12, <1>3, <1>4, <1>5, <1>6, <1>7, <1>8, <1>9, <1>10 DEF SweepStep, Device
<1>13. ASSUME NEW t \in Sweeps, SweepStep(t) \/ Device(t) PROVE G
  BY <1>13, <1>2, <1>12, OwnControl
<1>14. ASSUME NEW t \in Sweeps, NEW m \in Modes, NEW j \in Index, NEW n \in Reqs,
              Start(t, m, j, n)
       PROVE  G
  <2>1. OthersKept(t)
    BY <1>14, StartEffect DEF Starts
  <2> QED
    BY <1>14, <1>2, <1>11, <2>1
<1> HIDE DEF G
<1>15. G
  BY <1>1, <1>13, <1>14, SweepSteps DEF SweepStep, Device
<1> QED
  BY <1>15 DEF G

(* A request is done because its bio has just ended, or was done before.   *)
LEMMA DoneNext ==
    ASSUME ControlInv, [Next]_vars, NEW s \in Sweeps, NEW r \in Reqs, req'[s][r].st = "done"
    PROVE  req'[s][r] = req[s][r] \/ \E err \in BOOLEAN : Endio(s, r, err)
<1>0. TypeSweeps /\ TypeReqs /\ TypeBdev
  BY TypeParts DEF ControlInv
<1> DEFINE G == req'[s][r] = req[s][r] \/ \E err \in BOOLEAN : Endio(s, r, err)
<1>1. ASSUME req'[s] = req[s] PROVE G
  BY <1>1
<1>2. ASSUME NEW t \in Sweeps, t # s, OthersKept(t) PROVE G
  BY <1>1, <1>2 DEF OthersKept
<1>3. ASSUME NEW q \in Reqs, ReqsKeptBut(s, q), q = r => req'[s][q].st # "done" PROVE G
  BY <1>3 DEF ReqsKeptBut
<1>4. ASSUME \/ LimitCheck(s) \/ Reserve(s) \/ ReadFails(s) \/ WaitDone(s)
             \/ CompleteNone(s) \/ EndioWake(s) \/ RcuFree(s)
      PROVE  G
  BY <1>1, <1>4 DEF LimitCheck, Reserve, ReadFails, WaitDone, CompleteNone, EndioWake, RcuFree
<1> USE <1>0
<1>5. ASSUME SelectIdleReq(s) PROVE G
  BY <1>1, <1>3, <1>5, SelectEffect DEF ReqTurns
<1>6. ASSUME Mark(s) \/ Read(s) \/ Submit(s) PROVE G
  <2>1. PICK h \in Reqs : h = sw[s].held
    BY <1>6, InTable DEF Mark, Read, Submit, At
  <2>2. req[s][h].st = "held"
    BY <2>1 DEF ControlInv, SweepOK, ReqOK
  <2>3. ReqsKeptBut(s, h) /\ (req' = req \/ req'[s][h].st \in {"held", "flight"})
    BY <1>6, <2>1, <2>2, MarkEffect, ReadEffect, SubmitEffect DEF ReqTurns
  <2> QED
    BY <1>1, <1>3, <2>3
<1>7. ASSUME Tail(s) PROVE G
  <2>1. ReqsKeptBut(s, sw[s].held) /\ (sw[s].held \in Reqs => req'[s][sw[s].held].st = "none")
    BY <1>7, TailEffect DEF ReqTurns
  <2> QED
    BY <2>1 DEF ReqsKeptBut
<1>8. ASSUME Drain(s) PROVE G
  <2>1. req'[s][r] = req[s][r] \/ req'[s][r] = NoReq
    BY <1>8, DrainEffect
  <2> QED
    BY <2>1 DEF NoReq
<1>9. ASSUME NEW q \in Reqs, Complete(s, q) \/ CompleteError(s, q) \/ UnmarkFailed(s, q)
      PROVE  G
  BY <1>3, <1>9, CompleteEffect, CompleteErrorEffect, UnmarkFailedEffect DEF ReqTurns
<1>10. ASSUME NEW q \in Reqs, NEW err \in BOOLEAN, Endio(s, q, err) PROVE G
  <2>1. CASE q = r
    BY <1>10, <2>1
  <2>2. CASE q # r
    BY <1>3, <1>10, <2>2, EndioEffect
  <2> QED
    BY <2>1, <2>2
<1>11. ASSUME NEW m \in Modes, NEW j \in Index, NEW n \in Reqs, Start(s, m, j, n)
       PROVE  G
  <2>1. req'[s][r] = IdleReq \/ req'[s][r] = NoReq
    BY <1>11, StartEffect DEF Starts
  <2> QED
    BY <2>1 DEF NoReq, IdleReq
<1> HIDE DEF G
<1>12. ASSUME SweepStep(s) \/ Device(s) PROVE G
  BY <1>12, <1>4, <1>5, <1>6, <1>7, <1>8, <1>9, <1>10 DEF SweepStep, Device
<1>13. ASSUME NEW t \in Sweeps, SweepStep(t) \/ Device(t) PROVE G
  BY <1>13, <1>2, <1>12, OwnControl
<1>14. ASSUME NEW t \in Sweeps, NEW m \in Modes, NEW j \in Index, NEW n \in Reqs,
              Start(t, m, j, n)
       PROVE  G
  <2>1. OthersKept(t)
    BY <1>14, StartEffect DEF Starts
  <2> QED
    BY <1>14, <1>2, <1>11, <2>1
<1>15. G
  BY <1>1, <1>13, <1>14, SweepSteps DEF SweepStep, Device
<1> QED
  BY <1>15 DEF G

(* While a sweep holds something, wb_compressed keeps its value.           *)
LEMMA CompressedHeld ==
    ASSUME OneSetup, ControlInv, FreeOutside, [Next]_vars, NEW s \in Sweeps,
           \/ sw'[s].pc # "off"
           \/ \E r \in Reqs : req'[s][r].st # "none"
    PROVE  compressed' = compressed
<1>1. CASE NoReader /\ UNCHANGED <<sw, req>>
  <2>1. sw[s].pc = "off" /\ \A r \in Reqs : req[s][r].st = "none"
    BY <1>1 DEF ControlInv, NoReader, SweepOK, ReqOK
  <2> QED
    BY <1>1, <2>1
<1> QED
  BY <1>1, CompressedKept

(* A request holds what a read expects while its slot is untouched.        *)
LEMMA BufferNext ==
    ASSUME OneSetup, ControlInv, FreeOutside, MarksOK, PagesInv, [Next]_vars
    PROVE  BufferOK'
<1>0. TypeSlots /\ TypeSweeps /\ TypeReqs /\ BufferOK
  BY TypeParts DEF ControlInv, PagesInv
<1>1. ASSUME NEW s \in Sweeps, sw'[s].pc = "read" PROVE ~compressed'
  BY <1>0, <1>1, ReadingNext, CompressedHeld DEF BufferOK
<1>2. ASSUME NEW s \in Sweeps, NEW r \in Reqs, NEW i \in Index,
             Holding(s, r, i)', Unchanged(slot'[i])
      PROVE  req'[s][r].data = Expected(slot[i])'
  <2>0. compressed' = compressed
    BY <1>2, CompressedHeld DEF Holding
  <2>1. CASE Holding(s, r, i) /\ req'[s][r].data = req[s][r].data
    <3>1. \E q \in Turns : About(s, q) = i
      <4>1. CASE sw[s].pc = "submit" /\ sw[s].held = r /\ sw[s].index = i
        BY <4>1, TurnsNumbers DEF About
      <4>2. CASE req[s][r].st \in {"flight", "done"} /\ req[s][r].idx = i
        BY <4>2, TurnsNumbers DEF About
      <4> QED
        BY <2>1, <4>1, <4>2 DEF Holding
    <3>2. slot[i].under
      BY <3>1 DEF MarksOK
    <3>3. Unchanged(slot[i]) /\ SamePage(i)
      BY <1>2, <3>2, MarkedKept
    <3>4. req[s][r].data = Expected(slot[i])
      BY <1>0, <2>1, <3>3 DEF BufferOK
    <3> QED
      BY <2>0, <2>1, <3>3, <3>4 DEF SamePage, Expected, RawObject, PageOf
  <2>2. CASE Fills(s, r, i)
    <3>1. CASE Mark(s) /\ compressed /\ req'[s][r].data = RawObject(slot[i])
      <4>1. sw[s].index = i
        BY <2>2 DEF Fills
      <4>2. slot' = slot \/ FlagsTurn(i, TRUE, TRUE)
        BY <1>0, <3>1, <4>1, MarkSlot
      <4>3. SamePage(i)
        BY <4>2 DEF FlagsTurn, SlotTurns, SamePage
      <4> QED
        BY <2>0, <3>1, <4>3 DEF SamePage, Expected, RawObject
    <3>2. CASE Read(s) /\ req'[s][r].data = PageOf(slot[i])
      <4>1. slot' = slot /\ sw[s].pc = "read"
        BY <3>2 DEF Read, At
      <4>2. ~compressed
        BY <1>0, <4>1 DEF BufferOK
      <4> QED
        BY <2>0, <3>2, <4>1, <4>2 DEF Expected
    <3> QED
      BY <2>2, <3>1, <3>2 DEF Fills
  <2> QED
    BY <1>2, <2>1, <2>2, HoldingNext
<1> QED
  BY <1>1, <1>2 DEF BufferOK

(* A block holds what its request holds from the end of the bio on.        *)
LEMMA BlockNext ==
    ASSUME ControlInv, OwnersOK, PagesInv, [Next]_vars
    PROVE  BlockOK'
<1>0. TypeSweeps /\ TypeReqs /\ BlockOK
  BY TypeParts DEF ControlInv, PagesInv
<1> SUFFICES ASSUME NEW s \in Sweeps, NEW r \in Reqs, req'[s][r].st = "done", ~req'[s][r].err
             PROVE  block'[req'[s][r].blk] = req'[s][r].data
  BY DEF BlockOK
<1>1. ASSUME NEW err \in BOOLEAN, Endio(s, r, err)
      PROVE  block'[req'[s][r].blk] = req'[s][r].data
  <2>1. ~err /\ req'[s][r].blk = req[s][r].blk /\ req'[s][r].data = req[s][r].data
    BY <1>0, <1>1, EndioEffect DEF ReqTurns
  <2>2. Endio(s, r, FALSE)
    BY <1>1, <2>1
  <2> QED
    BY <2>1, <2>2, BlockWritten
<1>2. CASE req'[s][r] = req[s][r]
  <2>1. req[s][r].st = "done" /\ block[req[s][r].blk] = req[s][r].data
    BY <1>0, <1>2 DEF BlockOK
  <2>2. ASSUME NEW t \in Sweeps, NEW q \in Reqs, Endio(t, q, FALSE)
        PROVE  block'[req[s][r].blk] = block[req[s][r].blk]
    <3>1. req[t][q].st = "flight"
      BY <2>2 DEF Endio
    <3> QED
      BY <2>1, <2>2, <3>1, BlockWritten
  <2> QED
    BY <1>2, <2>1, <2>2, BlockChanges
<1> QED
  BY <1>1, <1>2, DoneNext

-----------------------------------------------------------------------------
(* The user's read                                                         *)

(* While the user reads, the device stays as it is, and so does the slot   *)
(* if the page is to come from its block.                                  *)
LEMMA ReaderKept ==
    ASSUME OneSetup, ControlInv, FreeOutside, MarksOK, OwnersOK, PagesInv, [Next]_vars,
           rd' = rd, rd.pc = "off" \/ last'[rd.idx] = last[rd.idx]
    PROVE  ReaderOK'
<1>0. TypeUser /\ TypeDevice /\ DeviceOK /\ ReaderOK
  BY TypeParts DEF ControlInv, PagesInv
<1>1. CASE rd.pc = "off"
  BY <1>1 DEF ReaderOK
<1>2. CASE rd.pc # "off"
  <2>0. PICK i \in Index : i = rd.idx
    BY <1>0 DEF TypeUser, ReadType
  <2>1. open /\ i < disksize /\ stage = "none" /\ disksize # 0
    <3>1. open /\ i < disksize
      BY <1>0, <1>2, <2>0 DEF ReaderOK
    <3>2. i \in Nat /\ disksize \in Nat
      BY <1>0, ZramAssumption DEF Index, TypeDevice
    <3> QED
      BY <1>0, <3>1, <3>2 DEF DeviceOK
  <2>2. compressed' = compressed
    BY <2>1, CompressedKept
  <2>3. open' /\ disksize' = disksize
    <3>1. ~Close /\ ~MetaFree /\ (\A n \in 1..MaxPages : ~DisksizeStore(n))
          /\ \A b \in BOOLEAN : ~ResetDevice(b)
      BY <1>2, <2>1 DEF Close, MetaFree, DisksizeStore, ResetDevice
    <3> QED
      BY <2>1, <3>1, DeviceSteps DEF device, Open, BackingDevStore, ResetBdev, RemoveDetach,
         ZramAdd, BatchSizeStore, CompressedStore
  <2>4. ASSUME slot[i].wb
        PROVE  SameBlock(i) /\ block'[slot[i].blk] = block[slot[i].blk]
    <3>1. SameBlock(i)
      BY <1>2, <2>0, <2>1, <2>4, BlockKept
    <3>2. block'[slot[i].blk] = block[slot[i].blk]
      BY <2>4, BlockChanges, BlockWritten
    <3> QED
      BY <3>1, <3>2
  <2>5. last'[i] = last[i]
    BY <1>2, <2>0
  <2> QED
    BY <1>0, <1>2, <2>0, <2>1, <2>2, <2>3, <2>4, <2>5 DEF ReaderOK, SameBlock
<1> QED
  BY <1>1, <1>2

(* What a read of a written-back page has fetched is what was stored.      *)
LEMMA ReaderFetches ==
    ASSUME ControlInv, PagesInv
    PROVE  /\ rd.pc = "bdev" /\ rd.raw /\ ~rd.gap => Decoded(block[rd.blk], Raw) = last[rd.idx]
           /\ rd.pc = "decompress" =>
                 /\ slot[rd.idx].wb /\ slot[rd.idx].kind # "huge"
                 /\ Decoded(rd.data, slot[rd.idx].prio) = last[rd.idx]
<1>0. rd.idx \in Index
  BY TypeParts DEF ControlInv, TypeUser, ReadType
<1>1. ContentOf(rd.idx) = last[rd.idx]
  BY <1>0 DEF PagesInv, ContentOK
<1>2. ASSUME rd.pc = "bdev", rd.raw, ~rd.gap
      PROVE  Decoded(block[rd.blk], Raw) = last[rd.idx]
  <2>1. /\ slot[rd.idx].wb /\ rd.blk = slot[rd.idx].blk
        /\ ~compressed \/ slot[rd.idx].kind = "huge"
    BY <1>2 DEF PagesInv, ReaderOK
  <2> QED
    BY <1>1, <2>1 DEF ContentOf, Encoding
<1>3. ASSUME rd.pc = "decompress"
      PROVE  /\ slot[rd.idx].wb /\ slot[rd.idx].kind # "huge"
             /\ Decoded(rd.data, slot[rd.idx].prio) = last[rd.idx]
  <2>1. /\ slot[rd.idx].wb /\ slot[rd.idx].kind # "huge" /\ compressed
        /\ rd.data = block[slot[rd.idx].blk]
    BY <1>3 DEF PagesInv, ReaderOK
  <2> QED
    BY <1>1, <2>1 DEF ContentOf, Encoding
<1> QED
  BY <1>2, <1>3

(* Every step keeps the user's read on the right block, and what a read    *)
(* has returned is what was stored last.                                   *)
LEMMA ReaderNext ==
    ASSUME OneSetup, ControlInv, FreeOutside, MarksOK, OwnersOK, PagesInv, [Next]_vars
    PROVE  ReaderOK'
<1>0. /\ TypeUser /\ TypeDevice /\ TypeSlots /\ DeviceOK /\ ReaderOK /\ ContentOK
      /\ rd.idx \in Index
  BY TypeParts DEF ControlInv, PagesInv, TypeUser, ReadType
<1>1. ASSUME UNCHANGED <<rd, last>> PROVE ReaderOK'
  BY <1>1, ReaderKept
<1>2. ASSUME NEW i \in Index, BvecRead(i) PROVE ReaderOK'
  <2>1. /\ open /\ i < disksize /\ UNCHANGED <<open, disksize, compressed, slot, block, last>>
        /\ rd' = IF compressed /\ slot[i].wb /\ slot[i].kind # "huge"
                 THEN [NoRead EXCEPT !.pc = "bdev", !.idx = i, !.blk = slot[i].blk]
                 ELSE [NoRead EXCEPT !.pc = "again", !.idx = i]
    BY <1>2 DEF BvecRead, InUse, device
  <2>2. CASE compressed /\ slot[i].wb /\ slot[i].kind # "huge"
    <3>1. rd'.pc = "bdev" /\ rd'.idx = i /\ rd'.blk = slot[i].blk /\ rd'.raw = FALSE
      BY <2>1, <2>2 DEF NoRead
    <3> QED
      BY <2>1, <2>2, <3>1 DEF ReaderOK
  <2>3. CASE ~(compressed /\ slot[i].wb /\ slot[i].kind # "huge")
    <3>1. rd'.pc = "again" /\ rd'.idx = i
      BY <2>1, <2>3 DEF NoRead
    <3> QED
      BY <2>1, <3>1 DEF ReaderOK
  <2> QED
    BY <2>2, <2>3
<1>s. ASSUME ReadSlot PROVE ReaderOK'
  <2> DEFINE sl == slot[rd.idx]
  <2>1. rd.pc = "again" /\ UNCHANGED <<open, disksize, compressed, slot, block, last>>
    BY <1>s DEF ReadSlot, device
  <2>2. CASE sl.wb
    <3>1. /\ rd'.pc = "bdev" /\ rd'.idx = rd.idx /\ rd'.blk = sl.blk /\ rd'.raw = TRUE
          /\ rd'.gap = (compressed /\ sl.kind # "huge")
      BY <1>0, <1>s, <2>2 DEF ReadSlot, TypeUser, ReadType
    <3> QED
      BY <1>0, <2>1, <2>2, <3>1 DEF ReaderOK
  <2>3. CASE ~sl.wb
    <3>1. rd'.pc = "end" /\ rd'.idx = rd.idx /\ rd'.val = sl.val
      BY <1>0, <1>s, <2>3 DEF ReadSlot, TypeUser, ReadType
    <3>2. sl.val = last[rd.idx]
      BY <1>0, <2>3 DEF ContentOK, ContentOf
    <3> QED
      BY <1>0, <2>1, <3>1, <3>2 DEF ReaderOK
  <2> QED
    BY <2>2, <2>3
<1>3. ASSUME ReadBdev PROVE ReaderOK'
  <2>1. rd.pc = "bdev" /\ UNCHANGED <<open, disksize, compressed, slot, block, last>>
    BY <1>3 DEF ReadBdev, device
  <2>2. CASE rd.raw
    <3>1. /\ rd'.pc = "end" /\ rd'.idx = rd.idx /\ rd'.val = Decoded(block[rd.blk], Raw)
          /\ rd'.gap = rd.gap
      BY <1>0, <1>3, <2>2 DEF ReadBdev, TypeUser, ReadType
    <3> QED
      BY <1>0, <2>1, <2>2, <3>1, ReaderFetches DEF ReaderOK
  <2>3. CASE ~rd.raw
    <3>1. rd'.pc = "decompress" /\ rd'.idx = rd.idx /\ rd'.data = block[rd.blk]
      BY <1>0, <1>3, <2>3 DEF ReadBdev, TypeUser, ReadType
    <3> QED
      BY <1>0, <2>1, <2>3, <3>1 DEF ReaderOK
  <2> QED
    BY <2>2, <2>3
<1>4. ASSUME ReadBdevFails \/ ReadEnd PROVE ReaderOK'
  <2>1. rd'.pc = "off"
    BY <1>4 DEF ReadBdevFails, ReadEnd, NoRead
  <2> QED
    BY <2>1 DEF ReaderOK
<1>5. ASSUME Decompress PROVE ReaderOK'
  <2>1. rd.pc = "decompress" /\ UNCHANGED <<open, disksize, last>>
    BY <1>5 DEF Decompress, device
  <2>2. /\ slot[rd.idx].wb /\ slot[rd.idx].kind # "huge"
        /\ Decoded(rd.data, slot[rd.idx].prio) = last[rd.idx]
    BY <2>1, ReaderFetches
  <2>3. rd'.pc = "end" /\ rd'.idx = rd.idx /\ rd'.val = Decoded(rd.data, slot[rd.idx].prio)
    BY <1>0, <1>5, <2>2 DEF Decompress, TypeUser, ReadType
  <2> QED
    BY <1>0, <2>1, <2>2, <2>3 DEF ReaderOK
<1>6. ASSUME NEW i \in Index, SlotFree(i) PROVE ReaderOK'
  <2>1. rd' = rd /\ last' = [last EXCEPT ![i] = None] /\ (rd.pc # "off" => rd.idx # i)
    BY <1>6 DEF SlotFree, Writable
  <2>2. rd.pc = "off" \/ last'[rd.idx] = last[rd.idx]
    BY <1>0, <2>1 DEF TypeUser
  <2> QED
    BY <2>1, <2>2, ReaderKept
<1>7. ASSUME NEW i \in Index, NEW v \in Vals, NEW k \in Kinds, Store(i, v, k)
      PROVE  ReaderOK'
  <2>1. rd' = rd /\ last' = [last EXCEPT ![i] = v] /\ (rd.pc # "off" => rd.idx # i)
    BY <1>7 DEF Store, Writable
  <2>2. rd.pc = "off" \/ last'[rd.idx] = last[rd.idx]
    BY <1>0, <2>1 DEF TypeUser
  <2> QED
    BY <2>1, <2>2, ReaderKept
<1>8. ASSUME MetaFree \/ \E n \in 1..MaxPages : DisksizeStore(n) PROVE ReaderOK'
  <2>1. rd' = rd /\ (stage # "none" \/ disksize = 0)
    BY <1>8 DEF MetaFree, DisksizeStore
  <2>2. rd.idx \in Nat
    BY <1>0, ZramAssumption DEF Index
  <2>3. rd.pc = "off"
    BY <1>0, <2>1, <2>2 DEF ReaderOK, DeviceOK
  <2> QED
    BY <2>1, <2>3, ReaderKept
<1> QED
  BY <1>1, <1>2, <1>s, <1>3, <1>4, <1>5, <1>6, <1>7, <1>8, UserSteps

-----------------------------------------------------------------------------
(* Theorems                                                                *)

(* A new device has no content.                                            *)
LEMMA PagesInit == Init => PagesInv
<1> SUFFICES ASSUME Init PROVE PagesInv
  OBVIOUS
<1>1. /\ \A i \in Index : ~slot[i].wb /\ slot[i].val = None /\ last[i] = None
      /\ rd.pc = "off"
  BY DEF Init, FreeSlot, NoRead
<1>2. /\ \A s \in Sweeps : sw[s].pc = "off"
      /\ \A s \in Sweeps, r \in Reqs : req[s][r].st = "none"
  BY DEF Init, NoSweep, NoReq
<1>3. ContentOK
  BY <1>1 DEF ContentOK, ContentOf
<1>4. BufferOK /\ BlockOK
  BY <1>2 DEF BufferOK, BlockOK, Holding
<1>5. ReaderOK
  BY <1>1 DEF ReaderOK
<1> QED
  BY <1>3, <1>4, <1>5 DEF PagesInv

(* The pages' invariant, with what it needs of the control and the books.  *)
(* Of reads it speaks but for those whose block was found compressed when  *)
(* __zram_bvec_read() took the slot lock again (rd.gap).                   *)
THEOREM PagesCorrect == ASSUME OneSetup PROVE Spec => []PagesInv
<1>1. ControlInv /\ BooksInv /\ PagesInv /\ [Next]_vars => PagesInv'
  BY ContentNext, BufferNext, BlockNext, ReaderNext DEF BooksInv, PagesInv
<1> QED
  BY <1>1, PagesInit, ControlCorrect, BooksCorrect, PTL DEF Spec

(* A stored page reads as it was last stored: after a writeback that raced *)
(* with stores, idle marks, recompression and other sweeps the completion  *)
(* leaves the page in memory unless the slot is as the sweep copied it.    *)
THEOREM PagesReadBack == ASSUME OneSetup PROVE Spec => []ReadsBack
<1>1. ContentOK => ReadsBack
  BY DEF ContentOK, ContentOf, Encoding, ReadsBack, ReadBack
<1>2. PagesInv => ReadsBack
  BY <1>1 DEF PagesInv
<1> QED
  BY <1>2, PagesCorrect, PTL

-----------------------------------------------------------------------------
(* The array of pages                                                      *)

(* The state of PageStore that a state of the device stands for.           *)
Shown   == [i \in Index |-> IF i < disksize THEN last[i] ELSE None]
Contents == [i \in Index |-> IF i < disksize THEN ReadBack(slot[i]) ELSE None]
Replying == rd.pc = "end" /\ ~rd.gap
Replied == IF Replying THEN {<<rd.idx, rd.val>>} ELSE {}

(* The pages hold what the user has asked them to hold.                    *)
LEMMA HoldsWhatIsAsked == ContentOK => Contents = Shown
<1> SUFFICES ASSUME ContentOK PROVE Contents = Shown
  OBVIOUS
<1>1. \A i \in Index : ReadBack(slot[i]) = last[i]
  BY DEF ContentOK, ContentOf, Encoding, ReadBack
<1> QED
  BY <1>1 DEF Contents, Shown

(* A device without a size shows nothing.                                  *)
LEMMA ShowsNothing == disksize = 0 => Shown = [i \in Index |-> None]
<1> SUFFICES ASSUME disksize = 0 PROVE Shown = [i \in Index |-> None]
  OBVIOUS
<1>1. \A i \in Index : ~(i < 0)
  BY ZramAssumption DEF Index
<1> QED
  BY <1>1 DEF Shown

(* A new device stands for a store that is not set up.                     *)
LEMMA ArrayInit == ASSUME Init PROVE Array!Init
<1>1. disksize = 0 /\ rd.pc = "off" /\ ContentOK
  BY PagesInit DEF Init, NoRead, PagesInv
<1>2. Shown = [i \in Index |-> None] /\ Contents = [i \in Index |-> None] /\ Replied = {}
  BY <1>1, HoldsWhatIsAsked, ShowsNothing DEF Replied, Replying
<1> QED
  BY <1>1, <1>2 DEF Array!Init, Array!Blank, Shown, Contents, Replied, Replying

(* Where the device shows the same, the store stutters.                    *)
LEMMA ArrayStutters ==
    ASSUME Contents = Shown, Contents' = Shown', disksize' = disksize, Shown' = Shown,
           Replied' = Replied
    PROVE  UNCHANGED Array!vars
<1>1. Array!vars = <<disksize, Shown, Contents, Replied>>
  BY DEF Array!vars, Shown, Contents, Replied, Replying
<1>2. Array!vars' = <<disksize', Shown', Contents', Replied'>>
  BY DEF Array!vars, Shown, Contents, Replied, Replying
<1> QED
  BY <1>1, <1>2

(* Setting the device up or resetting it leaves the store blank.           *)
LEMMA ArrayBlank ==
    ASSUME Contents' = Shown', Shown' = [i \in Index |-> None], Replied' = Replied
    PROVE  /\ disksize = 0 /\ disksize' \in Nat \ {0} => Array!SetUp
           /\ disksize' = 0 => Array!Reset
BY DEF Array!SetUp, Array!Reset, Array!Blank, Shown, Contents, Replied, Replying

(* A store and a discard are writes of one page.                           *)
LEMMA ArrayWrites ==
    ASSUME Contents = Shown, Contents' = Shown', NEW i \in Index, NEW v, i < disksize,
           disksize' = disksize, last' = [last EXCEPT ![i] = v], TypeUser, rd' = rd
    PROVE  Array!Write(i, v)
<1>1. Shown' = [Shown EXCEPT ![i] = v]
  BY DEF TypeUser, Shown
<1>2. Contents' = [Contents EXCEPT ![i] = v]
  BY <1>1
<1> QED
  BY <1>1, <1>2 DEF Array!Write, Shown, Contents, Replied, Replying

(* A read replies with what the page holds, and the reply is taken.        *)
LEMMA ArrayReads ==
    ASSUME Contents = Shown, Contents' = Shown', disksize' = disksize, Shown' = Shown
    PROVE  /\ \A i \in Index :
                 i < disksize /\ Replied' = {<<i, last[i]>>} => Array!Read(i)
           /\ Replied' = {} => Array!TakeReply
<1>1. ASSUME NEW i \in Index, i < disksize, Replied' = {<<i, last[i]>>} PROVE Array!Read(i)
  <2>1. Contents[i] = last[i]
    BY <1>1 DEF Shown
  <2> QED
    BY <1>1, <2>1 DEF Array!Read, Shown, Contents, Replied, Replying
<1>2. ASSUME Replied' = {} PROVE Array!TakeReply
  BY <1>2 DEF Array!TakeReply, Shown, Contents, Replied, Replying
<1> QED
  BY <1>1, <1>2

(* Every step of the device is a step of the store or shows nothing.       *)
LEMMA ArrayNext ==
    ASSUME OneSetup, ControlInv, PagesInv, PagesInv', [Next]_vars
    PROVE  [Array!Next]_(Array!vars)
<1>0. /\ TypeUser /\ TypeDevice /\ DeviceOK /\ ReaderOK /\ ReaderOK'
      /\ Contents = Shown /\ Contents' = Shown' /\ rd.idx \in Index
  <2>1. (ContentOK => Contents = Shown)'
    BY HoldsWhatIsAsked, PTL
  <2> QED
    BY <2>1, TypeParts, HoldsWhatIsAsked DEF ControlInv, PagesInv, TypeUser, ReadType
<1> DEFINE G == [Array!Next]_(Array!vars)
<1>s. ASSUME disksize' = disksize, Shown' = Shown, Replied' = Replied PROVE G
  BY <1>0, <1>s, ArrayStutters
<1>1. ASSUME NEW n \in 1..MaxPages, DisksizeStore(n) PROVE G
  <2>1. /\ disksize = 0 /\ disksize' \in Nat \ {0} /\ rd' = rd
        /\ last' = [i \in Index |-> None]
    BY <1>1, ZramAssumption DEF DisksizeStore
  <2>2. Shown' = [i \in Index |-> None] /\ Replied' = Replied
    BY <2>1 DEF Shown, Replied, Replying
  <2>3. Array!SetUp
    BY <1>0, <2>1, <2>2, ArrayBlank
  <2> QED
    BY <2>3 DEF Array!Next
<1>2. ASSUME NEW b \in BOOLEAN, ResetDevice(b) PROVE G
  <2>1. disksize' = 0 /\ rd' = rd
    BY <1>2 DEF ResetDevice
  <2>p. (disksize = 0 => Shown = [i \in Index |-> None])'
    BY ShowsNothing, PTL
  <2>2. Shown' = [i \in Index |-> None] /\ Replied' = Replied
    BY <2>1, <2>p DEF Replied, Replying
  <2>3. Array!Reset
    BY <1>0, <2>1, <2>2, ArrayBlank
  <2> QED
    BY <2>3 DEF Array!Next
<1>3. ASSUME NEW i \in Index, NEW v \in Vals \cup {None}, i < disksize,
             disksize' = disksize, last' = [last EXCEPT ![i] = v], rd' = rd
      PROVE  G
  <2>1. Array!Write(i, v)
    BY <1>0, <1>3, ArrayWrites
  <2> QED
    BY <2>1 DEF Array!Next, Array!Discard
<1>4. ASSUME NEW i \in Index, SlotFree(i) PROVE G
  BY <1>3, <1>4 DEF SlotFree, Writable, InUse, device
<1>5. ASSUME NEW i \in Index, NEW v \in Vals, NEW k \in Kinds, Store(i, v, k) PROVE G
  BY <1>3, <1>5 DEF Store, Writable, InUse, device
<1>6. ASSUME Replying', rd'.idx < disksize, UNCHANGED <<disksize, last>>,
             rd'.idx \in Index
      PROVE  G
  <2>1. PICK i \in Index : i = rd'.idx
    BY <1>6
  <2>2. Replied' = {<<i, last[i]>>} /\ Shown' = Shown
    BY <1>0, <1>6, <2>1 DEF Replied, Replying, Shown, ReaderOK
  <2>3. Array!Read(i)
    BY <1>0, <1>6, <2>1, <2>2, ArrayReads
  <2> QED
    BY <2>3 DEF Array!Next
<1>7. ASSUME ~Replying, ~Replying', UNCHANGED <<disksize, last>> PROVE G
  BY <1>s, <1>7 DEF Shown, Replied
<1>8. ASSUME NEW i \in Index, BvecRead(i) PROVE G
  <2>1. rd.pc = "off" /\ UNCHANGED <<disksize, last>>
    BY <1>8 DEF BvecRead, device
  <2>2. rd'.pc \in {"again", "bdev"}
    BY <1>8 DEF BvecRead, NoRead
  <2> QED
    BY <1>7, <2>1, <2>2 DEF Replying
<1>9. ASSUME ReadSlot \/ ReadBdev \/ Decompress PROVE G
  <2>1. rd.pc \in {"again", "bdev", "decompress"} /\ UNCHANGED <<disksize, last>>
    BY <1>9 DEF ReadSlot, ReadBdev, Decompress, device
  <2>2. rd'.idx = rd.idx
    BY <1>0, <1>9 DEF ReadSlot, ReadBdev, Decompress, TypeUser, ReadType
  <2>3. rd.idx < disksize
    BY <1>0, <2>1 DEF ReaderOK
  <2>4. ~Replying
    BY <2>1 DEF Replying
  <2> QED
    BY <1>0, <1>6, <1>7, <2>1, <2>2, <2>3, <2>4
<1>10. ASSUME ReadBdevFails PROVE G
  BY <1>7, <1>10 DEF ReadBdevFails, NoRead, Replying, device
<1>11. ASSUME ReadEnd PROVE G
  <2>1. Replied' = {} /\ Shown' = Shown /\ disksize' = disksize
    BY <1>11 DEF ReadEnd, NoRead, Replied, Replying, Shown, device
  <2>2. Array!TakeReply
    BY <1>0, <2>1, ArrayReads
  <2> QED
    BY <2>2 DEF Array!Next
<1>12. ASSUME MetaFree PROVE G
  <2>1. disksize = 0 /\ disksize' = disksize /\ rd' = rd
    BY <1>0, <1>12 DEF MetaFree, DeviceOK
  <2>p. (disksize = 0 => Shown = [i \in Index |-> None])'
    BY ShowsNothing, PTL
  <2>2. Shown = [i \in Index |-> None] /\ Shown' = [i \in Index |-> None]
    BY <2>1, <2>p, ShowsNothing
  <2> QED
    BY <1>s, <2>1, <2>2 DEF Replied, Replying
<1>13. ASSUME disksize' = disksize, UNCHANGED <<rd, last>> PROVE G
  BY <1>s, <1>13 DEF Shown, Replied, Replying
<1> HIDE DEF G
<1>14. ASSUME disksize' = disksize PROVE G
  BY <1>1, <1>4, <1>5, <1>8, <1>9, <1>10, <1>11, <1>12, <1>13, <1>14, UserSteps
<1>15. ASSUME disksize' # disksize PROVE G
  <2>1. \/ \E n \in 1..MaxPages : DisksizeStore(n)
        \/ \E b \in BOOLEAN : ResetDevice(b)
    BY <1>15, DeviceSteps DEF device, Open, Close, BackingDevStore, MetaFree, ResetBdev,
       RemoveDetach, ZramAdd, BatchSizeStore, CompressedStore
  <2> QED
    BY <1>1, <1>2, <2>1
<1>16. G
  BY <1>14, <1>15
<1> QED
  BY <1>16 DEF G

(* zram implements an array of pages: whatever the sweeps, their bios, the *)
(* idle marks, recompression and resets do is no step of the store, and    *)
(* every read that ends returns the page as it was last stored, but for    *)
(* the reads that fell into the gap of two critical sections (rd.gap).     *)
THEOREM PagesAreServed == ASSUME OneSetup PROVE Spec => ServesPages
<1>1. Init => Array!Init
  BY ArrayInit
<1>2. ControlInv /\ PagesInv /\ PagesInv' /\ [Next]_vars => [Array!Next]_(Array!vars)
  BY ArrayNext
<1> QED
  BY <1>1, <1>2, ControlCorrect, PagesCorrect, PTL DEF Spec, ServesPages, Array!Spec

=============================================================================
