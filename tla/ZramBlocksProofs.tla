-------------------------- MODULE ZramBlocksProofs --------------------------
(***************************************************************************)
(* What TLAPS proves of the slots' and the blocks' bookkeeping, for every  *)
(* table, backing device, batch size and number of sweeps: ZRAM_UNDER_WB   *)
(* has exactly one owner, every busy block has exactly one owner, and the  *)
(* counters count.                                                         *)
(***************************************************************************)
EXTENDS ZramWritebackProofs

-----------------------------------------------------------------------------
(* The invariant                                                           *)

(* Past the end of the device the table is empty, but for a reset that has *)
(* taken the size away and not yet freed the table.                        *)
Freeing == stage \in {"free", "free for removal"}
FreeOutside == \A i \in Index :
    i >= disksize /\ ~Freeing => slot[i].kind = "free" /\ ~slot[i].wb

(* The slot that a sweep (r = 0) or its request r has marked.              *)
NoSlot == -1
About(s, r) ==
    IF r = 0 THEN IF sw[s].pc \in {"read", "submit"} THEN sw[s].index ELSE NoSlot
    ELSE IF req[s][r].st \in {"flight", "done", "failed"} THEN req[s][r].idx
    ELSE NoSlot
Turns == Reqs \cup {0}

(* A slot is marked for one sweep or request, and only then; a written-    *)
(* back slot is not.                                                       *)
MarksOK ==
    /\ \A s, t \in Sweeps : \A q, r \in Turns :
          About(s, q) \in Index /\ About(s, q) = About(t, r) => s = t /\ q = r
    /\ \A i \in Index : slot[i].under <=> \E s \in Sweeps, r \in Turns : About(s, r) = i
    /\ \A i \in Index : slot[i].under => ~slot[i].wb

(* Who may own a block: a slot, a request, a sweep; and which it owns.     *)
Owners == ({"slot"} \X Index \X {0}) \cup ({"req"} \X Sweeps \X Reqs)
             \cup ({"sweep"} \X Sweeps \X {0})
SlotOwns(i) == IF slot[i].wb THEN slot[i].blk ELSE 0
ReqOwns(s, r) == IF req[s][r].st \in {"flight", "done"} THEN req[s][r].blk ELSE 0
Owns == [k \in Owners |-> CASE k[1] = "slot" -> SlotOwns(k[2])
                            [] k[1] = "req"  -> ReqOwns(k[2], k[3])
                            [] OTHER         -> sw[k[2]].blk]

(* No two own the same block, and the blocks owned are the busy ones.      *)
Accounted(f, U) ==
    /\ \A k, l \in Owners : f[k] # 0 /\ f[k] = f[l] => k = l
    /\ \A b \in Blocks : b \in U <=> \E k \in Owners : f[k] = b
    /\ U \subseteq Blocks
OwnersOK == Accounted(Owns, used)

BooksInv == FreeOutside /\ MarksOK /\ OwnersOK /\ CountersExact

-----------------------------------------------------------------------------
(* The marks                                                               *)

(* Steps of a sweep or its bios that mark no slot and unmark none.         *)
Unmarking(s) ==
    \/ LimitCheck(s) \/ SelectIdleReq(s) \/ Reserve(s) \/ Read(s)
    \/ WaitDone(s) \/ CompleteNone(s) \/ Tail(s) \/ Drain(s)
    \/ \E r \in Reqs : CompleteError(s, r)
    \/ EndioWake(s) \/ RcuFree(s)
    \/ \E r \in Reqs, err \in BOOLEAN : Endio(s, r, err)

AboutKept(s) == \A r \in Turns : About(s, r)' = About(s, r)
AboutKeptBut(s, r) == \A t \in Sweeps, q \in Turns :
    t # s \/ q # r => About(t, q)' = About(t, q)

(* The numbers of a sweep's requests begin with 1.                         *)
LEMMA TurnsNumbers == 0 \in Turns /\ 0 \notin Reqs /\ Reqs \subseteq Turns
BY ZramAssumption DEF Turns, Reqs

(* A sweep whose records stay is about the same slots.                     *)
LEMMA AboutOthers ==
    ASSUME NEW t \in Sweeps, sw'[t] = sw[t], req'[t] = req[t]
    PROVE  AboutKept(t)
BY DEF AboutKept, About

(* Without a sweep no slot is marked.                                      *)
LEMMA AboutNothing ==
    ASSUME ControlInv, NEW s \in Sweeps, sw[s].pc = "off", NEW r \in Turns
    PROVE  About(s, r) = NoSlot
<1>1. \A q \in Reqs : req[s][q].st = "none"
  BY DEF ControlInv, SweepOK, ReqOK
<1> QED
  BY <1>1, TurnsNumbers DEF About, Turns

(* The steps that mark no slot leave every sweep and request about the     *)
(* slot that it was about.                                                 *)
LEMMA AboutQuiet ==
    ASSUME ControlInv, NEW s \in Sweeps, Unmarking(s)
    PROVE  AboutKept(s)
<1>0. /\ TypeSweeps /\ TypeReqs /\ TypeBdev
      /\ \A r \in Reqs : ReqOK(sw[s], r, req[s][r])
  BY TypeParts DEF ControlInv, SweepOK
<1> USE <1>0, TurnsNumbers DEF At
<1>1. ASSUME req' = req, UNCHANGED <<sw[s].pc, sw[s].index>> \/
               (sw[s].pc \notin {"read", "submit"} /\ sw'[s].pc \notin {"read", "submit"})
      PROVE  AboutKept(s)
  BY <1>1 DEF AboutKept, About
<1>2. ASSUME LimitCheck(s) PROVE AboutKept(s)
  BY <1>1, <1>2, LimitCheckEffect DEF SweepMoves, SweepTurns
<1>3. ASSUME Reserve(s) PROVE AboutKept(s)
  BY <1>1, <1>3, ReserveEffect DEF SweepMoves, SweepTurns, TypeBdev
<1>4. ASSUME WaitDone(s) PROVE AboutKept(s)
  BY <1>1, <1>4, WaitDoneEffect DEF SweepMoves, SweepTurns
<1>5. ASSUME CompleteNone(s) PROVE AboutKept(s)
  BY <1>1, <1>5, CompleteNoneEffect DEF SweepMoves, SweepTurns
<1>6. ASSUME EndioWake(s) PROVE AboutKept(s)
  BY <1>1, <1>6, EndioWakeEffect DEF SweepTurns, WokenBy
<1>7. ASSUME RcuFree(s) PROVE AboutKept(s)
  BY <1>1, <1>7, RcuFreeEffect DEF SweepTurns
<1> DEFINE Same(q) == About(s, q)' = About(s, q)
<1>s. ASSUME Same(0), \A q \in Reqs : Same(q) PROVE AboutKept(s)
  BY <1>s DEF AboutKept, Turns
<1>p. ASSUME UNCHANGED <<sw[s].pc, sw[s].index>> \/
               (sw[s].pc \notin {"read", "submit"} /\ sw'[s].pc \notin {"read", "submit"})
      PROVE  Same(0)
  BY <1>p DEF About
<1>q. ASSUME NEW q \in Reqs,
             \/ req'[s][q] = req[s][q]
             \/ /\ req[s][q].st \in {"flight", "done", "failed"}
                /\ req'[s][q].st \in {"flight", "done", "failed"}
                /\ req'[s][q].idx = req[s][q].idx
             \/ /\ req[s][q].st \notin {"flight", "done", "failed"}
                /\ req'[s][q].st \notin {"flight", "done", "failed"}
      PROVE  Same(q)
  BY <1>q DEF About
<1> HIDE DEF Same
<1>8. ASSUME SelectIdleReq(s) PROVE AboutKept(s)
  <2>1. Same(0)
    BY <1>8, <1>p, SelectEffect DEF SweepMoves, SweepTurns
  <2>2. ASSUME NEW q \in Reqs PROVE Same(q)
    BY <1>8, <1>q, SelectEffect DEF ReqTurns, ReqsKeptBut
  <2> QED
    BY <1>s, <2>1, <2>2
<1>9. ASSUME Read(s) PROVE AboutKept(s)
  <2>0. PICK h \in Reqs : h = sw[s].held
    BY <1>9, InTable DEF Read
  <2>1. /\ sw[s].pc = "read" /\ sw'[s].pc = "submit" /\ sw'[s].index = sw[s].index
        /\ ReqsKeptBut(s, h)
        /\ req'[s][h].st = req[s][h].st /\ req'[s][h].idx = req[s][h].idx
    BY <1>9, <2>0, ReadEffect DEF SweepMoves, SweepTurns, ReqTurns
  <2>2. Same(0)
    BY <2>1 DEF Same, About
  <2>3. ASSUME NEW q \in Reqs PROVE Same(q)
    BY <1>q, <2>1 DEF ReqsKeptBut
  <2> QED
    BY <1>s, <2>2, <2>3
<1>10. ASSUME Tail(s) PROVE AboutKept(s)
  <2>1. Same(0)
    BY <1>10, <1>p, TailEffect DEF SweepTurns
  <2>2. ASSUME NEW q \in Reqs PROVE Same(q)
    <3>1. CASE q # sw[s].held
      BY <1>10, <1>q, <3>1, TailEffect DEF ReqsKeptBut
    <3>2. CASE q = sw[s].held
      BY <1>10, <1>q, <3>2, TailEffect DEF ReqOK, ReqTurns
    <3> QED
      BY <3>1, <3>2
  <2> QED
    BY <1>s, <2>1, <2>2
<1>11. ASSUME Drain(s) PROVE AboutKept(s)
  <2>1. Same(0)
    BY <1>11, <1>p, DrainEffect DEF SweepMoves, SweepTurns
  <2>2. ASSUME NEW q \in Reqs PROVE Same(q)
    <3>1. \/ req' = req
          \/ /\ req[s][q].st \notin {"flight", "done", "failed"}
             /\ req'[s][q] = IF req[s][q].st = "idle" THEN NoReq ELSE req[s][q]
      BY <1>11, DrainEffect
    <3>2. NoReq.st = "none"
      BY DEF NoReq
    <3> QED
      BY <1>q, <3>1, <3>2
  <2> QED
    BY <1>s, <2>1, <2>2
<1>12. ASSUME NEW r \in Reqs, CompleteError(s, r) PROVE AboutKept(s)
  <2>1. Same(0)
    BY <1>12, <1>p, CompleteErrorEffect DEF SweepMoves, SweepTurns
  <2>2. ASSUME NEW q \in Reqs PROVE Same(q)
    BY <1>12, <1>q, CompleteErrorEffect DEF ReqsKeptBut, ReqTurns
  <2> QED
    BY <1>s, <2>1, <2>2
<1>13. ASSUME NEW r \in Reqs, NEW err \in BOOLEAN, Endio(s, r, err) PROVE AboutKept(s)
  <2>1. Same(0)
    BY <1>13, <1>p, EndioEffect DEF SweepTurns
  <2>2. ASSUME NEW q \in Reqs PROVE Same(q)
    BY <1>13, <1>q, EndioEffect DEF ReqsKeptBut, ReqTurns
  <2> QED
    BY <1>s, <2>1, <2>2
<1> QED
  BY <1>2, <1>3, <1>4, <1>5, <1>6, <1>7, <1>8, <1>9, <1>10, <1>11, <1>12, <1>13
     DEF Unmarking

(* A new sweep has marked nothing yet.                                     *)
LEMMA AboutStart ==
    ASSUME ControlInv, NEW s \in Sweeps, NEW m \in Modes, NEW i \in Index, NEW n \in Reqs,
           Start(s, m, i, n)
    PROVE  OthersKept(s) /\ AboutKept(s)
<1>0. TypeSweeps /\ TypeReqs
  BY TypeParts DEF ControlInv
<1>1. /\ sw[s].pc = "off" /\ OthersKept(s) /\ sw'[s].pc = "top"
      /\ \A r \in Reqs : req'[s][r] = IF r <= n THEN IdleReq ELSE NoReq
  BY <1>0, StartEffect DEF Starts, At, SweepTurns
<1>2. NoReq.st = "none" /\ IdleReq.st = "idle"
  BY DEF NoReq, IdleReq
<1>3. ASSUME NEW r \in Turns PROVE About(s, r)' = NoSlot
  BY <1>1, <1>2, TurnsNumbers DEF About, Turns
<1> QED
  BY <1>1, <1>3, AboutNothing DEF AboutKept

(* How the marks may change: not at all, ...                               *)
LEMMA MarksKept ==
    ASSUME MarksOK, \A s \in Sweeps : AboutKept(s),
           \A i \in Index : slot'[i].under <=> slot[i].under,
           \A i \in Index : slot'[i].under => ~slot'[i].wb
    PROVE  MarksOK'
<1>1. \A s \in Sweeps, r \in Turns : About(s, r)' = About(s, r)
  BY DEF AboutKept
<1> QED
  BY <1>1 DEF MarksOK

(* ... by a mark more, ...                                                 *)
LEMMA MarkGained ==
    ASSUME MarksOK, NEW s \in Sweeps, NEW r \in Turns, NEW i \in Index,
           AboutKeptBut(s, r), About(s, r) = NoSlot, About(s, r)' = i,
           SlotsKeptBut(i), ~slot[i].under, slot'[i].under, ~slot'[i].wb
    PROVE  MarksOK'
<1>1. \A t \in Sweeps, q \in Turns : About(t, q) # i
  BY DEF MarksOK
<1>2. ASSUME NEW t \in Sweeps, NEW p \in Turns, NEW u \in Sweeps, NEW q \in Turns,
             About(t, p)' \in Index, About(t, p)' = About(u, q)'
      PROVE  t = u /\ p = q
  BY <1>1, <1>2 DEF MarksOK, AboutKeptBut
<1>3. ASSUME NEW j \in Index
      PROVE  slot'[j].under <=> \E t \in Sweeps, q \in Turns : About(t, q)' = j
  <2>0. NoSlot # j
    BY DEF NoSlot, Index
  <2>1. CASE j = i
    BY <2>1
  <2>2. CASE j # i
    BY <2>0, <2>2 DEF MarksOK, AboutKeptBut, SlotsKeptBut
  <2> QED
    BY <2>1, <2>2
<1>4. \A j \in Index : slot'[j].under => ~slot'[j].wb
  BY DEF MarksOK, SlotsKeptBut
<1> QED
  BY <1>2, <1>3, <1>4 DEF MarksOK

(* ... by a mark less, ...                                                 *)
LEMMA MarkLost ==
    ASSUME MarksOK, NEW s \in Sweeps, NEW r \in Turns, NEW i \in Index,
           AboutKeptBut(s, r), About(s, r) = i, About(s, r)' = NoSlot,
           SlotsKeptBut(i), ~slot'[i].under
    PROVE  MarksOK'
<1>0. NoSlot \notin Index
  BY DEF NoSlot, Index
<1>2. ASSUME NEW t \in Sweeps, NEW p \in Turns, NEW u \in Sweeps, NEW q \in Turns,
             About(t, p)' \in Index, About(t, p)' = About(u, q)'
      PROVE  t = u /\ p = q
  BY <1>0, <1>2 DEF MarksOK, AboutKeptBut
<1>3. ASSUME NEW j \in Index
      PROVE  slot'[j].under <=> \E t \in Sweeps, q \in Turns : About(t, q)' = j
  <2>1. CASE j = i
    <3>1. \A t \in Sweeps, q \in Turns : About(t, q)' # j
      BY <1>0, <2>1 DEF MarksOK, AboutKeptBut
    <3> QED
      BY <2>1, <3>1
  <2>2. CASE j # i
    BY <1>0, <2>2 DEF MarksOK, AboutKeptBut, SlotsKeptBut
  <2> QED
    BY <2>1, <2>2
<1>4. \A j \in Index : slot'[j].under => ~slot'[j].wb
  BY DEF MarksOK, SlotsKeptBut
<1> QED
  BY <1>2, <1>3, <1>4 DEF MarksOK

(* ... or by a mark that goes from the sweep to its request.               *)
LEMMA MarkPassed ==
    ASSUME MarksOK, NEW s \in Sweeps, NEW r \in Reqs, NEW i \in Index, slot' = slot,
           About(s, 0) = i, About(s, r) = NoSlot,
           About(s, 0)' = NoSlot, About(s, r)' = i,
           \A t \in Sweeps, q \in Turns :
              t # s \/ (q # r /\ q # 0) => About(t, q)' = About(t, q)
    PROVE  MarksOK'
<1>0. NoSlot \notin Index /\ 0 \in Turns /\ r \in Turns /\ r # 0
  BY TurnsNumbers DEF NoSlot, Index
<1>2. ASSUME NEW t \in Sweeps, NEW p \in Turns, NEW u \in Sweeps, NEW q \in Turns,
             About(t, p)' \in Index, About(t, p)' = About(u, q)'
      PROVE  t = u /\ p = q
  BY <1>0, <1>2 DEF MarksOK
<1>3. ASSUME NEW j \in Index
      PROVE  slot'[j].under <=> \E t \in Sweeps, q \in Turns : About(t, q)' = j
  <2>1. CASE j = i
    BY <1>0, <2>1 DEF MarksOK
  <2>2. CASE j # i
    BY <1>0, <2>2 DEF MarksOK
  <2> QED
    BY <2>1, <2>2
<1>4. \A j \in Index : slot'[j].under => ~slot'[j].wb
  BY DEF MarksOK
<1> QED
  BY <1>2, <1>3, <1>4 DEF MarksOK

(* The steps that leave the sweeps alone keep the marks; a table is freed  *)
(* or set up anew only when no slot is marked.                             *)
LEMMA MarksUser ==
    ASSUME OneSetup, ControlInv, MarksOK, [Next]_vars, UNCHANGED <<sw, req>>
    PROVE  MarksOK'
<1>0. TypeSlots /\ DeviceOK /\ (disksize = 0 => NoReader)
  BY TypeParts DEF ControlInv, SweepOK, LiveOK, NoReader
<1>1. \A s \in Sweeps : AboutKept(s)
  BY AboutOthers
<1> DEFINE Kept(i) == /\ slot'[i].under <=> slot[i].under
                      /\ slot'[i].under => ~slot'[i].wb
<1>2. ASSUME \A i \in Index : Kept(i) PROVE MarksOK'
  BY <1>1, <1>2, MarksKept
<1>3. ASSUME NEW i \in Index, SlotsKeptBut(i), Kept(i) PROVE MarksOK'
  <2>1. ASSUME NEW j \in Index PROVE Kept(j)
    BY <1>3 DEF SlotsKeptBut, MarksOK
  <2> QED
    BY <1>2, <2>1
<1>4. CASE slot' = slot
  BY <1>2, <1>4 DEF MarksOK
<1>5. ASSUME NEW i \in Index, SlotFree(i) PROVE MarksOK'
  <2>1. SlotsKeptBut(i) /\ Kept(i)
    BY <1>0, <1>5, SlotFreeEffect DEF SlotTurns
  <2> QED
    BY <1>3, <2>1
<1>6. ASSUME NEW i \in Index, Accessed(i) PROVE MarksOK'
  <2>1. SlotsKeptBut(i) /\ Kept(i)
    BY <1>0, <1>6, AccessedEffect DEF FlagsTurn, SlotTurns, MarksOK
  <2> QED
    BY <1>3, <2>1
<1>7. ASSUME NEW i \in Index, NEW v \in Vals, NEW k \in Kinds, Store(i, v, k)
      PROVE  MarksOK'
  <2>1. SlotsKeptBut(i) /\ Kept(i)
    BY <1>0, <1>7, StoreEffect DEF SlotTurns
  <2> QED
    BY <1>3, <2>1
<1>8. ASSUME NEW i \in Index, NEW b \in BOOLEAN, MarkIdle(i, b) PROVE MarksOK'
  <2>1. SlotsKeptBut(i) /\ Kept(i)
    BY <1>0, <1>8, MarkIdleEffect DEF FlagsTurn, SlotTurns, MarksOK
  <2> QED
    BY <1>3, <2>1
<1>9. ASSUME NEW i \in Index, NEW b \in BOOLEAN, Recompress(i, b) PROVE MarksOK'
  <2>1. SlotsKeptBut(i) /\ Kept(i)
    BY <1>0, <1>9, RecompressEffect DEF FlagsTurn, SlotTurns, MarksOK
  <2> QED
    BY <1>3, <2>1
<1>10. ASSUME NoReader, slot' = [i \in Index |-> FreeSlot] PROVE MarksOK'
  <2>1. \A s \in Sweeps, r \in Turns : About(s, r) = NoSlot
    BY <1>10, AboutNothing DEF NoReader
  <2>2. \A i \in Index : ~slot[i].under
    <3>1. \A i \in Index : NoSlot # i
      BY DEF NoSlot, Index
    <3> QED
      BY <2>1, <3>1 DEF MarksOK
  <2>3. ASSUME NEW i \in Index PROVE ~slot'[i].under
    BY <1>10, FreshTable DEF SlotTurns
  <2> QED
    BY <1>2, <2>2, <2>3
<1>11. ASSUME NEW n \in 1..MaxPages, DisksizeStore(n) PROVE MarksOK'
  BY <1>10, <1>11 DEF DisksizeStore
<1>12. ASSUME MetaFree PROVE MarksOK'
  <2>1. NoReader
    BY <1>0, <1>12 DEF MetaFree, DeviceOK
  <2> QED
    BY <1>10, <1>12, <2>1 DEF MetaFree
<1>13. ASSUME NEW s \in Sweeps, Mark(s) PROVE MarksOK'
  <2>1. sw[s].pc = "mark" /\ sw[s].held \in Reqs
    BY <1>13, InTable DEF Mark, At
  <2>2. sw'[s].pc # "mark"
    BY <1>13, <2>1, MarkEffect, TypeParts DEF ControlInv, SweepMoves, SweepTurns
  <2> QED
    BY <2>1, <2>2
<1>14. ASSUME NEW s \in Sweeps, ReadFails(s) PROVE MarksOK'
  <2>1. sw[s].pc = "read" /\ sw'[s].pc = "top"
    BY <1>14, ReadFailsEffect, TypeParts DEF ControlInv, At, SweepTurns
  <2> QED
    BY <2>1
<1>15. ASSUME NEW s \in Sweeps, NEW r \in Reqs, Complete(s, r) \/ UnmarkFailed(s, r)
       PROVE  MarksOK'
  <2>1. req'[s][r].st = "idle" /\ req[s][r].st # "idle"
    BY <1>15, CompleteEffect, UnmarkFailedEffect, TypeParts DEF ControlInv, ReqTurns
  <2> QED
    BY <2>1
<1> QED
  BY <1>4, <1>5, <1>6, <1>7, <1>8, <1>9, <1>11, <1>12, <1>13, <1>14, <1>15, SlotSteps

(* Marking a slot, and failing to read it.                                 *)
LEMMA MarksMark ==
    ASSUME ControlInv, MarksOK, NEW s \in Sweeps, Mark(s)
    PROVE  MarksOK'
<1>0. TypeSlots /\ TypeSweeps /\ TypeReqs /\ OthersKept(s)
  BY OwnControl, TypeParts DEF ControlInv, SweepStep
<1>1. PICK h \in Reqs, i \in Index : h = sw[s].held /\ i = sw[s].index
  BY InTable DEF Mark, At
<1>2. \A q \in Reqs : req'[s][q].st = req[s][q].st /\ req'[s][q].idx = req[s][q].idx
  BY <1>0, <1>1, MarkEffect DEF ReqsKeptBut, ReqTurns
<1>3. \A q \in Reqs : About(s, q)' = About(s, q)
  BY <1>2, TurnsNumbers DEF About
<1>4. About(s, 0) = NoSlot
  BY DEF About, Mark, At
<1>5. CASE slot' = slot /\ sw'[s].pc = "top"
  <2>1. About(s, 0)' = NoSlot
    BY <1>5 DEF About
  <2>2. ASSUME NEW t \in Sweeps PROVE AboutKept(t)
    <3>1. CASE t = s
      BY <1>3, <1>4, <2>1, <3>1 DEF AboutKept, Turns
    <3>2. CASE t # s
      BY <1>0, <3>2, AboutOthers DEF OthersKept
    <3> QED
      BY <3>1, <3>2
  <2> QED
    BY <1>5, <2>2, MarksKept DEF MarksOK
<1>6. CASE /\ SlotsKeptBut(i) /\ FlagsTurn(i, TRUE, TRUE)
           /\ ~slot[i].wb /\ ~slot[i].under /\ sw'[s].pc \in {"read", "submit"}
  <2>0. sw'[s].index = i
    BY <1>0, <1>1, <1>6, MarkEffect DEF SweepMoves, SweepTurns
  <2>1. About(s, 0)' = i
    BY <1>6, <2>0 DEF About
  <2>2. AboutKeptBut(s, 0)
    BY <1>0, <1>3, AboutOthers DEF AboutKeptBut, AboutKept, OthersKept, Turns
  <2>3. slot'[i].under /\ ~slot'[i].wb
    BY <1>6 DEF FlagsTurn, SlotTurns
  <2> QED
    BY <1>4, <1>6, <2>1, <2>2, <2>3, TurnsNumbers, MarkGained
<1> QED
  BY <1>0, <1>1, <1>5, <1>6, MarkSlot

(* See above: the mark goes again.                                         *)
LEMMA MarksReadFails ==
    ASSUME ControlInv, MarksOK, NEW s \in Sweeps, ReadFails(s)
    PROVE  MarksOK'
<1>0. TypeSlots /\ TypeSweeps /\ OthersKept(s)
  BY OwnControl, TypeParts DEF ControlInv, SweepStep
<1>1. PICK i \in Index : i = sw[s].index
  BY InTable DEF ReadFails, At
<1>2. req' = req /\ sw[s].pc = "read" /\ sw'[s].pc = "top"
  BY <1>0, ReadFailsEffect DEF At, SweepTurns
<1>3. About(s, 0) = i /\ About(s, 0)' = NoSlot
  BY <1>1, <1>2 DEF About
<1>4. AboutKeptBut(s, 0)
  <2>1. \A q \in Reqs : About(s, q)' = About(s, q)
    BY <1>2, TurnsNumbers DEF About
  <2> QED
    BY <1>0, <2>1, AboutOthers DEF AboutKeptBut, AboutKept, OthersKept, Turns
<1>5. SlotsKeptBut(i) /\ ~slot'[i].under
  BY <1>0, <1>1, ReadFailsSlot DEF FlagsTurn, SlotTurns
<1> QED
  BY <1>3, <1>4, <1>5, TurnsNumbers, MarkLost

(* Submit() passes the mark on to the request.                             *)
LEMMA MarksSubmit ==
    ASSUME ControlInv, MarksOK, NEW s \in Sweeps, Submit(s)
    PROVE  MarksOK'
<1>0. TypeSlots /\ TypeSweeps /\ TypeReqs /\ OthersKept(s)
  BY OwnControl, TypeParts DEF ControlInv, SweepStep
<1>1. PICK h \in Reqs, i \in Index : h = sw[s].held /\ i = sw[s].index
  BY InTable DEF Submit, At
<1>2. /\ sw[s].pc = "submit" /\ sw'[s].pc = "top" /\ ReqsKeptBut(s, h)
      /\ req'[s][h].st = "flight" /\ req'[s][h].idx = i
  BY <1>0, <1>1, SubmitEffect DEF At, SweepTurns, ReqTurns
<1>3. req[s][h].st = "held"
  BY <1>1 DEF ControlInv, SweepOK, ReqOK
<1>4. About(s, 0) = i /\ About(s, 0)' = NoSlot
  BY <1>1, <1>2 DEF About
<1>5. About(s, h) = NoSlot /\ About(s, h)' = i
  BY <1>2, <1>3, TurnsNumbers DEF About
<1>6. ASSUME NEW t \in Sweeps, NEW q \in Turns, t # s \/ (q # h /\ q # 0)
      PROVE  About(t, q)' = About(t, q)
  <2>1. CASE t # s
    BY <1>0, <2>1, AboutOthers DEF AboutKept, OthersKept
  <2>2. CASE t = s /\ q # h /\ q # 0
    BY <1>2, <2>2 DEF About, Turns, ReqsKeptBut
  <2> QED
    BY <1>6, <2>1, <2>2
<1>7. slot' = slot
  BY DEF Submit
<1> QED
  BY <1>4, <1>5, <1>6, <1>7, MarkPassed

(* A completion takes it away, whether the bio succeeded or failed.        *)
LEMMA MarksDone ==
    ASSUME ControlInv, MarksOK, NEW s \in Sweeps, NEW r \in Reqs,
           Complete(s, r) \/ UnmarkFailed(s, r)
    PROVE  MarksOK'
<1>0. TypeSlots /\ TypeSweeps /\ TypeReqs /\ OthersKept(s)
  BY OwnControl, TypeParts DEF ControlInv, SweepStep
<1>2. /\ req[s][r].st \in {"done", "failed"} /\ req'[s][r].st = "idle" /\ ReqsKeptBut(s, r)
      /\ sw'[s].pc \notin {"read", "submit"} /\ sw[s].pc \notin {"read", "submit"}
  BY <1>0, CompleteEffect, UnmarkFailedEffect DEF At, ReqTurns, SweepMoves, SweepTurns
<1>1. PICK i \in Index : i = req[s][r].idx
  BY <1>2, InTable
<1>3. About(s, r) = i /\ About(s, r)' = NoSlot
  BY <1>1, <1>2, TurnsNumbers DEF About
<1>4. AboutKeptBut(s, r)
  <2>1. \A q \in Turns : q # r => About(s, q)' = About(s, q)
    BY <1>2 DEF About, Turns, ReqsKeptBut
  <2> QED
    BY <1>0, <2>1, AboutOthers DEF AboutKeptBut, AboutKept, OthersKept
<1>5. SlotsKeptBut(i) /\ ~slot'[i].under
  BY <1>0, <1>1, CompleteSlot, UnmarkFailedSlot DEF FlagsTurn, SlotTurns
<1> QED
  BY <1>3, <1>4, <1>5, TurnsNumbers, MarkLost

(* The marks are kept by every step.                                       *)
LEMMA MarksNext ==
    ASSUME OneSetup, ControlInv, MarksOK, [Next]_vars
    PROVE  MarksOK'
<1>1. ASSUME NEW s \in Sweeps, OthersKept(s), AboutKept(s), slot' = slot PROVE MarksOK'
  <2>1. ASSUME NEW t \in Sweeps PROVE AboutKept(t)
    BY <1>1, AboutOthers DEF OthersKept
  <2> QED
    BY <1>1, <2>1, MarksKept DEF MarksOK
<1>2. ASSUME NEW s \in Sweeps, Unmarking(s) PROVE MarksOK'
  <2>1. slot' = slot
    BY <1>2 DEF Unmarking, LimitCheck, SelectIdleReq, Reserve, Read, WaitDone,
       CompleteNone, Tail, Drain, CompleteError, EndioWake, RcuFree, Endio
  <2>2. OthersKept(s)
    BY <1>2, OwnControl DEF Unmarking, SweepStep, Device
  <2> QED
    BY <1>1, <1>2, <2>1, <2>2, AboutQuiet
<1>3. ASSUME NEW s \in Sweeps, NEW m \in Modes, NEW i \in Index, NEW n \in Reqs,
             Start(s, m, i, n)
      PROVE  MarksOK'
  <2>1. slot' = slot
    BY <1>3 DEF Start
  <2> QED
    BY <1>1, <1>3, <2>1, AboutStart
<1> QED
  BY <1>2, <1>3, MarksUser, MarksMark, MarksReadFails, MarksSubmit, MarksDone, SweepSteps
     DEF Unmarking

(* A set with one element at most has as many elements as it has any.      *)
LEMMA OneAtMost ==
    ASSUME NEW S, \A c, d \in S : c = d, NEW b \in BOOLEAN, b <=> S # {}
    PROVE  Cardinality(S) = If1(b)
<1>1. CASE S = {}
  BY <1>1, FS_EmptySet DEF If1
<1>2. CASE S # {}
  <2>1. PICK c : c \in S
    BY <1>2
  <2>2. S = {c}
    BY <2>1
  <2> QED
    BY <1>2, <2>2, FS_Singleton DEF If1
<1> QED
  BY <1>1, <1>2

(* What the runs check of the marks.                                       *)
LEMMA MarksOwned ==
    ASSUME ControlInv, MarksOK
    PROVE  UnderWbOwned
<1>0. TypeSlots
  BY TypeParts DEF ControlInv
<1> SUFFICES ASSUME NEW i \in Index
             PROVE  Cardinality(Markers(i)) = If1(slot[i].under)
  BY DEF UnderWbOwned
<1>1. ASSUME NEW s \in Sweeps, NEW r \in Turns
      PROVE  <<s, r>> \in Markers(i) <=> About(s, r) = i
  <2>1. NoSlot # i
    BY DEF NoSlot, Index
  <2>2. CASE r = 0
    BY <2>1, <2>2, TurnsNumbers DEF Markers, About
  <2>3. CASE r \in Reqs
    BY <2>1, <2>3, TurnsNumbers DEF Markers, About, Inflight, InState
  <2> QED
    BY <2>2, <2>3 DEF Turns
<1>2. Markers(i) \subseteq Sweeps \X Turns
  BY DEF Markers, Turns
<1>3. ASSUME NEW c \in Markers(i), NEW d \in Markers(i) PROVE c = d
  <2>1. PICK s \in Sweeps, q \in Turns : c = <<s, q>>
    BY <1>2
  <2>2. PICK t \in Sweeps, r \in Turns : d = <<t, r>>
    BY <1>2
  <2>3. About(s, q) = i /\ About(t, r) = i
    BY <1>1, <2>1, <2>2
  <2> QED
    BY <2>1, <2>2, <2>3 DEF MarksOK
<1>4. slot[i].under <=> Markers(i) # {}
  <2>1. ASSUME slot[i].under PROVE Markers(i) # {}
    <3>1. PICK s \in Sweeps, r \in Turns : About(s, r) = i
      BY <2>1 DEF MarksOK
    <3> QED
      BY <1>1, <3>1
  <2>2. ASSUME NEW c \in Markers(i) PROVE slot[i].under
    <3>1. PICK s \in Sweeps, q \in Turns : c = <<s, q>>
      BY <1>2
    <3>2. About(s, q) = i
      BY <1>1, <3>1
    <3> QED
      BY <3>2 DEF MarksOK
  <2> QED
    BY <2>1, <2>2
<1>5. slot[i].under \in BOOLEAN
  BY <1>0, SlotFields
<1> QED
  BY <1>3, <1>4, <1>5, OneAtMost

-----------------------------------------------------------------------------
(* The blocks' owners                                                      *)

(* Which key stands for which owner.                                       *)
LEMMA OwnerKeys ==
    /\ \A i \in Index : <<"slot", i, 0>> \in Owners
    /\ \A s \in Sweeps, r \in Reqs : <<"req", s, r>> \in Owners
    /\ \A s \in Sweeps : <<"sweep", s, 0>> \in Owners
    /\ \A k \in Owners : \/ \E i \in Index : k = <<"slot", i, 0>>
                         \/ \E s \in Sweeps, r \in Reqs : k = <<"req", s, r>>
                         \/ \E s \in Sweeps : k = <<"sweep", s, 0>>
BY DEF Owners

(* What the owners own.                                                    *)
LEMMA OwnsWhat ==
    /\ \A i \in Index : Owns[<<"slot", i, 0>>] = SlotOwns(i)
    /\ \A s \in Sweeps, r \in Reqs : Owns[<<"req", s, r>>] = ReqOwns(s, r)
    /\ \A s \in Sweeps : Owns[<<"sweep", s, 0>>] = sw[s].blk
BY OwnerKeys DEF Owns

(* See above, after a step.                                                *)
LEMMA OwnsWhatNext ==
    /\ \A i \in Index : Owns'[<<"slot", i, 0>>] = SlotOwns(i)'
    /\ \A s \in Sweeps, r \in Reqs : Owns'[<<"req", s, r>>] = ReqOwns(s, r)'
    /\ \A s \in Sweeps : Owns'[<<"sweep", s, 0>>] = sw'[s].blk
BY OwnerKeys DEF Owns

(* Owners that a step leaves alone own what they owned.                    *)
SlotOwnsSame(i) == (slot'[i].wb <=> slot[i].wb) /\ slot'[i].blk = slot[i].blk
ReqOwnsSame(s, r) ==
    \/ /\ req[s][r].st \notin {"flight", "done"}
       /\ req'[s][r].st \notin {"flight", "done"}
    \/ /\ req[s][r].st \in {"flight", "done"} /\ req'[s][r].st \in {"flight", "done"}
       /\ req'[s][r].blk = req[s][r].blk
SweepOwnsSame(s) == sw'[s].blk = sw[s].blk

(* A slot, request or sweep of which nothing changes owns what it owned.   *)
LEMMA OwnsSame ==
    /\ \A i \in Index : SlotOwnsSame(i) => Owns'[<<"slot", i, 0>>] = Owns[<<"slot", i, 0>>]
    /\ \A s \in Sweeps, r \in Reqs :
          ReqOwnsSame(s, r) => Owns'[<<"req", s, r>>] = Owns[<<"req", s, r>>]
    /\ \A s \in Sweeps :
          SweepOwnsSame(s) => Owns'[<<"sweep", s, 0>>] = Owns[<<"sweep", s, 0>>]
<1>1. \A i \in Index : SlotOwnsSame(i) => SlotOwns(i)' = SlotOwns(i)
  BY DEF SlotOwnsSame, SlotOwns
<1>2. \A s \in Sweeps, r \in Reqs : ReqOwnsSame(s, r) => ReqOwns(s, r)' = ReqOwns(s, r)
  BY DEF ReqOwnsSame, ReqOwns
<1> QED
  BY <1>1, <1>2, OwnsWhat, OwnsWhatNext DEF SweepOwnsSame

OwnsKeptBut(k, l) == \A m \in Owners : m # k /\ m # l => Owns'[m] = Owns[m]

(* How the books may change: not at all, by a block taken, ...             *)
LEMMA OwnersKept ==
    ASSUME OwnersOK, \A k \in Owners : Owns'[k] = Owns[k], used' = used
    PROVE  OwnersOK'
BY DEF OwnersOK, Accounted

(* An owner without a block takes a free one, and the bitmap says so.      *)
LEMMA OwnerTakes ==
    ASSUME OwnersOK, NEW k \in Owners, NEW b \in Blocks, OwnsKeptBut(k, k),
           Owns[k] = 0, Owns'[k] = b, b \notin used, used' = used \cup {b}
    PROVE  OwnersOK'
<1>0. 0 \notin Blocks
  BY DEF Blocks
<1>1. \A l \in Owners : Owns[l] # b
  BY DEF OwnersOK, Accounted
<1>2. ASSUME NEW l \in Owners, NEW m \in Owners, Owns'[l] # 0, Owns'[l] = Owns'[m]
      PROVE  l = m
  BY <1>1, <1>2 DEF OwnersOK, Accounted, OwnsKeptBut
<1>3. ASSUME NEW c \in Blocks PROVE c \in used' <=> \E l \in Owners : Owns'[l] = c
  BY <1>0 DEF OwnersOK, Accounted, OwnsKeptBut
<1>4. used' \subseteq Blocks
  BY DEF OwnersOK, Accounted
<1> QED
  BY <1>2, <1>3, <1>4 DEF OwnersOK, Accounted

(* ... by a block given back, ...                                          *)
LEMMA OwnerGives ==
    ASSUME OwnersOK, NEW k \in Owners, OwnsKeptBut(k, k),
           Owns'[k] = 0, used' = used \ {Owns[k]}
    PROVE  OwnersOK'
<1>0. 0 \notin Blocks
  BY DEF Blocks
<1>2. ASSUME NEW l \in Owners, NEW m \in Owners, Owns'[l] # 0, Owns'[l] = Owns'[m]
      PROVE  l = m
  BY <1>2 DEF OwnersOK, Accounted, OwnsKeptBut
<1>3. ASSUME NEW c \in Blocks PROVE c \in used' <=> \E l \in Owners : Owns'[l] = c
  <2>1. CASE c = Owns[k]
    <3>1. \A l \in Owners : Owns'[l] # c
      BY <1>0, <2>1 DEF OwnersOK, Accounted, OwnsKeptBut
    <3> QED
      BY <2>1, <3>1
  <2>2. CASE c # Owns[k]
    BY <1>0, <2>2 DEF OwnersOK, Accounted, OwnsKeptBut
  <2> QED
    BY <2>1, <2>2
<1>4. used' \subseteq Blocks
  BY DEF OwnersOK, Accounted
<1> QED
  BY <1>2, <1>3, <1>4 DEF OwnersOK, Accounted

(* ... by a block passed on, ...                                           *)
LEMMA OwnerPasses ==
    ASSUME OwnersOK, NEW k \in Owners, NEW l \in Owners, k # l, OwnsKeptBut(k, l),
           Owns[l] = 0, Owns'[l] = Owns[k], Owns'[k] = 0, used' = used
    PROVE  OwnersOK'
<1>0. 0 \notin Blocks
  BY DEF Blocks
<1>2. ASSUME NEW m \in Owners, NEW n \in Owners, Owns'[m] # 0, Owns'[m] = Owns'[n]
      PROVE  m = n
  BY <1>2 DEF OwnersOK, Accounted, OwnsKeptBut
<1>3. ASSUME NEW c \in Blocks PROVE c \in used' <=> \E m \in Owners : Owns'[m] = c
  <2>1. CASE c = Owns[k]
    <3>1. c \in used
      BY <2>1 DEF OwnersOK, Accounted
    <3> QED
      BY <2>1, <3>1
  <2>2. CASE c # Owns[k]
    BY <1>0, <2>2 DEF OwnersOK, Accounted, OwnsKeptBut
  <2> QED
    BY <2>1, <2>2
<1> QED
  BY <1>2, <1>3 DEF OwnersOK, Accounted

(* ... or by giving everything back.                                       *)
LEMMA OwnersNone ==
    ASSUME \A k \in Owners : Owns'[k] = 0, used' = {}
    PROVE  OwnersOK'
<1>0. 0 \notin Blocks
  BY DEF Blocks
<1> QED
  BY <1>0 DEF OwnersOK, Accounted

(* Without a sweep only slots own blocks.                                  *)
LEMMA OwnersIdle ==
    ASSUME ControlInv, NoReader
    PROVE  \A s \in Sweeps : /\ sw[s].blk = 0
                             /\ \A r \in Reqs : req[s][r].st \notin {"flight", "done"}
BY DEF ControlInv, NoReader, SweepOK, HoldsOK, ReqOK

-----------------------------------------------------------------------------
(* The table outside the device                                            *)

(* Slots are stored to and written back inside the device, and the device  *)
(* changes its size with an empty table.                                   *)
LEMMA OutsideNext ==
    ASSUME OneSetup, ControlInv, FreeOutside, [Next]_vars
    PROVE  FreeOutside'
<1>0. TypeSlots /\ TypeDevice /\ TypeSweeps /\ DeviceOK
  BY TypeParts DEF ControlInv
<1>n. disksize \in Nat /\ \A i \in Index : i \in Nat /\ i >= 0
  BY <1>0, ZramAssumption DEF TypeDevice, Index
<1> DEFINE Empty(i) == slot[i].kind = "free" /\ ~slot[i].wb
<1>1. ASSUME \A i \in Index : Empty(i)' PROVE FreeOutside'
  BY <1>1 DEF FreeOutside
<1>2. ASSUME slot' = [i \in Index |-> FreeSlot] PROVE FreeOutside'
  <2>1. ASSUME NEW i \in Index PROVE Empty(i)'
    BY <1>2, FreshTable DEF SlotTurns
  <2> QED
    BY <1>1, <2>1
<1>3. ASSUME UNCHANGED <<disksize, stage, slot>> PROVE FreeOutside'
  <2>1. Freeing' <=> Freeing
    BY <1>3 DEF Freeing
  <2> QED
    BY <1>3, <2>1 DEF FreeOutside
<1>4. ASSUME UNCHANGED <<disksize, stage>>, NEW i \in Index, SlotsKeptBut(i),
             i < disksize \/ (slot'[i].kind = slot[i].kind /\ (slot'[i].wb <=> slot[i].wb))
      PROVE  FreeOutside'
  <2>1. ASSUME NEW j \in Index, j >= disksize, ~Freeing PROVE Empty(j)'
    <3>1. Empty(j)
      BY <2>1 DEF FreeOutside
    <3>2. CASE j # i
      BY <1>4, <3>1, <3>2 DEF SlotsKeptBut
    <3>3. CASE j = i
      <4>1. ~(i < disksize)
        BY <1>n, <2>1, <3>3
      <4>2. slot'[i].kind = slot[i].kind /\ (slot'[i].wb <=> slot[i].wb)
        BY <1>4, <4>1
      <4> QED
        BY <3>1, <3>3, <4>2
    <3> QED
      BY <3>2, <3>3
  <2>2. Freeing' <=> Freeing
    BY <1>4 DEF Freeing
  <2> QED
    BY <1>4, <2>1, <2>2 DEF FreeOutside
<1>5. ASSUME NEW r \in BOOLEAN, ResetDevice(r) PROVE FreeOutside'
  <2>1. CASE disksize = 0
    <3>1. ~Freeing /\ UNCHANGED slot
      BY <1>5 DEF ResetDevice, Freeing
    <3>2. ASSUME NEW i \in Index PROVE Empty(i)'
      BY <1>n, <2>1, <3>1 DEF FreeOutside
    <3> QED
      BY <1>1, <3>2
  <2>2. CASE disksize # 0
    <3>1. Freeing'
      BY <1>5, <2>2 DEF ResetDevice, Freeing
    <3> QED
      BY <3>1 DEF FreeOutside
  <2> QED
    BY <2>1, <2>2
<1>6. ASSUME ResetBdev \/ RemoveDetach PROVE FreeOutside'
  <2>1. disksize = 0 /\ ~Freeing /\ UNCHANGED slot
    BY <1>0, <1>6 DEF ResetBdev, RemoveDetach, DeviceOK, Freeing
  <2>2. ASSUME NEW i \in Index PROVE Empty(i)'
    <3>1. Empty(i)
      BY <1>n, <2>1 DEF FreeOutside
    <3> QED
      BY <2>1, <3>1
  <2> QED
    BY <1>1, <2>2
<1>7. ASSUME NEW n \in 1..MaxPages, DisksizeStore(n) PROVE FreeOutside'
  BY <1>2, <1>7 DEF DisksizeStore
<1>8. ASSUME MetaFree PROVE FreeOutside'
  BY <1>2, <1>8 DEF MetaFree
<1>9. ASSUME UNCHANGED slot PROVE FreeOutside'
  <2>1. ASSUME UNCHANGED <<disksize, stage>> PROVE FreeOutside'
    BY <1>3, <1>9, <2>1
  <2>2. \/ UNCHANGED <<disksize, stage>> \/ ResetBdev \/ RemoveDetach \/ MetaFree
        \/ \E n \in 1..MaxPages : DisksizeStore(n)
        \/ \E r \in BOOLEAN : ResetDevice(r)
    BY DeviceSteps DEF device, Open, Close, BackingDevStore, ZramAdd, BatchSizeStore,
       CompressedStore
  <2> QED
    BY <1>5, <1>6, <1>7, <1>8, <2>1, <2>2
<1>10. ASSUME NEW i \in Index, SlotFree(i) PROVE FreeOutside'
  <2>1. SlotsKeptBut(i) /\ i < disksize /\ UNCHANGED <<disksize, stage>>
    BY <1>0, <1>10, SlotFreeEffect DEF SlotFree, Writable, InUse, device
  <2> QED
    BY <1>4, <2>1
<1>11. ASSUME NEW i \in Index, NEW v \in Vals, NEW k \in Kinds, Store(i, v, k)
       PROVE  FreeOutside'
  <2>1. SlotsKeptBut(i) /\ i < disksize /\ UNCHANGED <<disksize, stage>>
    BY <1>0, <1>11, StoreEffect DEF Store, Writable, InUse, device
  <2> QED
    BY <1>4, <2>1
<1>12. ASSUME NEW i \in Index, Accessed(i) PROVE FreeOutside'
  <2>1. SlotsKeptBut(i) /\ i < disksize /\ UNCHANGED <<disksize, stage>>
    BY <1>0, <1>12, AccessedEffect DEF Accessed, InUse, device
  <2> QED
    BY <1>4, <2>1
<1>13. ASSUME NEW i \in Index, NEW b \in BOOLEAN, MarkIdle(i, b) \/ Recompress(i, b)
       PROVE  FreeOutside'
  <2>1. SlotsKeptBut(i) /\ i < disksize /\ UNCHANGED <<disksize, stage>>
    BY <1>0, <1>13, MarkIdleEffect, RecompressEffect DEF MarkIdle, Recompress, device
  <2> QED
    BY <1>4, <2>1
<1>14. ASSUME NEW s \in Sweeps, Mark(s) \/ ReadFails(s) PROVE FreeOutside'
  <2>1. PICK i \in Index : i = sw[s].index /\ i < disksize
    BY <1>14, InTable DEF Mark, ReadFails, At
  <2>2. UNCHANGED slot \/ SlotsKeptBut(i)
    BY <1>0, <1>14, <2>1, MarkSlot, ReadFailsSlot
  <2>3. UNCHANGED <<disksize, stage>>
    BY <1>14 DEF Mark, ReadFails, device
  <2> QED
    BY <1>4, <1>9, <2>1, <2>2, <2>3
<1>15. ASSUME NEW s \in Sweeps, NEW r \in Reqs, Complete(s, r) \/ UnmarkFailed(s, r)
       PROVE  FreeOutside'
  <2>1. PICK i \in Index : i = req[s][r].idx /\ i < disksize
    BY <1>15, InTable DEF Complete, UnmarkFailed, At
  <2>2. SlotsKeptBut(i)
    BY <1>0, <1>15, <2>1, CompleteSlot, UnmarkFailedSlot
  <2>3. UNCHANGED <<disksize, stage>>
    BY <1>15 DEF Complete, UnmarkFailed, device
  <2> QED
    BY <1>4, <2>1, <2>2, <2>3
<1> QED
  BY <1>7, <1>8, <1>9, <1>10, <1>11, <1>12, <1>13, <1>14, <1>15, SlotSteps

(* A device without a size whose table is freed has only free slots.       *)
LEMMA NothingStored ==
    ASSUME ControlInv, FreeOutside, disksize = 0,
           ~Freeing
    PROVE  \A i \in Index : slot[i].kind = "free" /\ ~slot[i].wb
<1>1. \A i \in Index : i \in Nat /\ i >= 0
  BY ZramAssumption DEF Index
<1> QED
  BY <1>1 DEF FreeOutside

-----------------------------------------------------------------------------
(* The books                                                               *)

(* Steps of a sweep or its bios that take no block, give none back and     *)
(* pass none on.                                                           *)
Bookless(s) ==
    \/ LimitCheck(s) \/ SelectIdleReq(s) \/ Mark(s) \/ Read(s) \/ ReadFails(s)
    \/ WaitDone(s) \/ CompleteNone(s) \/ Drain(s)
    \/ \E r \in Reqs : UnmarkFailed(s, r)
    \/ EndioWake(s) \/ RcuFree(s)
    \/ \E r \in Reqs, err \in BOOLEAN : Endio(s, r, err)

(* They leave the sweep, its requests and the slots with what they own.    *)
LEMMA BooklessKeeps ==
    ASSUME ControlInv, NEW s \in Sweeps, Bookless(s)
    PROVE  /\ OthersKept(s) /\ SweepOwnsSame(s) /\ used' = used
           /\ \A r \in Reqs : ReqOwnsSame(s, r)
           /\ \A i \in Index : SlotOwnsSame(i)
<1>0. /\ TypeSweeps /\ TypeReqs /\ TypeBdev /\ TypeSlots /\ HoldsOK(sw[s])
      /\ \A r \in Reqs : ReqOK(sw[s], r, req[s][r])
  BY TypeParts DEF ControlInv, SweepOK
<1>1. OthersKept(s)
  BY OwnControl DEF Bookless, SweepStep, Device
<1>2. used' = used
  BY DEF Bookless, LimitCheck, SelectIdleReq, Mark, Read, ReadFails, WaitDone,
     CompleteNone, Drain, UnmarkFailed, EndioWake, RcuFree, Endio
<1>3. \A i \in Index : SlotOwnsSame(i)
  <2>1. ASSUME UNCHANGED slot PROVE \A i \in Index : SlotOwnsSame(i)
    BY <2>1 DEF SlotOwnsSame
  <2>2. ASSUME NEW i \in Index, NEW a, NEW b, SlotsKeptBut(i), FlagsTurn(i, a, b)
        PROVE  \A j \in Index : SlotOwnsSame(j)
    BY <2>2 DEF SlotsKeptBut, FlagsTurn, SlotTurns, SlotOwnsSame
  <2>3. ASSUME Mark(s) \/ ReadFails(s) PROVE \A i \in Index : SlotOwnsSame(i)
    <3>1. PICK i \in Index : i = sw[s].index
      BY <2>3, InTable DEF Mark, ReadFails, At
    <3> QED
      BY <1>0, <2>1, <2>2, <2>3, <3>1, MarkSlot, ReadFailsSlot
  <2>4. ASSUME NEW r \in Reqs, UnmarkFailed(s, r) PROVE \A i \in Index : SlotOwnsSame(i)
    <3>1. PICK i \in Index : i = req[s][r].idx
      BY <2>4, InTable DEF UnmarkFailed, At
    <3> QED
      BY <1>0, <2>2, <2>4, <3>1, UnmarkFailedSlot
  <2> QED
    BY <2>1, <2>3, <2>4 DEF Bookless, LimitCheck, SelectIdleReq, Read, WaitDone,
       CompleteNone, Drain, EndioWake, RcuFree, Endio
<1> DEFINE Same == SweepOwnsSame(s) /\ \A r \in Reqs : ReqOwnsSame(s, r)
<1> USE <1>0 DEF At
<1>4. ASSUME LimitCheck(s) PROVE Same
  BY <1>4, LimitCheckEffect DEF SweepMoves, SweepTurns, SweepOwnsSame, ReqOwnsSame
<1>5. ASSUME SelectIdleReq(s) PROVE Same
  BY <1>5, SelectEffect DEF SweepMoves, SweepTurns, ReqTurns, ReqsKeptBut, SweepOwnsSame,
     ReqOwnsSame
<1>6. ASSUME Mark(s) PROVE Same
  <2>1. PICK h \in Reqs : h = sw[s].held
    BY <1>6, InTable DEF Mark
  <2>2. \A r \in Reqs : req'[s][r].st = req[s][r].st /\ req'[s][r].blk = req[s][r].blk
    BY <1>6, <2>1, MarkEffect DEF ReqTurns, ReqsKeptBut
  <2>3. SweepOwnsSame(s)
    BY <1>6, <2>1, MarkEffect DEF SweepMoves, SweepTurns, SweepOwnsSame
  <2> QED
    BY <2>2, <2>3 DEF ReqOwnsSame
<1>7. ASSUME Read(s) PROVE Same
  <2>1. PICK h \in Reqs : h = sw[s].held
    BY <1>7, InTable DEF Read
  <2>2. \A r \in Reqs : req'[s][r].st = req[s][r].st /\ req'[s][r].blk = req[s][r].blk
    BY <1>7, <2>1, ReadEffect DEF ReqTurns, ReqsKeptBut
  <2>3. SweepOwnsSame(s)
    BY <1>7, <2>1, ReadEffect DEF SweepMoves, SweepTurns, SweepOwnsSame
  <2> QED
    BY <2>2, <2>3 DEF ReqOwnsSame
<1>8. ASSUME ReadFails(s) PROVE Same
  BY <1>8, ReadFailsEffect DEF SweepTurns, SweepOwnsSame, ReqOwnsSame
<1>9. ASSUME WaitDone(s) PROVE Same
  BY <1>9, WaitDoneEffect DEF SweepMoves, SweepTurns, SweepOwnsSame, ReqOwnsSame
<1>10. ASSUME CompleteNone(s) PROVE Same
  BY <1>10, CompleteNoneEffect DEF SweepMoves, SweepTurns, SweepOwnsSame, ReqOwnsSame
<1>11. ASSUME Drain(s) PROVE Same
  <2>1. sw[s].blk = 0
    BY <1>11, DrainEffect DEF HoldsOK
  <2>2. SweepOwnsSame(s)
    BY <1>11, <2>1, DrainEffect DEF SweepMoves, SweepTurns, SweepOwnsSame
  <2>3. NoReq.st = "none"
    BY DEF NoReq
  <2>4. ASSUME NEW r \in Reqs PROVE ReqOwnsSame(s, r)
    <3>1. \/ req' = req
          \/ /\ req[s][r].st \notin {"flight", "done", "failed"}
             /\ req'[s][r] = IF req[s][r].st = "idle" THEN NoReq ELSE req[s][r]
      BY <1>11, DrainEffect
    <3> QED
      BY <2>3, <3>1 DEF ReqOwnsSame
  <2> QED
    BY <2>2, <2>4
<1>12. ASSUME NEW r \in Reqs, UnmarkFailed(s, r) PROVE Same
  BY <1>12, UnmarkFailedEffect DEF SweepMoves, SweepTurns, ReqTurns, ReqsKeptBut,
     SweepOwnsSame, ReqOwnsSame
<1>13. ASSUME EndioWake(s) PROVE Same
  BY <1>13, EndioWakeEffect DEF SweepTurns, SweepOwnsSame, ReqOwnsSame
<1>14. ASSUME RcuFree(s) PROVE Same
  BY <1>14, RcuFreeEffect DEF SweepTurns, SweepOwnsSame, ReqOwnsSame
<1>15. ASSUME NEW r \in Reqs, NEW err \in BOOLEAN, Endio(s, r, err) PROVE Same
  BY <1>15, EndioEffect DEF SweepTurns, ReqTurns, ReqsKeptBut, SweepOwnsSame, ReqOwnsSame
<1> HIDE DEF Same
<1>16. Same
  BY <1>4, <1>5, <1>6, <1>7, <1>8, <1>9, <1>10, <1>11, <1>12, <1>13, <1>14, <1>15
     DEF Bookless
<1> QED
  BY <1>1, <1>2, <1>3, <1>16 DEF Same

(* All owners but those a step is about own what they owned.               *)
LEMMA BooksSame ==
    ASSUME NEW k, NEW l,
           \A i \in Index : <<"slot", i, 0>> \in {k, l} \/ SlotOwnsSame(i),
           \A s \in Sweeps, r \in Reqs : <<"req", s, r>> \in {k, l} \/ ReqOwnsSame(s, r),
           \A s \in Sweeps : <<"sweep", s, 0>> \in {k, l} \/ SweepOwnsSame(s)
    PROVE  OwnsKeptBut(k, l)
<1> SUFFICES ASSUME NEW m \in Owners, m # k, m # l PROVE Owns'[m] = Owns[m]
  BY DEF OwnsKeptBut
<1>1. CASE \E i \in Index : m = <<"slot", i, 0>>
  BY <1>1, OwnsSame
<1>2. CASE \E s \in Sweeps, r \in Reqs : m = <<"req", s, r>>
  BY <1>2, OwnsSame
<1>3. CASE \E s \in Sweeps : m = <<"sweep", s, 0>>
  BY <1>3, OwnsSame
<1> QED
  BY <1>1, <1>2, <1>3, OwnerKeys

(* Records that stay own what they owned.                                  *)
LEMMA RecordsSame ==
    /\ \A i \in Index : slot'[i] = slot[i] => SlotOwnsSame(i)
    /\ \A s \in Sweeps, r \in Reqs : req'[s][r] = req[s][r] => ReqOwnsSame(s, r)
    /\ \A s \in Sweeps : sw'[s] = sw[s] => SweepOwnsSame(s)
BY DEF SlotOwnsSame, ReqOwnsSame, SweepOwnsSame

(* A step that moves no block leaves the books as they are.                *)
LEMMA BooksKept ==
    ASSUME OwnersOK, used' = used, \A i \in Index : SlotOwnsSame(i),
           \A s \in Sweeps, r \in Reqs : ReqOwnsSame(s, r),
           \A s \in Sweeps : SweepOwnsSame(s)
    PROVE  OwnersOK'
<1>1. \A k \in Owners : Owns'[k] = Owns[k]
  BY OwnerKeys, OwnsSame
<1> QED
  BY <1>1, OwnersKept

(* The steps that leave the sweeps alone: a slot gives its block back, or  *)
(* the table and the bitmap are freed together.                            *)
LEMMA OwnersUser ==
    ASSUME OneSetup, ControlInv, FreeOutside, OwnersOK, [Next]_vars, UNCHANGED <<sw, req>>
    PROVE  OwnersOK'
<1>0. TypeSlots /\ TypeBdev /\ DeviceOK /\ (disksize = 0 => NoReader)
  BY TypeParts DEF ControlInv, SweepOK, LiveOK, NoReader
<1>b. 0 \notin Blocks
  BY DEF Blocks
<1>s. /\ \A s \in Sweeps, r \in Reqs : ReqOwnsSame(s, r)
      /\ \A s \in Sweeps : SweepOwnsSame(s)
  BY RecordsSame
<1>1. ASSUME used' = used, \A i \in Index : SlotOwnsSame(i) PROVE OwnersOK'
  BY <1>1, <1>s, BooksKept
<1>2. ASSUME used' = used, NEW i \in Index, SlotsKeptBut(i), SlotOwnsSame(i) PROVE OwnersOK'
  BY <1>1, <1>2, RecordsSame DEF SlotsKeptBut
<1>3. ASSUME NEW i \in Index, SlotsKeptBut(i), ~slot'[i].wb,
             used' = used \ FreedBlocks(slot[i])
      PROVE  OwnersOK'
  <2> DEFINE k == <<"slot", i, 0>>
  <2>1. OwnsKeptBut(k, k)
    <3>1. \A j \in Index : <<"slot", j, 0>> \in {k, k} \/ SlotOwnsSame(j)
      BY <1>3, RecordsSame DEF SlotsKeptBut
    <3> QED
      BY <1>s, <3>1, BooksSame
  <2>2. k \in Owners /\ Owns[k] = SlotOwns(i) /\ Owns'[k] = SlotOwns(i)'
    BY OwnerKeys, OwnsWhat, OwnsWhatNext
  <2>3. SlotOwns(i)' = 0
    BY <1>3 DEF SlotOwns
  <2>4. used' = used \ {SlotOwns(i)}
    BY <1>0, <1>b, <1>3 DEF SlotOwns, FreedBlocks, TypeBdev
  <2> HIDE DEF k
  <2> QED
    BY <2>1, <2>2, <2>3, <2>4, OwnerGives
<1>4. ASSUME NoReader, used' = {}, \A i \in Index : ~slot'[i].wb PROVE OwnersOK'
  <2>1. \A s \in Sweeps :
          sw'[s].blk = 0 /\ \A r \in Reqs : req'[s][r].st \notin {"flight", "done"}
    BY <1>4, OwnersIdle
  <2>2. \A i \in Index : Owns'[<<"slot", i, 0>>] = 0
    BY <1>4, OwnsWhatNext DEF SlotOwns
  <2>3. \A s \in Sweeps, r \in Reqs : Owns'[<<"req", s, r>>] = 0
    BY <2>1, OwnsWhatNext DEF ReqOwns
  <2>4. \A s \in Sweeps : Owns'[<<"sweep", s, 0>>] = 0
    BY <2>1, OwnsWhatNext
  <2>5. \A k \in Owners : Owns'[k] = 0
    BY <2>2, <2>3, <2>4, OwnerKeys
  <2> QED
    BY <1>4, <2>5, OwnersNone
<1>5. ASSUME UNCHANGED <<slot, used>> PROVE OwnersOK'
  BY <1>1, <1>5, RecordsSame
<1>6. ASSUME NEW i \in Index, SlotFree(i) PROVE OwnersOK'
  <2>1. SlotsKeptBut(i) /\ ~slot'[i].wb /\ used' = used \ FreedBlocks(slot[i])
    BY <1>0, <1>6, SlotFreeEffect DEF SlotTurns, SlotFree
  <2> QED
    BY <1>3, <2>1
<1>7. ASSUME NEW i \in Index, NEW v \in Vals, NEW k \in Kinds, Store(i, v, k)
      PROVE  OwnersOK'
  <2>1. SlotsKeptBut(i) /\ ~slot'[i].wb /\ used' = used \ FreedBlocks(slot[i])
    BY <1>0, <1>7, StoreEffect DEF SlotTurns, Store
  <2> QED
    BY <1>3, <2>1
<1>8. ASSUME NEW i \in Index, Accessed(i) PROVE OwnersOK'
  <2>1. used' = used /\ SlotsKeptBut(i) /\ SlotOwnsSame(i)
    BY <1>0, <1>8, AccessedEffect DEF Accessed, FlagsTurn, SlotTurns, SlotOwnsSame
  <2> QED
    BY <1>2, <2>1
<1>9. ASSUME NEW i \in Index, NEW b \in BOOLEAN, MarkIdle(i, b) PROVE OwnersOK'
  <2>1. used' = used /\ SlotsKeptBut(i) /\ SlotOwnsSame(i)
    BY <1>0, <1>9, MarkIdleEffect DEF MarkIdle, FlagsTurn, SlotTurns, SlotOwnsSame
  <2> QED
    BY <1>2, <2>1
<1>10. ASSUME NEW i \in Index, NEW b \in BOOLEAN, Recompress(i, b) PROVE OwnersOK'
  <2>1. SlotsKeptBut(i) /\ ~slot[i].wb /\ ~slot'[i].wb
    BY <1>0, <1>10, RecompressEffect DEF FlagsTurn, SlotTurns
  <2>2. used' = used \ FreedBlocks(slot[i])
    BY <1>10, <2>1 DEF Recompress, FreedBlocks
  <2> QED
    BY <1>3, <2>1, <2>2
<1>11. ASSUME NEW n \in 1..MaxPages, DisksizeStore(n) PROVE OwnersOK'
  <2>1. disksize = 0 /\ ~Freeing /\ NoReader /\ used' = used
    BY <1>11 DEF DisksizeStore, Admin, OneSetup, Freeing
  <2>2. \A i \in Index : ~slot[i].wb
    BY <2>1, NothingStored
  <2>3. \A i \in Index : ~slot'[i].wb
    BY <1>11, FreshTable DEF DisksizeStore, SlotTurns
  <2>4. \A i \in Index : Owns'[<<"slot", i, 0>>] = Owns[<<"slot", i, 0>>]
    BY <2>2, <2>3, OwnsWhat, OwnsWhatNext DEF SlotOwns
  <2>5. \A k \in Owners : Owns'[k] = Owns[k]
    BY <1>s, <2>4, OwnerKeys, OwnsSame
  <2> QED
    BY <2>1, <2>5, OwnersKept
<1>12. ASSUME MetaFree PROVE OwnersOK'
  <2>1. NoReader /\ slot' = [i \in Index |-> FreeSlot]
    BY <1>0, <1>12 DEF MetaFree, DeviceOK
  <2>2. \A i \in Index : ~slot'[i].wb
    BY <2>1, FreshTable DEF SlotTurns
  <2>3. used' = {}
    <3>1. used' = used \ UNION {FreedBlocks(slot[i]) : i \in Index}
      BY <1>12 DEF MetaFree
    <3>2. ASSUME NEW b \in used PROVE \E i \in Index : b \in FreedBlocks(slot[i])
      <4>1. b \in Blocks /\ b # 0
        BY <1>0, <1>b DEF TypeBdev
      <4>2. PICK k \in Owners : Owns[k] = b
        BY <4>1 DEF OwnersOK, Accounted
      <4>3. \A s \in Sweeps : k # <<"sweep", s, 0>>
        BY <2>1, <4>1, <4>2, OwnersIdle, OwnsWhat
      <4>4. \A s \in Sweeps, r \in Reqs : k # <<"req", s, r>>
        BY <2>1, <4>1, <4>2, OwnersIdle, OwnsWhat DEF ReqOwns
      <4>5. PICK i \in Index : k = <<"slot", i, 0>>
        BY <4>3, <4>4, OwnerKeys
      <4>6. SlotOwns(i) = b
        BY <4>2, <4>5, OwnsWhat
      <4> QED
        BY <4>1, <4>6 DEF SlotOwns, FreedBlocks
    <3> QED
      BY <3>1, <3>2
  <2> QED
    BY <1>4, <2>1, <2>2, <2>3
<1>13. ASSUME BackingDevStore \/ ResetBdev \/ RemoveDetach PROVE OwnersOK'
  <2>1. used' = {} /\ UNCHANGED slot
    BY <1>13 DEF BackingDevStore, ResetBdev, RemoveDetach
  <2>2. disksize = 0 /\ ~Freeing
    BY <1>0, <1>13 DEF BackingDevStore, ResetBdev, RemoveDetach, Admin, OneSetup,
       DeviceOK, Freeing
  <2>3. \A i \in Index : ~slot[i].wb
    BY <2>2, NothingStored
  <2> QED
    BY <1>0, <1>4, <2>1, <2>2, <2>3
<1>14. ASSUME NEW s \in Sweeps, Mark(s) PROVE OwnersOK'
  <2>1. sw[s].pc = "mark" /\ sw[s].held \in Reqs
    BY <1>14, InTable DEF Mark, At
  <2>2. sw'[s].pc # "mark"
    BY <1>14, <2>1, MarkEffect, TypeParts DEF ControlInv, SweepMoves, SweepTurns
  <2> QED
    BY <2>1, <2>2
<1>15. ASSUME NEW s \in Sweeps, ReadFails(s) \/ Reserve(s) \/ Tail(s) PROVE OwnersOK'
  <2>1. TypeSweeps /\ TypeReqs /\ used \subseteq Blocks
    BY TypeParts DEF ControlInv, TypeBdev
  <2>2. sw'[s].pc # sw[s].pc
    BY <1>15, <2>1, ReadFailsEffect, ReserveEffect, TailEffect
       DEF At, SweepMoves, SweepTurns
  <2> QED
    BY <2>2
<1>16. ASSUME NEW s \in Sweeps, NEW r \in Reqs,
              \/ Complete(s, r) \/ UnmarkFailed(s, r) \/ CompleteError(s, r)
              \/ \E err \in BOOLEAN : Endio(s, r, err)
       PROVE  OwnersOK'
  <2>1. req'[s][r].st # req[s][r].st
    BY <1>16, CompleteEffect, UnmarkFailedEffect, CompleteErrorEffect, EndioEffect,
       TypeParts DEF ControlInv, ReqTurns
  <2> QED
    BY <2>1
<1>17. ASSUME UNCHANGED <<used, block>> PROVE OwnersOK'
  BY <1>5, <1>6, <1>7, <1>8, <1>9, <1>10, <1>11, <1>12, <1>14, <1>15, <1>16, <1>17,
     SlotSteps
<1>18. ASSUME UNCHANGED slot PROVE OwnersOK'
  BY <1>6, <1>7, <1>12, <1>13, <1>15, <1>16, <1>17, BdevSteps
<1> QED
  BY <1>6, <1>7, <1>8, <1>9, <1>10, <1>11, <1>12, <1>14, <1>15, <1>16, <1>18, SlotSteps

(* A sweep's own steps touch its own records only.                         *)
LEMMA OthersSame ==
    ASSUME NEW s \in Sweeps, OthersKept(s), NEW t \in Sweeps, t # s
    PROVE  SweepOwnsSame(t) /\ \A r \in Reqs : ReqOwnsSame(t, r)
BY RecordsSame DEF OthersKept

(* A sweep that takes a block and one that gives its block up.             *)
LEMMA OwnersReserve ==
    ASSUME ControlInv, OwnersOK, NEW s \in Sweeps, Reserve(s)
    PROVE  OwnersOK'
<1>0. TypeSweeps /\ used \subseteq Blocks /\ OthersKept(s) /\ UNCHANGED <<slot, req>>
  BY TypeParts, OwnControl DEF ControlInv, TypeBdev, SweepStep, Reserve
<1>s. /\ \A i \in Index : SlotOwnsSame(i)
      /\ \A t \in Sweeps, r \in Reqs : ReqOwnsSame(t, r)
      /\ \A t \in Sweeps : t # s => SweepOwnsSame(t)
  BY <1>0, RecordsSame, OthersSame
<1>1. CASE used' = used /\ SweepOwnsSame(s)
  BY <1>1, <1>s, BooksKept
<1>2. CASE \E b \in Blocks \ used : sw[s].blk = 0 /\ used' = used \cup {b} /\ sw'[s].blk = b
  <2>1. PICK b \in Blocks \ used : sw[s].blk = 0 /\ used' = used \cup {b} /\ sw'[s].blk = b
    BY <1>2
  <2> DEFINE k == <<"sweep", s, 0>>
  <2>2. OwnsKeptBut(k, k)
    <3>1. \A t \in Sweeps : <<"sweep", t, 0>> \in {k, k} \/ SweepOwnsSame(t)
      BY <1>s
    <3> QED
      BY <1>s, <3>1, BooksSame
  <2>3. k \in Owners /\ Owns[k] = 0 /\ Owns'[k] = b
    BY <2>1, OwnerKeys, OwnsWhat, OwnsWhatNext
  <2> HIDE DEF k
  <2> QED
    BY <2>1, <2>2, <2>3, OwnerTakes
<1> QED
  BY <1>0, <1>1, <1>2, ReserveEffect DEF SweepMoves, SweepTurns, SweepOwnsSame

(* See above.                                                              *)
LEMMA OwnersTail ==
    ASSUME ControlInv, OwnersOK, NEW s \in Sweeps, Tail(s)
    PROVE  OwnersOK'
<1>0. /\ TypeSweeps /\ TypeReqs /\ OthersKept(s) /\ UNCHANGED slot
      /\ \A r \in Reqs : ReqOK(sw[s], r, req[s][r])
  BY TypeParts, OwnControl DEF ControlInv, SweepOK, SweepStep, Tail
<1>1. used' = used \ {sw[s].blk}
  BY DEF Tail, Leftover
<1>2. sw'[s].blk = 0
  BY <1>0, TailEffect DEF SweepTurns
<1>3. ASSUME NEW r \in Reqs PROVE ReqOwnsSame(s, r)
  <2>1. CASE r = sw[s].held
    <3>1. req[s][r].st = "held" /\ req'[s][r].st = "none"
      BY <1>0, <2>1, TailEffect DEF ReqOK, ReqTurns
    <3> QED
      BY <3>1 DEF ReqOwnsSame
  <2>2. CASE r # sw[s].held
    BY <1>0, <2>2, TailEffect, RecordsSame DEF ReqsKeptBut
  <2> QED
    BY <2>1, <2>2
<1>s. /\ \A i \in Index : SlotOwnsSame(i)
      /\ \A t \in Sweeps, r \in Reqs : ReqOwnsSame(t, r)
      /\ \A t \in Sweeps : t # s => SweepOwnsSame(t)
  BY <1>0, <1>3, RecordsSame, OthersSame
<1> DEFINE k == <<"sweep", s, 0>>
<1>4. OwnsKeptBut(k, k)
  <2>1. \A t \in Sweeps : <<"sweep", t, 0>> \in {k, k} \/ SweepOwnsSame(t)
    BY <1>s
  <2> QED
    BY <1>s, <2>1, BooksSame
<1>5. k \in Owners /\ Owns'[k] = 0 /\ used' = used \ {Owns[k]}
  BY <1>1, <1>2, OwnerKeys, OwnsWhat, OwnsWhatNext
<1> HIDE DEF k
<1> QED
  BY <1>4, <1>5, OwnerGives

(* Submit() passes the block on to the request.                            *)
LEMMA OwnersSubmit ==
    ASSUME ControlInv, OwnersOK, NEW s \in Sweeps, Submit(s)
    PROVE  OwnersOK'
<1>0. /\ TypeSweeps /\ TypeReqs /\ OthersKept(s) /\ UNCHANGED <<slot, used>>
      /\ \A r \in Reqs : ReqOK(sw[s], r, req[s][r])
  BY TypeParts, OwnControl DEF ControlInv, SweepOK, SweepStep, Submit
<1>1. PICK h \in Reqs : h = sw[s].held
  BY InTable DEF Submit, At
<1>2. /\ sw'[s].blk = 0 /\ ReqsKeptBut(s, h)
      /\ req'[s][h].st = "flight" /\ req'[s][h].blk = sw[s].blk
  BY <1>0, <1>1, SubmitEffect DEF SweepTurns, ReqTurns
<1>3. req[s][h].st = "held"
  BY <1>0, <1>1 DEF ReqOK
<1> DEFINE k == <<"sweep", s, 0>>
           l == <<"req", s, h>>
<1>4. OwnsKeptBut(k, l)
  <2>1. \A i \in Index : SlotOwnsSame(i)
    BY <1>0, RecordsSame
  <2>2. \A t \in Sweeps : <<"sweep", t, 0>> \in {k, l} \/ SweepOwnsSame(t)
    BY <1>0, OthersSame
  <2>3. \A t \in Sweeps, r \in Reqs : <<"req", t, r>> \in {k, l} \/ ReqOwnsSame(t, r)
    BY <1>0, <1>2, OthersSame, RecordsSame DEF ReqsKeptBut
  <2> QED
    BY <2>1, <2>2, <2>3, BooksSame
<1>5. ReqOwns(s, h) = 0 /\ ReqOwns(s, h)' = sw[s].blk
  BY <1>2, <1>3 DEF ReqOwns
<1>6. k \in Owners /\ l \in Owners /\ k # l
  BY OwnerKeys
<1>7. Owns'[k] = 0 /\ Owns[l] = 0 /\ Owns'[l] = Owns[k]
  BY <1>2, <1>5, OwnsWhat, OwnsWhatNext
<1> HIDE DEF k, l
<1> QED
  BY <1>0, <1>4, <1>6, <1>7, OwnerPasses

(* A completion passes it on to the slot, or gives it back.                *)
LEMMA OwnersDone ==
    ASSUME ControlInv, MarksOK, OwnersOK, NEW s \in Sweeps, NEW r \in Reqs,
           Complete(s, r) \/ CompleteError(s, r)
    PROVE  OwnersOK'
<1>0. TypeSlots /\ TypeSweeps /\ TypeReqs /\ OthersKept(s)
  BY TypeParts, OwnControl DEF ControlInv, SweepStep
<1>1. /\ req[s][r].st = "done" /\ req'[s][r].st \in {"idle", "failed"}
      /\ ReqsKeptBut(s, r) /\ sw'[s].blk = sw[s].blk
  BY <1>0, CompleteEffect, CompleteErrorEffect DEF ReqTurns, SweepMoves, SweepTurns
<1>2. PICK i \in Index : i = req[s][r].idx
  BY <1>1, InTable
<1>3. ~slot[i].wb
  <2>1. About(s, r) = i /\ r \in Turns
    BY <1>1, <1>2, TurnsNumbers DEF About
  <2> QED
    BY <2>1 DEF MarksOK
<1> DEFINE k == <<"req", s, r>>
<1>4. k \in Owners /\ Owns[k] = req[s][r].blk /\ Owns'[k] = 0
  <2>1. ReqOwns(s, r) = req[s][r].blk /\ ReqOwns(s, r)' = 0
    BY <1>1 DEF ReqOwns
  <2> QED
    BY <2>1, OwnerKeys, OwnsWhat, OwnsWhatNext
<1>5. ASSUME NEW l PROVE
      /\ \A t \in Sweeps : SweepOwnsSame(t)
      /\ \A t \in Sweeps, q \in Reqs : <<"req", t, q>> \in {k, l} \/ ReqOwnsSame(t, q)
  BY <1>0, <1>1, OthersSame, RecordsSame DEF ReqsKeptBut, SweepOwnsSame
<1>6. ASSUME \A j \in Index : SlotOwnsSame(j), used' = used \ {req[s][r].blk}
      PROVE  OwnersOK'
  <2>1. OwnsKeptBut(k, k)
    BY <1>5, <1>6, BooksSame
  <2> HIDE DEF k
  <2> QED
    BY <1>4, <1>6, <2>1, OwnerGives
<1>7. CASE CompleteError(s, r)
  <2>1. used' = used \ {req[s][r].blk} /\ slot' = slot
    BY <1>7 DEF CompleteError
  <2> QED
    BY <1>6, <2>1, RecordsSame
<1>8. CASE SlotsKeptBut(i) /\ used' = used \ {req[s][r].blk} /\ FlagsTurn(i, FALSE, FALSE)
  BY <1>6, <1>8, RecordsSame DEF SlotsKeptBut, FlagsTurn, SlotTurns, SlotOwnsSame
<1>9. CASE SlotsKeptBut(i) /\ used' = used /\ slot'[i].wb /\ slot'[i].blk = req[s][r].blk
  <2> DEFINE l == <<"slot", i, 0>>
  <2>1. OwnsKeptBut(k, l)
    <3>1. \A j \in Index : <<"slot", j, 0>> \in {k, l} \/ SlotOwnsSame(j)
      BY <1>9, RecordsSame DEF SlotsKeptBut
    <3> QED
      BY <1>5, <3>1, BooksSame
  <2>2. SlotOwns(i) = 0 /\ SlotOwns(i)' = req[s][r].blk
    BY <1>3, <1>9 DEF SlotOwns
  <2>3. l \in Owners /\ k # l /\ Owns[l] = 0 /\ Owns'[l] = Owns[k]
    BY <1>4, <2>2, OwnerKeys, OwnsWhat, OwnsWhatNext
  <2> HIDE DEF k, l
  <2> QED
    BY <1>4, <1>9, <2>1, <2>3, OwnerPasses
<1>10. CASE Complete(s, r)
  <2>1. \/ SlotsKeptBut(i) /\ used' = used /\ slot'[i].wb /\ slot'[i].blk = req[s][r].blk
        \/ SlotsKeptBut(i) /\ used' = used \ {req[s][r].blk} /\ FlagsTurn(i, FALSE, FALSE)
    BY <1>0, <1>2, <1>10, CompleteSlot DEF SlotTurns
  <2> QED
    BY <1>8, <1>9, <2>1
<1> QED
  BY <1>7, <1>10

(* The books are kept by every step.                                       *)
LEMMA OwnersNext ==
    ASSUME OneSetup, ControlInv, FreeOutside, MarksOK, OwnersOK, [Next]_vars
    PROVE  OwnersOK'
<1>1. ASSUME NEW s \in Sweeps, Bookless(s) PROVE OwnersOK'
  <2>1. \A t \in Sweeps : SweepOwnsSame(t) /\ \A r \in Reqs : ReqOwnsSame(t, r)
    BY <1>1, BooklessKeeps, OthersSame
  <2> QED
    BY <1>1, <2>1, BooklessKeeps, BooksKept
<1>2. ASSUME NEW s \in Sweeps, NEW m \in Modes, NEW i \in Index, NEW n \in Reqs,
             Start(s, m, i, n)
      PROVE  OwnersOK'
  <2>0. TypeSweeps /\ TypeReqs /\ UNCHANGED <<slot, used>>
    BY <1>2, TypeParts DEF ControlInv, Start
  <2>1. /\ OthersKept(s) /\ sw[s].pc = "off" /\ sw'[s].blk = 0
        /\ \A r \in Reqs : req'[s][r] = IF r <= n THEN IdleReq ELSE NoReq
    BY <1>2, <2>0, StartEffect DEF Starts, At, SweepTurns
  <2>2. sw[s].blk = 0 /\ \A r \in Reqs : req[s][r].st = "none"
    BY <2>1 DEF ControlInv, SweepOK, HoldsOK, ReqOK
  <2>3. NoReq.st = "none" /\ IdleReq.st = "idle"
    BY DEF NoReq, IdleReq
  <2>4. SweepOwnsSame(s) /\ \A r \in Reqs : ReqOwnsSame(s, r)
    BY <2>1, <2>2, <2>3 DEF SweepOwnsSame, ReqOwnsSame
  <2>5. \A t \in Sweeps : SweepOwnsSame(t) /\ \A r \in Reqs : ReqOwnsSame(t, r)
    BY <2>1, <2>4, OthersSame
  <2> QED
    BY <2>0, <2>5, RecordsSame, BooksKept
<1> QED
  BY <1>1, <1>2, OwnersUser, OwnersReserve, OwnersTail, OwnersSubmit, OwnersDone,
     SweepSteps DEF Bookless

(* Blocks that differ are as many as their owners.                         *)
LEMMA AsManyAs ==
    ASSUME NEW S, IsFiniteSet(S), NEW f, f = [x \in S |-> f[x]],
           \A x, y \in S : f[x] = f[y] => x = y
    PROVE  /\ IsFiniteSet({f[x] : x \in S})
           /\ Cardinality({f[x] : x \in S}) = Cardinality(S)
<1> DEFINE T == {f[x] : x \in S}
<1>1. f \in [S -> T]
  OBVIOUS
<1>2. f \in Injection(S, T)
  BY <1>1 DEF Injection, IsInjective
<1>3. f \in Surjection(S, T)
  BY <1>1 DEF Surjection
<1>4. ExistsBijection(S, T)
  BY <1>2, <1>3 DEF ExistsBijection, Bijection
<1> HIDE DEF T
<1>5. IsFiniteSet(T) /\ Cardinality(T) = Cardinality(S)
  BY <1>4, FS_Bijection
<1> QED
  BY <1>5 DEF T

(* Sets that are disjoint add up.                                          *)
LEMMA Disjoint ==
    ASSUME NEW S, IsFiniteSet(S), NEW T, IsFiniteSet(T), S \cap T = {}
    PROVE  /\ IsFiniteSet(S \cup T)
           /\ Cardinality(S \cup T) = Cardinality(S) + Cardinality(T)
<1>1. /\ IsFiniteSet(S \cup T)
      /\ Cardinality(S \cup T) = Cardinality(S) + Cardinality(T) - Cardinality(S \cap T)
  BY FS_Union
<1>2. Cardinality(S) \in Nat /\ Cardinality(T) \in Nat /\ Cardinality(S \cap T) = 0
  BY FS_CardinalityType, FS_EmptySet
<1> QED
  BY <1>1, <1>2

(* What the runs check of the books.                                       *)
LEMMA BooksBalance ==
    ASSUME ControlInv, OwnersOK
    PROVE  BlocksAccounted
<1>0. TypeSlots /\ TypeSweeps /\ TypeReqs /\ HasBlock /\ \A s \in Sweeps : SweepOK(s)
  BY TypeParts DEF ControlInv
<1>b. 0 \notin Blocks
  BY DEF Blocks
<1> DEFINE f == [i \in Written |-> slot[i].blk]
           g == [c \in Carried |-> req[c[1]][c[2]].blk]
           h == [s \in Reserved |-> sw[s].blk]
           A == {f[i] : i \in Written}
           B == {g[c] : c \in Carried}
           C == {h[s] : s \in Reserved}
<1>1. ASSUME NEW i \in Written
      PROVE  /\ i \in Index /\ f[i] = slot[i].blk /\ f[i] \in Blocks
             /\ <<"slot", i, 0>> \in Owners /\ Owns[<<"slot", i, 0>>] = f[i]
  <2>1. i \in Index /\ slot[i].wb
    BY DEF Written
  <2>2. slot[i].blk \in Blocks
    BY <1>0, <2>1, SlotFields DEF HasBlock
  <2> QED
    BY <2>1, <2>2, OwnerKeys, OwnsWhat DEF SlotOwns
<1>2. ASSUME NEW c \in Carried
      PROVE  /\ c = <<c[1], c[2]>> /\ c[1] \in Sweeps /\ c[2] \in Reqs
             /\ g[c] = req[c[1]][c[2]].blk /\ g[c] \in Blocks
             /\ <<"req", c[1], c[2]>> \in Owners /\ Owns[<<"req", c[1], c[2]>>] = g[c]
  <2>1. /\ c = <<c[1], c[2]>> /\ c[1] \in Sweeps /\ c[2] \in Reqs
        /\ req[c[1]][c[2]].st \in {"flight", "done"}
    BY DEF Carried
  <2>2. req[c[1]][c[2]].blk \in Blocks
    BY <2>1, InTable
  <2> QED
    BY <2>1, <2>2, OwnerKeys, OwnsWhat DEF ReqOwns
<1>3. ASSUME NEW s \in Reserved
      PROVE  /\ s \in Sweeps /\ h[s] = sw[s].blk /\ h[s] \in Blocks
             /\ <<"sweep", s, 0>> \in Owners /\ Owns[<<"sweep", s, 0>>] = h[s]
  <2>1. s \in Sweeps /\ sw[s].blk # 0
    BY DEF Reserved
  <2>2. sw[s].blk \in Blocks
    BY <1>0, <2>1, SweepFields
  <2> QED
    BY <2>1, <2>2, OwnerKeys, OwnsWhat
<1>u. \A k, l \in Owners : Owns[k] \in Blocks /\ Owns[k] = Owns[l] => k = l
  BY <1>b DEF OwnersOK, Accounted
<1>4. used = A \cup B \cup C
  <2>1. ASSUME NEW b \in used PROVE b \in A \cup B \cup C
    <3>1. PICK k \in Owners : Owns[k] = b /\ b \in Blocks
      BY DEF OwnersOK, Accounted
    <3>2. CASE \E i \in Index : k = <<"slot", i, 0>>
      <4>1. PICK i \in Index : k = <<"slot", i, 0>>
        BY <3>2
      <4>2. SlotOwns(i) = b /\ b # 0
        BY <1>b, <3>1, <4>1, OwnsWhat
      <4>3. i \in Written /\ slot[i].blk = b
        BY <4>2 DEF SlotOwns, Written
      <4> QED
        BY <4>3
    <3>3. CASE \E s \in Sweeps, r \in Reqs : k = <<"req", s, r>>
      <4>1. PICK s \in Sweeps, r \in Reqs : k = <<"req", s, r>>
        BY <3>3
      <4>2. ReqOwns(s, r) = b /\ b # 0
        BY <1>b, <3>1, <4>1, OwnsWhat
      <4>3. <<s, r>> \in Carried /\ req[s][r].blk = b
        BY <4>2 DEF ReqOwns, Carried
      <4>4. g[<<s, r>>] = b
        BY <4>3
      <4> QED
        BY <4>3, <4>4
    <3>4. CASE \E s \in Sweeps : k = <<"sweep", s, 0>>
      <4>1. PICK s \in Sweeps : k = <<"sweep", s, 0>>
        BY <3>4
      <4>2. sw[s].blk = b /\ b # 0
        BY <1>b, <3>1, <4>1, OwnsWhat
      <4>3. s \in Reserved
        BY <4>2 DEF Reserved
      <4> QED
        BY <4>2, <4>3
    <3> QED
      BY <3>2, <3>3, <3>4, OwnerKeys
  <2> HIDE DEF f, g, h
  <2>2. ASSUME NEW k \in Owners, Owns[k] \in Blocks PROVE Owns[k] \in used
    BY <2>2 DEF OwnersOK, Accounted
  <2>3. ASSUME NEW b \in A PROVE b \in used
    <3>1. PICK i \in Written : b = f[i]
      OBVIOUS
    <3> QED
      BY <1>1, <2>2, <3>1, Zenon
  <2>4. ASSUME NEW b \in B PROVE b \in used
    <3>1. PICK c \in Carried : b = g[c]
      OBVIOUS
    <3> QED
      BY <1>2, <2>2, <3>1, Zenon
  <2>5. ASSUME NEW b \in C PROVE b \in used
    <3>1. PICK s \in Reserved : b = h[s]
      OBVIOUS
    <3> QED
      BY <1>3, <2>2, <3>1, Zenon
  <2> HIDE DEF A, B, C
  <2> QED
    BY <2>1, <2>3, <2>4, <2>5
<1>5. A \cap B = {} /\ (A \cup B) \cap C = {}
  <2> HIDE DEF f, g, h
  <2>1. ASSUME NEW i \in Written, NEW c \in Carried, f[i] = g[c] PROVE FALSE
    <3>1. PICK k \in Owners : k = <<"slot", i, 0>> /\ Owns[k] = f[i] /\ f[i] \in Blocks
      BY <1>1
    <3>2. PICK l \in Owners : l = <<"req", c[1], c[2]>> /\ Owns[l] = g[c]
      BY <1>2
    <3>3. k = l
      BY <1>u, <2>1, <3>1, <3>2
    <3> QED
      BY <3>1, <3>2, <3>3
  <2>2. ASSUME NEW i \in Written, NEW s \in Reserved, f[i] = h[s] PROVE FALSE
    <3>1. PICK k \in Owners : k = <<"slot", i, 0>> /\ Owns[k] = f[i] /\ f[i] \in Blocks
      BY <1>1
    <3>2. PICK l \in Owners : l = <<"sweep", s, 0>> /\ Owns[l] = h[s]
      BY <1>3
    <3>3. k = l
      BY <1>u, <2>2, <3>1, <3>2
    <3> QED
      BY <3>1, <3>2, <3>3
  <2>3. ASSUME NEW c \in Carried, NEW s \in Reserved, g[c] = h[s] PROVE FALSE
    <3>1. PICK k \in Owners : k = <<"req", c[1], c[2]>> /\ Owns[k] = g[c] /\ g[c] \in Blocks
      BY <1>2
    <3>2. PICK l \in Owners : l = <<"sweep", s, 0>> /\ Owns[l] = h[s]
      BY <1>3
    <3>3. k = l
      BY <1>u, <2>3, <3>1, <3>2
    <3> QED
      BY <3>1, <3>2, <3>3
  <2> QED
    BY <2>1, <2>2, <2>3
<1>6. IsFiniteSet(Written) /\ IsFiniteSet(Reserved) /\ IsFiniteSet(Carried)
  <2>1. IsFiniteSet(Index) /\ IsFiniteSet(Sweeps)
    BY ZramAssumption, FS_Interval DEF Index
  <2>2. Written \in SUBSET Index /\ Reserved \in SUBSET Sweeps
    BY DEF Written, Reserved
  <2> QED
    BY <2>1, <2>2, FS_Subset, CarriedFinite
<1>7. IsFiniteSet(A) /\ Cardinality(A) = Cardinality(Written)
  <2>1. f = [i \in Written |-> f[i]]
    OBVIOUS
  <2> HIDE DEF f
  <2>2. ASSUME NEW i \in Written, NEW j \in Written, f[i] = f[j] PROVE i = j
    <3>1. /\ <<"slot", i, 0>> \in Owners /\ Owns[<<"slot", i, 0>>] = f[i]
          /\ f[i] \in Blocks
      BY <1>1, Zenon
    <3>2. <<"slot", j, 0>> \in Owners /\ Owns[<<"slot", j, 0>>] = f[j]
      BY <1>1, Zenon
    <3>3. <<"slot", i, 0>> = <<"slot", j, 0>>
      BY <1>u, <2>2, <3>1, <3>2
    <3> QED
      BY <3>3
  <2> QED
    BY <1>6, <2>1, <2>2, AsManyAs
<1>8. IsFiniteSet(B) /\ Cardinality(B) = Cardinality(Carried)
  <2>1. g = [c \in Carried |-> g[c]]
    OBVIOUS
  <2> HIDE DEF g
  <2>2. ASSUME NEW c \in Carried, NEW d \in Carried, g[c] = g[d] PROVE c = d
    <3>1. PICK k \in Owners : k = <<"req", c[1], c[2]>> /\ Owns[k] = g[c] /\ g[c] \in Blocks
      BY <1>2
    <3>2. PICK l \in Owners : l = <<"req", d[1], d[2]>> /\ Owns[l] = g[d]
      BY <1>2
    <3>3. k = l
      BY <1>u, <2>2, <3>1, <3>2
    <3>4. c[1] = d[1] /\ c[2] = d[2]
      BY <3>1, <3>2, <3>3
    <3> QED
      BY <1>2, <3>4
  <2> QED
    BY <1>6, <2>1, <2>2, AsManyAs
<1>9. IsFiniteSet(C) /\ Cardinality(C) = Cardinality(Reserved)
  <2>1. h = [s \in Reserved |-> h[s]]
    OBVIOUS
  <2> HIDE DEF h
  <2>2. ASSUME NEW s \in Reserved, NEW t \in Reserved, h[s] = h[t] PROVE s = t
    <3>1. /\ <<"sweep", s, 0>> \in Owners /\ Owns[<<"sweep", s, 0>>] = h[s]
          /\ h[s] \in Blocks
      BY <1>3, Zenon
    <3>2. <<"sweep", t, 0>> \in Owners /\ Owns[<<"sweep", t, 0>>] = h[t]
      BY <1>3, Zenon
    <3>3. <<"sweep", s, 0>> = <<"sweep", t, 0>>
      BY <1>u, <2>2, <3>1, <3>2
    <3> QED
      BY <3>3
  <2> QED
    BY <1>6, <2>1, <2>2, AsManyAs
<1>11. A = {slot[i].blk : i \in Written}
  OBVIOUS
<1>12. B = {req[c[1]][c[2]].blk : c \in Carried}
  OBVIOUS
<1>13. C = {sw[s].blk : s \in Reserved}
  OBVIOUS
<1> HIDE DEF A, B, C
<1>14. IsFiniteSet(A \cup B) /\ Cardinality(A \cup B) = Cardinality(A) + Cardinality(B)
  BY <1>5, <1>7, <1>8, Disjoint
<1>15. Cardinality(A \cup B \cup C) = Cardinality(A) + Cardinality(B) + Cardinality(C)
  BY <1>5, <1>9, <1>14, Disjoint
<1> QED
  BY <1>4, <1>7, <1>8, <1>9, <1>11, <1>12, <1>13, <1>15 DEF BlocksAccounted

-----------------------------------------------------------------------------
(* The counters                                                            *)

HugeAt(i)   == slot[i].kind = "huge" /\ ~slot[i].wb
StoredAt(i) == slot[i].kind # "free"
Huge        == {i \in Index : HugeAt(i)}
Stored      == {i \in Index : StoredAt(i)}

(* Sets of slots that differ in one slot differ by one at most.            *)
LEMMA OneMoreOrLess ==
    ASSUME NEW S \in SUBSET Index, NEW T \in SUBSET Index, NEW i \in Index,
           \A j \in Index : j # i => (j \in S <=> j \in T)
    PROVE  /\ Cardinality(S) \in Nat
           /\ Cardinality(T) = Cardinality(S) - If1(i \in S) + If1(i \in T)
<1>0. IsFiniteSet(S) /\ IsFiniteSet(T)
  <2>1. IsFiniteSet(Index)
    BY ZramAssumption, FS_Interval DEF Index
  <2> QED
    BY <2>1, FS_Subset
<1>1. Cardinality(S) \in Nat /\ Cardinality(T) \in Nat
  BY <1>0, FS_CardinalityType
<1>2. CASE i \in S /\ i \in T
  <2>1. S = T
    BY <1>2
  <2> QED
    BY <1>1, <1>2, <2>1 DEF If1
<1>3. CASE i \notin S /\ i \notin T
  <2>1. S = T
    BY <1>3
  <2> QED
    BY <1>1, <1>3, <2>1 DEF If1
<1>4. CASE i \in S /\ i \notin T
  <2>1. T = S \ {i}
    BY <1>4
  <2>2. Cardinality(T) = Cardinality(S) - 1
    BY <1>0, <1>4, <2>1, FS_RemoveElement
  <2> QED
    BY <1>1, <1>4, <2>2 DEF If1
<1>5. CASE i \notin S /\ i \in T
  <2>1. T = S \cup {i}
    BY <1>5
  <2>2. Cardinality(T) = Cardinality(S) + 1
    BY <1>0, <1>5, <2>1, FS_AddElement
  <2> QED
    BY <1>1, <1>5, <2>2 DEF If1
<1> QED
  BY <1>2, <1>3, <1>4, <1>5

(* The counters follow the one slot that a step changes.                   *)
LEMMA CountersTurn ==
    ASSUME CountersExact, NEW i \in Index, SlotsKeptBut(i),
           hugePages' = hugePages - If1(HugeAt(i)) + If1(HugeAt(i)'),
           pagesStored' = pagesStored - If1(StoredAt(i)) + If1(StoredAt(i)')
    PROVE  CountersExact'
<1>1. hugePages = Cardinality(Huge) /\ pagesStored = Cardinality(Stored)
  BY DEF CountersExact, Huge, HugeAt, Stored, StoredAt
<1>2. /\ Huge \in SUBSET Index /\ Huge' \in SUBSET Index
      /\ Stored \in SUBSET Index /\ Stored' \in SUBSET Index
  BY DEF Huge, Stored
<1>3. ASSUME NEW j \in Index, j # i
      PROVE  (j \in Huge <=> j \in Huge') /\ (j \in Stored <=> j \in Stored')
  BY <1>3 DEF SlotsKeptBut, Huge, Stored, HugeAt, StoredAt
<1>4. /\ i \in Huge <=> HugeAt(i)
      /\ i \in Huge' <=> HugeAt(i)'
      /\ i \in Stored <=> StoredAt(i)
      /\ i \in Stored' <=> StoredAt(i)'
  BY DEF Huge, Stored
<1>5. /\ If1(i \in Huge) = If1(HugeAt(i)) /\ If1(i \in Huge') = If1(HugeAt(i)')
      /\ If1(i \in Stored) = If1(StoredAt(i)) /\ If1(i \in Stored') = If1(StoredAt(i)')
  BY <1>4 DEF If1
<1>6. Cardinality(Huge') = Cardinality(Huge) - If1(i \in Huge) + If1(i \in Huge')
  BY <1>2, <1>3, OneMoreOrLess
<1>7. Cardinality(Stored') = Cardinality(Stored) - If1(i \in Stored) + If1(i \in Stored')
  BY <1>2, <1>3, OneMoreOrLess
<1>8. hugePages' = Cardinality(Huge') /\ pagesStored' = Cardinality(Stored')
  BY <1>1, <1>5, <1>6, <1>7
<1> QED
  BY <1>8 DEF CountersExact, Huge, HugeAt, Stored, StoredAt

(* A change of flags changes no counter.                                   *)
LEMMA CountersFlags ==
    ASSUME TypeStats, CountersExact, NEW i \in Index, SlotsKeptBut(i), NEW a, NEW b,
           FlagsTurn(i, a, b), UNCHANGED stats
    PROVE  CountersExact'
<1>1. (HugeAt(i)' <=> HugeAt(i)) /\ (StoredAt(i)' <=> StoredAt(i))
  BY DEF FlagsTurn, SlotTurns, HugeAt, StoredAt
<1>2. /\ If1(HugeAt(i)') = If1(HugeAt(i)) /\ If1(StoredAt(i)') = If1(StoredAt(i))
      /\ If1(HugeAt(i)) \in Int /\ If1(StoredAt(i)) \in Int
  BY <1>1 DEF If1
<1>3. UNCHANGED <<hugePages, pagesStored>>
  BY DEF stats
<1>4. /\ hugePages' = hugePages - If1(HugeAt(i)) + If1(HugeAt(i)')
      /\ pagesStored' = pagesStored - If1(StoredAt(i)) + If1(StoredAt(i)')
  BY <1>2, <1>3 DEF TypeStats
<1> QED
  BY <1>4, CountersTurn

(* An empty table.                                                         *)
LEMMA CountersNone ==
    ASSUME \A i \in Index : slot[i].kind = "free"
    PROVE  CountersExact <=> hugePages = 0 /\ pagesStored = 0
<1>1. /\ {i \in Index : slot[i].kind = "huge" /\ ~slot[i].wb} = {}
      /\ {i \in Index : slot[i].kind # "free"} = {}
  OBVIOUS
<1> QED
  BY <1>1, FS_EmptySet DEF CountersExact

(* The counters are kept by every step.                                    *)
LEMMA CountersNext ==
    ASSUME OneSetup, ControlInv, FreeOutside, MarksOK, CountersExact, [Next]_vars
    PROVE  CountersExact'
<1>0. TypeSlots /\ TypeStats /\ TypeSweeps /\ TypeReqs
  BY TypeParts DEF ControlInv
<1>t. hugePages \in Int /\ pagesStored \in Int
  BY <1>0 DEF TypeStats
<1>i. \A b \in BOOLEAN : If1(b) \in Int
  BY DEF If1
<1>1. ASSUME NEW i \in Index, SlotFree(i) PROVE CountersExact'
  <2>1. SlotsKeptBut(i) /\ slot'[i].kind = "free" /\ slot[i].kind # "free"
    BY <1>0, <1>1, SlotFreeEffect DEF SlotTurns
  <2>2. hugePages' = hugePages - HugeDrop(slot[i]) /\ pagesStored' = pagesStored - 1
    BY <1>1 DEF SlotFree
  <2>3. If1(HugeAt(i)') = 0 /\ If1(StoredAt(i)) = 1 /\ If1(StoredAt(i)') = 0
    BY <2>1 DEF HugeAt, StoredAt, If1
  <2>4. HugeDrop(slot[i]) = If1(HugeAt(i)) /\ If1(HugeAt(i)) \in Int
    BY DEF HugeDrop, HugeAt, If1
  <2>5. /\ hugePages' = hugePages - If1(HugeAt(i)) + If1(HugeAt(i)')
        /\ pagesStored' = pagesStored - If1(StoredAt(i)) + If1(StoredAt(i)')
    BY <1>t, <2>2, <2>3, <2>4
  <2> QED
    BY <2>1, <2>5, CountersTurn
<1>2. ASSUME NEW i \in Index, NEW v \in Vals, NEW k \in Kinds, Store(i, v, k)
      PROVE  CountersExact'
  <2>1. SlotsKeptBut(i) /\ slot'[i].kind = k /\ ~slot'[i].wb /\ k # "free"
    BY <1>0, <1>2, StoreEffect, ZramAssumption DEF SlotTurns
  <2>2. /\ hugePages' = hugePages - HugeDrop(slot[i]) + If1(k = "huge")
        /\ pagesStored' = pagesStored - If1(slot[i].kind # "free") + 1
    BY <1>2 DEF Store
  <2>3. If1(HugeAt(i)') = If1(k = "huge") /\ If1(StoredAt(i)') = 1
    BY <2>1 DEF HugeAt, StoredAt, If1
  <2>4. HugeDrop(slot[i]) = If1(HugeAt(i)) /\ If1(slot[i].kind # "free") = If1(StoredAt(i))
    BY DEF HugeDrop, HugeAt, StoredAt, If1
  <2> QED
    BY <2>1, <2>2, <2>3, <2>4, CountersTurn
<1>3. ASSUME NEW i \in Index, NEW b \in BOOLEAN, Recompress(i, b) PROVE CountersExact'
  <2>1. CASE ~b
    <3>1. SlotsKeptBut(i) /\ FlagsTurn(i, FALSE, FALSE)
      BY <1>0, <1>3, <2>1, RecompressEffect
    <3>2. UNCHANGED stats
      BY <1>t, <1>3, <2>1 DEF Recompress, stats
    <3> QED
      BY <1>0, <3>1, <3>2, CountersFlags
  <2>2. CASE b
    <3>1. SlotsKeptBut(i) /\ slot'[i].kind = "comp" /\ slot[i].kind \in {"comp", "huge"}
      BY <1>0, <1>3, <2>2, RecompressEffect DEF SlotTurns
    <3>2. hugePages' = hugePages - HugeDrop(slot[i]) /\ pagesStored' = pagesStored
      BY <1>3, <2>2 DEF Recompress
    <3>3. If1(HugeAt(i)') = 0 /\ If1(StoredAt(i)) = 1 /\ If1(StoredAt(i)') = 1
      BY <3>1 DEF HugeAt, StoredAt, If1
    <3>4. HugeDrop(slot[i]) = If1(HugeAt(i)) /\ If1(HugeAt(i)) \in Int
      BY DEF HugeDrop, HugeAt, If1
    <3>5. /\ hugePages' = hugePages - If1(HugeAt(i)) + If1(HugeAt(i)')
          /\ pagesStored' = pagesStored - If1(StoredAt(i)) + If1(StoredAt(i)')
      BY <1>t, <3>2, <3>3, <3>4
    <3> QED
      BY <3>1, <3>5, CountersTurn
  <2> QED
    BY <2>1, <2>2
<1>4. ASSUME NEW s \in Sweeps, NEW r \in Reqs, Complete(s, r) PROVE CountersExact'
  <2>0. req[s][r].st = "done"
    BY <1>4 DEF Complete
  <2>1. PICK i \in Index : i = req[s][r].idx
    BY <2>0, InTable
  <2>2. ~slot[i].wb
    <3>1. About(s, r) = i /\ r \in Turns
      BY <2>0, <2>1, TurnsNumbers DEF About
    <3> QED
      BY <3>1 DEF MarksOK
  <2>3. CASE ~Unchanged(slot[i])
    <3>1. SlotsKeptBut(i) /\ FlagsTurn(i, FALSE, FALSE)
      BY <1>0, <1>4, <2>1, <2>3, CompleteSlot DEF Unchanged
    <3>2. UNCHANGED stats
      BY <1>4, <2>1, <2>3 DEF Complete, stats
    <3> QED
      BY <1>0, <3>1, <3>2, CountersFlags
  <2>4. CASE Unchanged(slot[i])
    <3>1. SlotsKeptBut(i) /\ slot'[i].kind = slot[i].kind /\ slot'[i].wb
      BY <1>0, <1>4, <2>1, <2>4, CompleteSlot DEF Unchanged, SlotTurns
    <3>2. hugePages' = hugePages - If1(slot[i].kind = "huge") /\ pagesStored' = pagesStored
      BY <1>4, <2>1, <2>4 DEF Complete
    <3>3. /\ If1(HugeAt(i)') = 0 /\ If1(HugeAt(i)) = If1(slot[i].kind = "huge")
          /\ If1(StoredAt(i)') = If1(StoredAt(i))
          /\ If1(HugeAt(i)) \in Int /\ If1(StoredAt(i)) \in Int
      BY <2>2, <3>1 DEF HugeAt, StoredAt, If1
    <3>5. /\ hugePages' = hugePages - If1(HugeAt(i)) + If1(HugeAt(i)')
          /\ pagesStored' = pagesStored - If1(StoredAt(i)) + If1(StoredAt(i)')
      BY <1>t, <3>2, <3>3
    <3> QED
      BY <3>1, <3>5, CountersTurn
  <2> QED
    BY <2>3, <2>4
<1>5. ASSUME MetaFree PROVE CountersExact'
  <2>1. slot' = [i \in Index |-> FreeSlot] /\ hugePages' = 0 /\ pagesStored' = 0
    BY <1>5 DEF MetaFree
  <2>2. \A i \in Index : slot'[i].kind = "free"
    BY <2>1, FreshTable DEF SlotTurns
  <2>3. {i \in Index : slot'[i].kind = "huge" /\ ~slot'[i].wb} = {}
    BY <2>2
  <2>4. {i \in Index : slot'[i].kind # "free"} = {}
    BY <2>2
  <2> QED
    BY <2>1, <2>3, <2>4, FS_EmptySet DEF CountersExact
<1>6. ASSUME NEW n \in 1..MaxPages, DisksizeStore(n) PROVE CountersExact'
  <2>1. /\ disksize = 0 /\ ~Freeing /\ UNCHANGED <<hugePages, pagesStored>>
        /\ slot' = [i \in Index |-> FreeSlot]
    BY <1>6 DEF DisksizeStore, Admin, OneSetup, Freeing, stats
  <2>2. hugePages = 0 /\ pagesStored = 0
    BY <2>1, NothingStored, CountersNone
  <2>3. \A i \in Index : slot'[i].kind = "free"
    BY <2>1, FreshTable DEF SlotTurns
  <2>4. {i \in Index : slot'[i].kind = "huge" /\ ~slot'[i].wb} = {}
    BY <2>3
  <2>5. {i \in Index : slot'[i].kind # "free"} = {}
    BY <2>3
  <2> QED
    BY <2>1, <2>2, <2>4, <2>5, FS_EmptySet DEF CountersExact
<1>7. ASSUME UNCHANGED <<slot, hugePages, pagesStored>> PROVE CountersExact'
  BY <1>7 DEF CountersExact
<1>8. ASSUME NEW i \in Index, Accessed(i) PROVE CountersExact'
  BY <1>0, <1>8, AccessedEffect, CountersFlags DEF Accessed
<1>9. ASSUME NEW i \in Index, NEW b \in BOOLEAN, MarkIdle(i, b) PROVE CountersExact'
  BY <1>0, <1>9, MarkIdleEffect, CountersFlags DEF MarkIdle
<1>10. ASSUME NEW s \in Sweeps, Mark(s) \/ ReadFails(s) PROVE CountersExact'
  <2>1. PICK i \in Index : i = sw[s].index
    BY <1>10, InTable DEF Mark, ReadFails, At
  <2>2. UNCHANGED stats
    BY <1>10 DEF Mark, ReadFails
  <2>3. slot' = slot \/ (SlotsKeptBut(i) /\ \E a, b \in BOOLEAN : FlagsTurn(i, a, b))
    BY <1>0, <1>10, <2>1, MarkSlot, ReadFailsSlot
  <2> QED
    BY <1>0, <1>7, <2>2, <2>3, CountersFlags DEF stats
<1>11. ASSUME NEW s \in Sweeps, NEW r \in Reqs, UnmarkFailed(s, r) PROVE CountersExact'
  <2>1. PICK i \in Index : i = req[s][r].idx
    BY <1>11, InTable DEF UnmarkFailed, At
  <2>2. UNCHANGED stats
    BY <1>11 DEF UnmarkFailed
  <2>3. SlotsKeptBut(i) /\ FlagsTurn(i, FALSE, FALSE)
    BY <1>0, <1>11, <2>1, UnmarkFailedSlot
  <2> QED
    BY <1>0, <2>2, <2>3, CountersFlags
<1>12. ASSUME UNCHANGED slot PROVE CountersExact'
  <2>1. ASSUME UNCHANGED stats PROVE CountersExact'
    BY <1>7, <1>12, <2>1 DEF stats
  <2>2. \/ UNCHANGED stats \/ MetaFree
        \/ \E s \in Sweeps, r \in Reqs : Complete(s, r)
        \/ \E i \in Index : SlotFree(i)
        \/ \E i \in Index, v \in Vals, k \in Kinds : Store(i, v, k)
        \/ \E i \in Index, b \in BOOLEAN : Recompress(i, b)
    BY CountSteps DEF LimitStore, LimitEnableStore, ZramAdd, Submit, CompleteError
  <2> QED
    BY <1>1, <1>2, <1>3, <1>4, <1>5, <2>1, <2>2
<1> QED
  BY <1>1, <1>2, <1>3, <1>4, <1>5, <1>6, <1>8, <1>9, <1>10, <1>11, <1>12, SlotSteps

-----------------------------------------------------------------------------
(* The theorems                                                            *)

(* A fresh device has an empty table and no owners.                        *)
LEMMA BooksInit == Init => BooksInv
<1> SUFFICES ASSUME Init PROVE BooksInv
  OBVIOUS
<1>1. /\ \A i \in Index : slot[i].kind = "free" /\ ~slot[i].wb /\ ~slot[i].under
      /\ used = {} /\ hugePages = 0 /\ pagesStored = 0
  BY DEF Init, FreeSlot
<1>2. \A s \in Sweeps : sw[s].pc = "off" /\ sw[s].blk = 0
                          /\ \A r \in Reqs : req[s][r].st = "none"
  BY DEF Init, NoSweep, NoReq
<1>3. FreeOutside
  BY <1>1 DEF FreeOutside
<1>4. MarksOK
  <2>1. \A s \in Sweeps, r \in Turns : About(s, r) = NoSlot
    BY <1>2, TurnsNumbers DEF About, Turns
  <2>2. NoSlot \notin Index
    BY DEF NoSlot, Index
  <2> QED
    BY <1>1, <2>1, <2>2 DEF MarksOK
<1>5. OwnersOK
  <2>1. \A i \in Index : Owns[<<"slot", i, 0>>] = 0
    BY <1>1, OwnsWhat DEF SlotOwns
  <2>2. \A s \in Sweeps, r \in Reqs : Owns[<<"req", s, r>>] = 0
    BY <1>2, OwnsWhat DEF ReqOwns
  <2>3. \A s \in Sweeps : Owns[<<"sweep", s, 0>>] = 0
    BY <1>2, OwnsWhat
  <2>4. \A k \in Owners : Owns[k] = 0
    BY <2>1, <2>2, <2>3, OwnerKeys
  <2>5. 0 \notin Blocks
    BY DEF Blocks
  <2> QED
    BY <1>1, <2>4, <2>5 DEF OwnersOK, Accounted
<1>6. CountersExact
  BY <1>1, CountersNone
<1> QED
  BY <1>3, <1>4, <1>5, <1>6 DEF BooksInv

(* The bookkeeping as a whole is an invariant: each part needs the others  *)
(* (a completion needs the mark to know that the slot is not written back  *)
(* yet, set-up and reset need the table to be empty outside the device).   *)
THEOREM BooksCorrect == ASSUME OneSetup PROVE Spec => []BooksInv
<1>1. ControlInv /\ BooksInv /\ [Next]_vars => BooksInv'
  BY OutsideNext, MarksNext, OwnersNext, CountersNext DEF BooksInv
<1> QED
  BY <1>1, BooksInit, ControlCorrect, PTL DEF Spec

(* ZRAM_UNDER_WB is set while exactly one sweep or request is about the    *)
(* slot: the test in writeback_store(), the copy, the submission, the      *)
(* completion and the error paths hand the mark on without losing or       *)
(* doubling it, with any number of sweeps and requests.                    *)
THEOREM MarksAreOwned == ASSUME OneSetup PROVE Spec => []UnderWbOwned
<1>1. ControlInv /\ BooksInv => UnderWbOwned
  BY MarksOwned DEF BooksInv
<1> QED
  BY <1>1, BooksCorrect, ControlCorrect, PTL

(* Every busy block of the backing device has exactly one owner: none      *)
(* leaks, none is freed twice, none is shared by two pages.                *)
THEOREM BlocksAreAccounted == ASSUME OneSetup PROVE Spec => []BlocksAccounted
<1>1. ControlInv /\ BooksInv => BlocksAccounted
  BY BooksBalance DEF BooksInv
<1> QED
  BY <1>1, BooksCorrect, ControlCorrect, PTL

(* huge_pages and pages_stored are exact at any moment: what               *)
(* zram_free_page() takes off is what the writeback left on.               *)
THEOREM CountersAreExact == ASSUME OneSetup PROVE Spec => []CountersExact
<1>1. BooksInv => CountersExact
  BY DEF BooksInv
<1> QED
  BY <1>1, BooksCorrect, PTL

=============================================================================
