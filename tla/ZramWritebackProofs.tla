------------------------- MODULE ZramWritebackProofs -------------------------
(***************************************************************************)
(* What TLAPS proves of a sweep's control and of the device's life, for    *)
(* every table, backing device, batch size and number of sweeps: the       *)
(* types, that no sweep or bio outlives the table or its control block,    *)
(* and the budget.  The lemmas on who changes what and on what each step   *)
(* of a sweep does to its own records serve the proofs of the modules that *)
(* extend this one, too.                                                   *)
(***************************************************************************)
EXTENDS ZramWriteback, TLAPS, FiniteSetTheorems

-----------------------------------------------------------------------------
(* The invariant                                                           *)

(* The administrator does not set the device up, or reset it, while a      *)
(* reset is under way.                                                     *)
OneSetup == "setup" \notin Overlap

(* A reset has taken the size away, and nobody has the device open; a      *)
(* removed device has no size; a device with a size has a table.           *)
DeviceOK ==
    /\ stage # "none" => disksize = 0 /\ ~open /\ ~removed
    /\ removed => disksize = 0 /\ ~open
    /\ disksize # 0 => table

(* Which request and which block a sweep holds, by program counter.        *)
HoldsOK(x) ==
    /\ x.pc \in {"reserve", "mark", "read", "submit"} => x.held # 0
    /\ x.pc \in {"mark", "read", "submit"} => x.blk # 0
    /\ x.pc \in {"off", "select", "wait", "asleep", "complete", "unmark", "drain"}
           => x.held = 0
    /\ x.blk # 0 => x.held # 0

(* A sweep that runs has its control block, and the device is set up; the  *)
(* control block outlives the callbacks.                                   *)
LiveOK(x) ==
    /\ x.pc = "off" <=> x.ctl # "live"
    /\ x.ctl = "none" => x.waking = 0
    /\ x.pc # "off" => disksize # 0 /\ backing

(* The iterations left stay within the table.                              *)
BoundOK(x) ==
    /\ x.pc # "off" => x.nr >= 0 /\ x.index + x.nr <= disksize
    /\ x.pc \in {"select", "reserve", "mark", "read", "submit"} => x.nr > 0
    /\ x.pc \in {"tail", "drain", "off"} \/ x.end \/ x.nr > 0 \/ x.pc = "top"
    /\ x.pc \in {"top", "select", "reserve", "mark", "read", "submit"} => ~x.end
    /\ x.pc = "drain" => x.end

(* The requests of a sweep x: the one it holds, none without a sweep, and  *)
(* a block and a slot of the table for every one on its way.               *)
ReqOK(x, r, y) ==
    /\ x.pc = "off" => y.st = "none"
    /\ y.st = "held" <=> x.held = r
    /\ y.st \in {"flight", "done"} => y.blk # 0
    /\ y.st \in {"flight", "done", "failed"} => y.idx < disksize

SweepOK(s) ==
    /\ HoldsOK(sw[s]) /\ LiveOK(sw[s]) /\ BoundOK(sw[s])
    /\ \A r \in Reqs : ReqOK(sw[s], r, req[s][r])

(* A slot that is written back, and a read of one, has a block.            *)
HasBlock ==
    /\ \A i \in Index : slot[i].wb => slot[i].blk # 0
    /\ rd.pc = "bdev" => rd.blk # 0

ControlInv ==
    TypeOK /\ DeviceOK /\ HasBlock /\ \A s \in Sweeps : SweepOK(s)

-----------------------------------------------------------------------------
(* Numbers                                                                 *)

(* Smallest() of a set of numbers that is not empty is its least element.  *)
LEMMA SmallestWorks ==
    ASSUME NEW S \in SUBSET Nat, S # {}
    PROVE  Smallest(S) \in S /\ \A y \in S : Smallest(S) <= y
<1> DEFINE R == OpToRel(<, Nat)
<1>1. \A x, y \in Nat : <<x, y>> \in R <=> x < y
  BY DEF OpToRel
<1>2. IsWellFoundedOn(R, Nat)
  BY NatLessThanWellFounded
<1> HIDE DEF R
<1>3. PICK x \in S : \A y \in S : <<y, x>> \notin R
  BY <1>2, WFMin
<1>4. ASSUME NEW y \in S PROVE x <= y
  <2>1. x \in Nat /\ y \in Nat
    OBVIOUS
  <2>2. ~(y < x)
    BY <1>1, <1>3, <2>1, Zenon
  <2> QED
    BY <2>1, <2>2
<1> QED
  BY <1>3, <1>4 DEF Smallest

(* So the first idle request is a request, and the first free block of the *)
(* bitmap is a block that is free.                                         *)
LEMMA SmallestReq ==
    ASSUME NEW S \in SUBSET Reqs, S # {}
    PROVE  Smallest(S) \in S /\ Smallest(S) \in Reqs
<1>1. S \in SUBSET Nat
  BY DEF Reqs
<1> QED
  BY <1>1, SmallestWorks

(* The first free block of the bitmap is a block that is free.             *)
LEMMA SmallestBlock ==
    ASSUME used \subseteq Blocks, used # Blocks
    PROVE  Smallest(Blocks \ used) \in Blocks \ used
<1>1. Blocks \ used \in SUBSET Nat
  BY DEF Blocks
<1>2. Blocks \ used # {}
  OBVIOUS
<1> QED
  BY <1>1, <1>2, SmallestWorks

-----------------------------------------------------------------------------
(* What a step does to the sweep's own record and requests                 *)

TypeSweeps == sw \in [Sweeps -> SweepType]
TypeReqs   == req \in [Sweeps -> [Reqs -> ReqType]]

OthersKept(s) == \A t \in Sweeps : t # s => sw'[t] = sw[t] /\ req'[t] = req[t]
SweepTurns(s, pc, index, nr, held, blk, end, ctl, waking) ==
    /\ sw'[s].pc = pc /\ sw'[s].index = index /\ sw'[s].nr = nr
    /\ sw'[s].held = held /\ sw'[s].blk = blk /\ (sw'[s].end <=> end)
    /\ sw'[s].ctl = ctl /\ sw'[s].waking = waking
SweepMoves(s, pc) ==
    LET x == sw[s]
    IN SweepTurns(s, pc, x.index, x.nr, x.held, x.blk, x.end, x.ctl, x.waking)
ReqTurns(s, r, st, idx, blk, data) ==
    /\ req'[s][r].st = st /\ req'[s][r].idx = idx /\ req'[s][r].blk = blk
    /\ req'[s][r].data = data
ReqsKeptBut(s, r) == \A q \in Reqs : q # r => req'[s][q] = req[s][q]

(* LimitCheck(): only the program counter.                                 *)
LEMMA LimitCheckEffect ==
    ASSUME TypeSweeps, NEW s \in Sweeps, LimitCheck(s)
    PROVE  /\ At(s, "top") /\ OthersKept(s) /\ req' = req
           /\ \/ SweepMoves(s, "tail")
              \/ /\ sw[s].nr # 0 /\ ~(enable /\ limit = 0)
                 /\ \/ sw[s].held = 0 /\ SweepMoves(s, "select")
                    \/ sw[s].held # 0 /\ SweepMoves(s, "reserve")
BY DEF LimitCheck, Moves, TypeSweeps, SweepType, OthersKept, SweepMoves, SweepTurns

(* SelectIdleReq(): wait, or hold an idle request.                         *)
LEMMA SelectEffect ==
    ASSUME TypeSweeps, TypeReqs, NEW s \in Sweeps, SelectIdleReq(s)
    PROVE  /\ At(s, "select") /\ OthersKept(s)
           /\ \/ req' = req /\ SweepMoves(s, "wait")
              \/ \E r \in Reqs :
                    LET x == sw[s]
                        y == req[s][r]
                    IN /\ y.st = "idle" /\ ReqsKeptBut(s, r)
                       /\ SweepTurns(s, "reserve", x.index, x.nr, r, x.blk,
                                     x.end, x.ctl, x.waking)
                       /\ ReqTurns(s, r, "held", y.idx, y.blk, y.data)
<1>0. At(s, "select")
  BY DEF SelectIdleReq
<1>1. CASE InState(s, {"idle"}) = {}
  BY <1>1 DEF SelectIdleReq, Moves, TypeSweeps, SweepType, OthersKept, SweepMoves,
     SweepTurns
<1>2. CASE InState(s, {"idle"}) # {}
  <2>0. InState(s, {"idle"}) \in SUBSET Reqs
    BY DEF InState
  <2>a. /\ Smallest(InState(s, {"idle"})) \in Reqs
        /\ Smallest(InState(s, {"idle"})) \in InState(s, {"idle"})
    BY <1>2, <2>0, SmallestReq
  <2>1. PICK r \in Reqs : req[s][r].st = "idle" /\ r = Smallest(InState(s, {"idle"}))
    BY <2>a DEF InState
  <2>2. /\ sw' = [sw EXCEPT ![s].pc = "reserve", ![s].held = r]
        /\ req' = [req EXCEPT ![s][r].st = "held"]
    BY <1>2, <2>1 DEF SelectIdleReq
  <2> QED
    BY <1>0, <2>1, <2>2 DEF TypeSweeps, TypeReqs, SweepType, ReqType, OthersKept,
       SweepTurns, ReqTurns, ReqsKeptBut
<1> QED
  BY <1>1, <1>2

(* Reserve(): keep the block, take the first free one, or give up.         *)
LEMMA ReserveEffect ==
    ASSUME TypeSweeps, used \subseteq Blocks, NEW s \in Sweeps, Reserve(s)
    PROVE  /\ At(s, "reserve") /\ OthersKept(s) /\ req' = req
           /\ \/ sw[s].blk # 0 /\ used' = used /\ SweepMoves(s, "mark")
              \/ sw[s].blk = 0 /\ used' = used /\ SweepMoves(s, "tail")
              \/ \E b \in Blocks \ used :
                    LET x == sw[s]
                    IN /\ x.blk = 0 /\ used' = used \cup {b}
                       /\ SweepTurns(s, "mark", x.index, x.nr, x.held, b, x.end,
                                     x.ctl, x.waking)
<1>0. At(s, "reserve")
  BY DEF Reserve
<1>1. CASE sw[s].blk # 0
  BY <1>1 DEF Reserve, Moves, TypeSweeps, SweepType, OthersKept, SweepMoves, SweepTurns
<1>2. CASE sw[s].blk = 0 /\ used = Blocks
  BY <1>2 DEF Reserve, Moves, TypeSweeps, SweepType, OthersKept, SweepMoves, SweepTurns
<1>3. CASE sw[s].blk = 0 /\ used # Blocks
  <2>1. PICK b \in Blocks \ used : b = Smallest(Blocks \ used)
    BY <1>3, SmallestBlock
  <2>2. sw' = [sw EXCEPT ![s].pc = "mark", ![s].blk = b] /\ used' = used \cup {b}
    BY <1>3, <2>1 DEF Reserve
  <2>3. req' = req
    BY DEF Reserve
  <2>4. /\ OthersKept(s)
        /\ SweepTurns(s, "mark", sw[s].index, sw[s].nr, sw[s].held, b, sw[s].end,
                      sw[s].ctl, sw[s].waking)
    BY <2>2, <2>3 DEF TypeSweeps, SweepType, OthersKept, SweepTurns
  <2> QED
    BY <1>0, <1>3, <2>1, <2>2, <2>3, <2>4
<1> QED
  BY <1>1, <1>2, <1>3

(* Mark(): skip the slot, or mark it and go on to copy or read the page.   *)
LEMMA MarkEffect ==
    ASSUME TypeSweeps, TypeReqs, NEW s \in Sweeps, Mark(s), sw[s].held \in Reqs
    PROVE  LET x == sw[s]
               y == req[s][x.held]
           IN /\ At(s, "mark") /\ OthersKept(s) /\ ReqsKeptBut(s, x.held)
              /\ \/ /\ req' = req
                    /\ SweepTurns(s, "top", x.index + 1, x.nr - 1, x.held, x.blk,
                                  x.end, x.ctl, x.waking)
                 \/ ~compressed /\ SweepMoves(s, "read") /\ req' = req
                 \/ /\ compressed /\ SweepMoves(s, "submit")
                    /\ ReqTurns(s, x.held, y.st, y.idx, y.blk, RawObject(slot[x.index]))
<1>0. At(s, "mark")
  BY DEF Mark
<1>1. CASE Skips(sw[s].mode, slot[sw[s].index])
  <2>1. sw' = [sw EXCEPT ![s] = NextIndex(sw[s])] /\ req' = req
    BY <1>1 DEF Mark
  <2>2. OthersKept(s) /\ sw'[s] = NextIndex(sw[s])
    BY <2>1 DEF OthersKept, TypeSweeps
  <2>3. ReqsKeptBut(s, sw[s].held)
    BY <2>1 DEF ReqsKeptBut
  <2>4. /\ NextIndex(sw[s]).pc = "top" /\ NextIndex(sw[s]).index = sw[s].index + 1
        /\ NextIndex(sw[s]).nr = sw[s].nr - 1 /\ NextIndex(sw[s]).held = sw[s].held
        /\ NextIndex(sw[s]).blk = sw[s].blk /\ NextIndex(sw[s]).end = sw[s].end
        /\ NextIndex(sw[s]).ctl = sw[s].ctl /\ NextIndex(sw[s]).waking = sw[s].waking
    BY DEF NextIndex, TypeSweeps, SweepType
  <2>5. SweepTurns(s, "top", sw[s].index + 1, sw[s].nr - 1, sw[s].held, sw[s].blk,
                   sw[s].end, sw[s].ctl, sw[s].waking)
    BY <2>2, <2>4 DEF SweepTurns
  <2> QED
    BY <1>0, <2>1, <2>2, <2>3, <2>5
<1>2. CASE ~Skips(sw[s].mode, slot[sw[s].index]) /\ ~compressed
  BY <1>2 DEF Mark, Moves, TypeSweeps, SweepType, OthersKept, ReqsKeptBut, SweepMoves,
     SweepTurns
<1>3. CASE ~Skips(sw[s].mode, slot[sw[s].index]) /\ compressed
  <2>1. /\ sw' = [sw EXCEPT ![s].pc = "submit"]
        /\ req' = [req EXCEPT ![s][sw[s].held].data = RawObject(slot[sw[s].index])]
        /\ slot' = [slot EXCEPT ![sw[s].index].under = TRUE, ![sw[s].index].idle = TRUE]
    BY <1>3 DEF Mark, Moves
  <2> QED
    BY <1>0, <1>3, <2>1 DEF TypeSweeps, TypeReqs, SweepType, ReqType, OthersKept,
       ReqsKeptBut, SweepMoves, SweepTurns, ReqTurns
<1> QED
  BY <1>1, <1>2, <1>3

(* Read(): the page is in the request's buffer.                            *)
LEMMA ReadEffect ==
    ASSUME TypeSweeps, TypeReqs, NEW s \in Sweeps, Read(s), sw[s].held \in Reqs
    PROVE  LET x == sw[s]
               y == req[s][x.held]
           IN /\ At(s, "read") /\ OthersKept(s) /\ ReqsKeptBut(s, x.held)
              /\ SweepMoves(s, "submit")
              /\ ReqTurns(s, x.held, y.st, y.idx, y.blk, PageOf(slot[x.index]))
BY DEF Read, Moves, TypeSweeps, TypeReqs, SweepType, ReqType, OthersKept,
   ReqsKeptBut, SweepMoves, SweepTurns, ReqTurns

(* ReadFails(): on to the next slot with the request and the block.        *)
LEMMA ReadFailsEffect ==
    ASSUME TypeSweeps, NEW s \in Sweeps, ReadFails(s)
    PROVE  LET x == sw[s]
           IN /\ At(s, "read") /\ OthersKept(s) /\ req' = req
              /\ SweepTurns(s, "top", x.index + 1, x.nr - 1, x.held, x.blk, x.end,
                            x.ctl, x.waking)
BY DEF ReadFails, NextIndex, TypeSweeps, SweepType, OthersKept, SweepTurns

(* Submit(): the request takes the slot and the block along.               *)
LEMMA SubmitEffect ==
    ASSUME TypeSweeps, TypeReqs, NEW s \in Sweeps, Submit(s), sw[s].held \in Reqs
    PROVE  LET x == sw[s]
               y == req[s][x.held]
           IN /\ At(s, "submit") /\ OthersKept(s) /\ ReqsKeptBut(s, x.held)
              /\ SweepTurns(s, "top", x.index + 1, x.nr - 1, 0, 0, x.end, x.ctl,
                            x.waking)
              /\ ReqTurns(s, x.held, "flight", x.index, x.blk, y.data)
BY DEF Submit, NextIndex, TypeSweeps, TypeReqs, SweepType, ReqType, OthersKept,
   ReqsKeptBut, SweepTurns, ReqTurns

(* Endio(): the request is listed, the wake-up is still to come.           *)
LEMMA EndioEffect ==
    ASSUME TypeSweeps, TypeReqs, NEW s \in Sweeps, NEW r \in Reqs, NEW err \in BOOLEAN,
           Endio(s, r, err)
    PROVE  LET x == sw[s]
               y == req[s][r]
           IN /\ y.st = "flight" /\ OthersKept(s) /\ ReqsKeptBut(s, r)
              /\ SweepTurns(s, x.pc, x.index, x.nr, x.held, x.blk, x.end, x.ctl,
                            x.waking + 1)
              /\ ReqTurns(s, r, "done", y.idx, y.blk, y.data) /\ (req'[s][r].err <=> err)
BY DEF Endio, TypeSweeps, TypeReqs, SweepType, ReqType, OthersKept, ReqsKeptBut,
   SweepTurns, ReqTurns

(* EndioWake(): a sweep that sleeps is woken.                              *)
LEMMA EndioWakeEffect ==
    ASSUME TypeSweeps, NEW s \in Sweeps, EndioWake(s)
    PROVE  LET x == sw[s]
           IN /\ x.waking > 0 /\ OthersKept(s) /\ req' = req
              /\ SweepTurns(s, WokenBy(x.pc), x.index, x.nr, x.held, x.blk, x.end,
                            x.ctl, x.waking - 1)
BY DEF EndioWake, TypeSweeps, SweepType, OthersKept, SweepTurns

(* RcuFree(): the control block goes.                                      *)
LEMMA RcuFreeEffect ==
    ASSUME TypeSweeps, NEW s \in Sweeps, RcuFree(s)
    PROVE  LET x == sw[s]
           IN /\ x.ctl = "rcu" /\ x.waking = 0 /\ OthersKept(s) /\ req' = req
              /\ SweepTurns(s, x.pc, x.index, x.nr, x.held, x.blk, x.end, "none",
                            x.waking)
BY DEF RcuFree, TypeSweeps, SweepType, OthersKept, SweepTurns

(* WaitDone(): only the program counter.                                   *)
LEMMA WaitDoneEffect ==
    ASSUME TypeSweeps, NEW s \in Sweeps, WaitDone(s)
    PROVE  /\ At(s, "wait") /\ OthersKept(s) /\ req' = req
           /\ SweepMoves(s, "asleep") \/ SweepMoves(s, "complete")
BY DEF WaitDone, Moves, TypeSweeps, SweepType, OthersKept, SweepMoves, SweepTurns

(* CompleteNone(): the sweep goes on, or to its end.                       *)
LEMMA CompleteNoneEffect ==
    ASSUME TypeSweeps, NEW s \in Sweeps, CompleteNone(s)
    PROVE  /\ At(s, "complete") /\ OthersKept(s) /\ req' = req
           /\ \/ sw[s].end /\ SweepMoves(s, "drain")
              \/ ~sw[s].end /\ SweepMoves(s, "select")
BY DEF CompleteNone, Moves, TypeSweeps, SweepType, OthersKept, SweepMoves, SweepTurns

(* Complete(): the request is idle again.                                  *)
LEMMA CompleteEffect ==
    ASSUME TypeSweeps, TypeReqs, NEW s \in Sweeps, NEW r \in Reqs, Complete(s, r)
    PROVE  /\ At(s, "complete") /\ req[s][r].st = "done"
           /\ OthersKept(s) /\ ReqsKeptBut(s, r) /\ sw' = sw
           /\ ReqTurns(s, r, "idle", 0, 0, NoData)
BY DEF Complete, Recycled, IdleReq, NoReq, TypeSweeps, TypeReqs, OthersKept,
   ReqsKeptBut, ReqTurns

(* UnmarkFailed(): the request of the failed write is idle again.          *)
LEMMA UnmarkFailedEffect ==
    ASSUME TypeSweeps, TypeReqs, NEW s \in Sweeps, NEW r \in Reqs, UnmarkFailed(s, r)
    PROVE  /\ At(s, "unmark") /\ req[s][r].st = "failed"
           /\ OthersKept(s) /\ ReqsKeptBut(s, r) /\ SweepMoves(s, "complete")
           /\ ReqTurns(s, r, "idle", 0, 0, NoData)
BY DEF UnmarkFailed, Moves, Recycled, IdleReq, NoReq, TypeSweeps, TypeReqs, SweepType,
   OthersKept, ReqsKeptBut, ReqTurns, SweepMoves, SweepTurns

(* CompleteError(): the request gives its block up.                        *)
LEMMA CompleteErrorEffect ==
    ASSUME TypeSweeps, TypeReqs, NEW s \in Sweeps, NEW r \in Reqs, CompleteError(s, r)
    PROVE  LET y == req[s][r]
           IN /\ At(s, "complete") /\ y.st = "done" /\ OthersKept(s) /\ ReqsKeptBut(s, r)
              /\ SweepMoves(s, "unmark")
              /\ ReqTurns(s, r, "failed", y.idx, 0, y.data)
<1>1. /\ sw' = [sw EXCEPT ![s] = [sw[s] EXCEPT !.pc = "unmark"]]
      /\ req' = [req EXCEPT ![s] = [req[s] EXCEPT ![r] =
                    [req[s][r] EXCEPT !.st = "failed", !.blk = 0]]]
  BY DEF CompleteError, Moves, TypeReqs
<1>2. OthersKept(s) /\ ReqsKeptBut(s, r) /\ SweepMoves(s, "unmark")
  BY <1>1 DEF TypeSweeps, TypeReqs, SweepType, OthersKept, ReqsKeptBut, SweepMoves,
     SweepTurns
<1>3. req'[s][r] = [req[s][r] EXCEPT !.st = "failed", !.blk = 0] /\ req[s][r] \in ReqType
  BY <1>1 DEF TypeReqs
<1>4. At(s, "complete") /\ req[s][r].st = "done"
  BY DEF CompleteError
<1> QED
  BY <1>2, <1>3, <1>4 DEF ReqType, ReqTurns

(* Tail(): what is held is given up.                                       *)
LEMMA TailEffect ==
    ASSUME TypeSweeps, TypeReqs, NEW s \in Sweeps, Tail(s)
    PROVE  LET x == sw[s]
           IN /\ At(s, "tail") /\ OthersKept(s) /\ ReqsKeptBut(s, x.held)
              /\ SweepTurns(s, "drain", x.index, x.nr, 0, 0, TRUE, x.ctl, x.waking)
              /\ x.held \in Reqs => ReqTurns(s, x.held, "none", 0, 0, NoData)
BY DEF Tail, NoReq, TypeSweeps, TypeReqs, SweepType, OthersKept, ReqsKeptBut,
   SweepTurns, ReqTurns, Reqs

(* Drain(): wait on, or release the control block and the requests.        *)
LEMMA DrainEffect ==
    ASSUME TypeSweeps, TypeReqs, NEW s \in Sweeps, Drain(s)
    PROVE  LET x == sw[s]
           IN /\ At(s, "drain") /\ OthersKept(s)
              /\ \/ req' = req /\ SweepMoves(s, "wait")
                 \/ /\ \A r \in Reqs : req[s][r].st \notin {"flight", "done", "failed"}
                    /\ SweepTurns(s, "off", 0, 0, 0, 0, FALSE, "rcu", x.waking)
                    /\ \A r \in Reqs : req'[s][r] =
                          IF req[s][r].st = "idle" THEN NoReq ELSE req[s][r]
<1>0. At(s, "drain")
  BY DEF Drain
<1>1. CASE ~Drained(s)
  BY <1>1 DEF Drain, Moves, TypeSweeps, SweepType, OthersKept, SweepMoves, SweepTurns
<1>2. CASE Drained(s)
  <2>1. /\ sw' = [sw EXCEPT ![s] = [NoSweep EXCEPT !.ctl = "rcu", !.waking = sw[s].waking]]
        /\ req' = [req EXCEPT ![s] = [r \in Reqs |->
                      IF r \in InState(s, {"idle"}) THEN NoReq ELSE req[s][r]]]
    BY <1>2 DEF Drain, ReleaseWbCtl
  <2>2. \A r \in Reqs : req[s][r].st \notin {"flight", "done", "failed"}
    BY <1>2 DEF Drained, Inflight, InState
  <2>3. OthersKept(s) /\ SweepTurns(s, "off", 0, 0, 0, 0, FALSE, "rcu", sw[s].waking)
    BY <2>1 DEF NoSweep, TypeSweeps, TypeReqs, OthersKept, SweepTurns
  <2>4. \A r \in Reqs : req'[s][r] = IF req[s][r].st = "idle" THEN NoReq ELSE req[s][r]
    BY <2>1 DEF TypeReqs, InState
  <2> QED
    BY <1>0, <2>2, <2>3, <2>4
<1> QED
  BY <1>1, <1>2

(* A sweep that starts: a new control block with idle requests.            *)
Starts(s, m, i, n) ==
           /\ At(s, "off") /\ sw[s].ctl = "none" /\ disksize # 0 /\ backing /\ i < disksize
           /\ (m # "page" => i = 0) /\ OthersKept(s)
           /\ SweepTurns(s, "top", i, SweepBound(m), 0, 0, FALSE, "live", 0)
           /\ \A r \in Reqs : req'[s][r] = IF r <= n THEN IdleReq ELSE NoReq

(* Start() is such a step.                                                 *)
LEMMA StartEffect ==
    ASSUME TypeSweeps, TypeReqs, NEW s \in Sweeps, NEW m \in Modes, NEW i \in Index,
           NEW n \in Reqs, Start(s, m, i, n)
    PROVE  Starts(s, m, i, n)
BY DEF Starts, Start, NoSweep, TypeSweeps, TypeReqs, OthersKept, SweepTurns

-----------------------------------------------------------------------------
(* Who changes what                                                        *)

(* The device's own state: its user opens and closes it, the administrator *)
(* sets it up, resets, removes and adds it.                                *)
LEMMA DeviceSteps ==
    ASSUME [Next]_vars
    PROVE  \/ UNCHANGED device
           \/ Open \/ Close \/ BackingDevStore \/ MetaFree \/ ResetBdev
             \/ RemoveDetach \/ ZramAdd
           \/ \E v \in BatchSizes : BatchSizeStore(v)
           \/ \E v \in BOOLEAN : CompressedStore(v)
           \/ \E n \in 1..MaxPages : DisksizeStore(n)
           \/ \E removing \in BOOLEAN : ResetDevice(removing)
<1>1. ASSUME User
     PROVE \/ UNCHANGED device
           \/ Open \/ Close
  BY <1>1 DEF User, SlotFree, Accessed, BvecRead, ReadSlot, ReadBdev,
      ReadBdevFails,
      Decompress, ReadEnd, Store, device, wear, stats
<1>2. ASSUME Marking
     PROVE UNCHANGED device
  BY <1>2 DEF Marking, MarkIdle, Recompress, device, wear, stats
<1>3. ASSUME Attributes
     PROVE \/ UNCHANGED device
           \/ BackingDevStore \/ MetaFree \/ ResetBdev \/ RemoveDetach
                \/ ZramAdd
           \/ \E v \in BatchSizes : BatchSizeStore(v)
           \/ \E v \in BOOLEAN : CompressedStore(v)
           \/ \E n \in 1..MaxPages : DisksizeStore(n)
           \/ \E removing \in BOOLEAN : ResetDevice(removing)
  <2>1. ASSUME NEW v \in Limits, LimitStore(v) PROVE UNCHANGED device
    BY <2>1 DEF LimitStore, device
  <2>2. ASSUME LimitEnableStore PROVE UNCHANGED device
    BY <2>2 DEF LimitEnableStore, device
  <2>3. ASSUME NEW s \in Sweeps, NEW m \in Modes, NEW i \in Index, NEW n \in Reqs,
               Start(s, m, i, n)
        PROVE  UNCHANGED device
    BY <2>3 DEF Start, device
  <2> QED
    BY <1>3, <2>1, <2>2, <2>3, Zenon DEF Attributes
<1>4. ASSUME NEW s \in Sweeps, SweepStep(s)
     PROVE UNCHANGED device
  BY <1>4 DEF SweepStep, LimitCheck, SelectIdleReq, Reserve, Mark, Read,
      ReadFails, Submit, WaitDone, CompleteNone, Tail, Drain, Complete,
      CompleteError, UnmarkFailed, device, wear, stats, Moves
<1>5. ASSUME NEW s \in Sweeps, Device(s)
     PROVE UNCHANGED device
  BY <1>5 DEF Device, EndioWake, RcuFree, Endio, device, wear, stats
<1>6. CASE UNCHANGED vars
  BY <1>6 DEF vars, device, wear, stats
<1> QED
  BY <1>1, <1>2, <1>3, <1>4, <1>5, <1>6 DEF Next

(* The slots: the user, the idle marks, recompression, set-up and reset,   *)
(* and of a sweep the steps that hold the slot lock.                       *)
LEMMA SlotSteps ==
    ASSUME [Next]_vars
    PROVE  \/ UNCHANGED slot
           \/ \E i \in Index : SlotFree(i) \/ Accessed(i)
           \/ \E i \in Index, v \in Vals, k \in Kinds : Store(i, v, k)
           \/ \E i \in Index, b \in BOOLEAN : MarkIdle(i, b) \/ Recompress(i, b)
           \/ \E n \in 1..MaxPages : DisksizeStore(n)
           \/ MetaFree
           \/ \E s \in Sweeps : Mark(s) \/ ReadFails(s)
           \/ \E s \in Sweeps, r \in Reqs : Complete(s, r) \/ UnmarkFailed(s, r)
<1>1. ASSUME User
     PROVE \/ UNCHANGED slot
           \/ \E i \in Index : SlotFree(i) \/ Accessed(i)
           \/ \E i \in Index, v \in Vals, k \in Kinds : Store(i, v, k)
  BY <1>1 DEF User, Open, Close, BvecRead, ReadSlot, ReadBdev,
      ReadBdevFails,
      Decompress, ReadEnd, device, wear, stats
<1>2. ASSUME Attributes
     PROVE \/ UNCHANGED slot
           \/ \E n \in 1..MaxPages : DisksizeStore(n)
           \/ MetaFree
  BY <1>2 DEF Attributes, LimitStore, LimitEnableStore, BackingDevStore,
      BatchSizeStore, CompressedStore, ResetDevice, ResetBdev,
      RemoveDetach, ZramAdd, Start, device, wear, stats
<1>3. ASSUME NEW s \in Sweeps, SweepStep(s)
     PROVE \/ UNCHANGED slot
           \/ Mark(s) \/ ReadFails(s)
           \/ \E r \in Reqs : Complete(s, r) \/ UnmarkFailed(s, r)
  BY <1>3 DEF SweepStep, LimitCheck, SelectIdleReq, Reserve, Read, Submit,
      WaitDone, CompleteNone, Tail, Drain, CompleteError, device, wear,
      stats, Moves
<1>4. ASSUME NEW s \in Sweeps, Device(s)
     PROVE UNCHANGED slot
  BY <1>4 DEF Device, EndioWake, RcuFree, Endio, device, wear, stats
<1>5. CASE UNCHANGED vars
  BY <1>5 DEF vars, device, wear, stats
<1> QED
  BY <1>1, <1>2, <1>3, <1>4, <1>5 DEF Next, Marking

(* The block bitmap and the blocks.                                        *)
LEMMA BdevSteps ==
    ASSUME [Next]_vars
    PROVE  \/ UNCHANGED <<used, block>>
           \/ \E i \in Index : SlotFree(i)
           \/ \E i \in Index, v \in Vals, k \in Kinds : Store(i, v, k)
           \/ BackingDevStore \/ MetaFree \/ ResetBdev \/ RemoveDetach
           \/ \E s \in Sweeps : Reserve(s) \/ Tail(s)
           \/ \E s \in Sweeps, r \in Reqs : Complete(s, r)
             \/ CompleteError(s, r)
           \/ \E s \in Sweeps, r \in Reqs, err \in BOOLEAN : Endio(s, r, err)
<1>1. ASSUME User
     PROVE \/ UNCHANGED <<used, block>>
           \/ \E i \in Index : SlotFree(i)
           \/ \E i \in Index, v \in Vals, k \in Kinds : Store(i, v, k)
  BY <1>1 DEF User, Open, Close, Accessed, BvecRead, ReadSlot,
      ReadBdev, ReadBdevFails, Decompress, ReadEnd, device, wear, stats
<1>2. ASSUME Marking
     PROVE UNCHANGED <<used, block>>
  BY <1>2 DEF Marking, MarkIdle, Recompress, device, wear, stats
<1>3. ASSUME Attributes
     PROVE \/ UNCHANGED <<used, block>>
           \/ BackingDevStore \/ MetaFree \/ ResetBdev \/ RemoveDetach
  BY <1>3 DEF Attributes, LimitStore, LimitEnableStore, BatchSizeStore,
      CompressedStore, DisksizeStore, ResetDevice, ZramAdd, Start, device,
      wear, stats
<1>4. ASSUME NEW s \in Sweeps, SweepStep(s)
     PROVE \/ UNCHANGED <<used, block>>
           \/ Reserve(s) \/ Tail(s)
           \/ \E r \in Reqs : Complete(s, r) \/ CompleteError(s, r)
  BY <1>4 DEF SweepStep, LimitCheck, SelectIdleReq, Mark, Read, ReadFails,
      Submit, WaitDone, CompleteNone, Drain, UnmarkFailed, device, wear,
      stats, Moves
<1>5. ASSUME NEW s \in Sweeps, Device(s)
     PROVE \/ UNCHANGED <<used, block>>
           \/ \E r \in Reqs, err \in BOOLEAN : Endio(s, r, err)
  BY <1>5 DEF Device, EndioWake, RcuFree, device, wear, stats
<1>6. CASE UNCHANGED vars
  BY <1>6 DEF vars, device, wear, stats
<1> QED
  BY <1>1, <1>2, <1>3, <1>4, <1>5, <1>6 DEF Next

(* The read under way and the history of the stores.                       *)
LEMMA UserSteps ==
    ASSUME [Next]_vars
    PROVE  \/ UNCHANGED <<rd, last>>
           \/ \E i \in Index : BvecRead(i) \/ SlotFree(i)
           \/ ReadSlot \/ ReadBdev \/ ReadBdevFails \/ Decompress \/ ReadEnd \/ MetaFree
           \/ \E i \in Index, v \in Vals, k \in Kinds : Store(i, v, k)
           \/ \E n \in 1..MaxPages : DisksizeStore(n)
<1>1. ASSUME User
     PROVE \/ UNCHANGED <<rd, last>>
           \/ \E i \in Index : SlotFree(i) \/ BvecRead(i)
           \/ ReadSlot \/ ReadBdev \/ ReadBdevFails \/ Decompress \/ ReadEnd
           \/ \E i \in Index, v \in Vals, k \in Kinds : Store(i, v, k)
  BY <1>1 DEF User, Open, Close, Accessed, device, wear, stats
<1>2. ASSUME Marking
     PROVE UNCHANGED <<rd, last>>
  BY <1>2 DEF Marking, MarkIdle, Recompress, device, wear, stats
<1>3. ASSUME Attributes
     PROVE \/ UNCHANGED <<rd, last>>
           \/ \E n \in 1..MaxPages : DisksizeStore(n)
           \/ MetaFree
  BY <1>3 DEF Attributes, LimitStore, LimitEnableStore, BackingDevStore,
      BatchSizeStore, CompressedStore, ResetDevice, ResetBdev,
      RemoveDetach, ZramAdd, Start, device, wear, stats
<1>4. ASSUME NEW s \in Sweeps, SweepStep(s)
     PROVE UNCHANGED <<rd, last>>
  BY <1>4 DEF SweepStep, LimitCheck, SelectIdleReq, Reserve, Mark, Read,
      ReadFails, Submit, WaitDone, CompleteNone, Tail, Drain, Complete,
      CompleteError, UnmarkFailed, device, wear, stats, Moves
<1>5. ASSUME NEW s \in Sweeps, Device(s)
     PROVE UNCHANGED <<rd, last>>
  BY <1>5 DEF Device, EndioWake, RcuFree, Endio, device, wear, stats
<1>6. CASE UNCHANGED vars
  BY <1>6 DEF vars, device, wear, stats
<1> QED
  BY <1>1, <1>2, <1>3, <1>4, <1>5, <1>6 DEF Next

(* The budget and the counters.                                            *)
LEMMA CountSteps ==
    ASSUME [Next]_vars
    PROVE  \/ UNCHANGED <<wear, stats>>
           \/ \E v \in Limits : LimitStore(v)
           \/ LimitEnableStore \/ ZramAdd \/ MetaFree
           \/ \E s \in Sweeps : Submit(s)
           \/ \E s \in Sweeps, r \in Reqs : CompleteError(s, r)
             \/ Complete(s, r)
           \/ \E i \in Index : SlotFree(i)
           \/ \E i \in Index, v \in Vals, k \in Kinds : Store(i, v, k)
           \/ \E i \in Index, b \in BOOLEAN : Recompress(i, b)
<1>1. ASSUME User
     PROVE \/ UNCHANGED <<wear, stats>>
           \/ \E i \in Index : SlotFree(i)
           \/ \E i \in Index, v \in Vals, k \in Kinds : Store(i, v, k)
  BY <1>1 DEF User, Open, Close, Accessed, BvecRead, ReadSlot,
      ReadBdev, ReadBdevFails, Decompress, ReadEnd, device, wear, stats
<1>2. ASSUME Marking
     PROVE \/ UNCHANGED <<wear, stats>>
           \/ \E i \in Index, b \in BOOLEAN : Recompress(i, b)
  BY <1>2 DEF Marking, MarkIdle, device, wear, stats
<1>3. ASSUME Attributes
     PROVE \/ UNCHANGED <<wear, stats>>
           \/ \E v \in Limits : LimitStore(v)
           \/ LimitEnableStore \/ MetaFree \/ ZramAdd
  <2>1. ASSUME BackingDevStore \/ ResetBdev \/ RemoveDetach
        PROVE  UNCHANGED <<wear, stats>>
    BY <2>1 DEF BackingDevStore, ResetBdev, RemoveDetach, device, wear, stats
  <2>2. ASSUME NEW v \in BatchSizes, BatchSizeStore(v) PROVE UNCHANGED <<wear, stats>>
    BY <2>2 DEF BatchSizeStore, device, wear, stats
  <2>3. ASSUME NEW v \in BOOLEAN, CompressedStore(v) PROVE UNCHANGED <<wear, stats>>
    BY <2>3 DEF CompressedStore, device, wear, stats
  <2>4. ASSUME NEW n \in 1..MaxPages, DisksizeStore(n) PROVE UNCHANGED <<wear, stats>>
    BY <2>4 DEF DisksizeStore, device, wear, stats
  <2>5. ASSUME NEW removing \in BOOLEAN, ResetDevice(removing)
        PROVE  UNCHANGED <<wear, stats>>
    BY <2>5 DEF ResetDevice, device, wear, stats
  <2>6. ASSUME NEW s \in Sweeps, NEW m \in Modes, NEW i \in Index, NEW n \in Reqs,
               Start(s, m, i, n)
        PROVE  UNCHANGED <<wear, stats>>
    BY <2>6 DEF Start, device, wear, stats
  <2> QED
    BY <1>3, <2>1, <2>2, <2>3, <2>4, <2>5, <2>6, Zenon DEF Attributes
<1>4. ASSUME NEW s \in Sweeps, SweepStep(s)
     PROVE \/ UNCHANGED <<wear, stats>>
           \/ Submit(s)
           \/ \E r \in Reqs : Complete(s, r) \/ CompleteError(s, r)
  BY <1>4 DEF SweepStep, LimitCheck, SelectIdleReq, Reserve, Mark, Read,
      ReadFails, WaitDone, CompleteNone, Tail, Drain, UnmarkFailed, device,
      wear, stats, Moves
<1>5. ASSUME NEW s \in Sweeps, Device(s)
     PROVE UNCHANGED <<wear, stats>>
  BY <1>5 DEF Device, EndioWake, RcuFree, Endio, device, wear, stats
<1>6. CASE UNCHANGED vars
  BY <1>6 DEF vars, device, wear, stats
<1> QED
  BY <1>1, <1>2, <1>3, <1>4, <1>5, <1>6, Zenon DEF Next

(* The sweeps' records: their own steps, and the steps of their bios.      *)
LEMMA SweepSteps ==
    ASSUME [Next]_vars
    PROVE  \/ UNCHANGED <<sw, req>>
           \/ \E s \in Sweeps, m \in Modes, i \in Index, n \in Reqs : Start(s, m, i, n)
           \/ \E s \in Sweeps : LimitCheck(s) \/ SelectIdleReq(s) \/ Reserve(s)
             \/ Mark(s) \/ Read(s) \/ ReadFails(s) \/ Submit(s)
             \/ WaitDone(s) \/ CompleteNone(s) \/ Tail(s) \/ Drain(s)
             \/ EndioWake(s) \/ RcuFree(s)
           \/ \E s \in Sweeps, r \in Reqs : Complete(s, r)
             \/ CompleteError(s, r) \/ UnmarkFailed(s, r)
           \/ \E s \in Sweeps, r \in Reqs, err \in BOOLEAN : Endio(s, r, err)
<1>1. ASSUME User
     PROVE UNCHANGED <<sw, req>>
  BY <1>1 DEF User, Open, Close, SlotFree, Accessed, BvecRead, ReadSlot,
      ReadBdev, ReadBdevFails, Decompress, ReadEnd, Store, device, wear, stats
<1>2. ASSUME Marking
     PROVE UNCHANGED <<sw, req>>
  BY <1>2 DEF Marking, MarkIdle, Recompress, device, wear, stats
<1>3. ASSUME Attributes
     PROVE \/ UNCHANGED <<sw, req>>
           \/ \E s \in Sweeps, m \in Modes, i \in Index, n \in Reqs : Start(s, m, i, n)
  BY <1>3 DEF Attributes, LimitStore, LimitEnableStore, BackingDevStore,
      BatchSizeStore, CompressedStore, DisksizeStore, ResetDevice,
      MetaFree, ResetBdev, RemoveDetach, ZramAdd, device, wear, stats
<1>4. CASE UNCHANGED vars
  BY <1>4 DEF vars, device, wear, stats
<1> QED
  BY <1>1, <1>2, <1>3, <1>4 DEF Next, SweepStep, Device

-----------------------------------------------------------------------------
(* Types                                                                   *)

TypeDevice ==
    /\ disksize \in 0..MaxPages /\ table \in BOOLEAN /\ backing \in BOOLEAN
    /\ stage \in Stages /\ removed \in BOOLEAN /\ open \in BOOLEAN
    /\ compressed \in BOOLEAN /\ batch \in 1..BatchMax
TypeWear ==
    /\ enable \in BOOLEAN /\ limit \in 0..Wrap - 1 /\ budget \in Nat
    /\ written \in Int
TypeStats == hugePages \in Int /\ pagesStored \in Int
TypeSlots == slot \in [Index -> SlotType]
TypeBdev  == used \subseteq Blocks /\ block \in [Blocks -> Data]
TypeUser  == rd \in ReadType /\ last \in [Index -> Vals \cup {None}]

(* TypeOK, variable by variable.                                           *)
LEMMA TypeParts ==
    TypeOK <=> /\ TypeDevice /\ TypeWear /\ TypeStats /\ TypeSlots /\ TypeBdev
               /\ TypeUser /\ TypeSweeps /\ TypeReqs
BY DEF TypeOK, TypeDevice, TypeWear, TypeStats, TypeSlots, TypeBdev, TypeUser,
   TypeSweeps, TypeReqs

(* What zram_free_page() makes of a slot is a slot.                        *)
LEMMA FreePageType ==
    ASSUME NEW sl \in SlotType
    PROVE  FreeSlot \in SlotType /\ FreePage(sl) \in SlotType
BY DEF FreePage, FreeSlot, SlotType

(* What a store makes of a freed slot is a slot.                           *)
LEMMA StoredType ==
    ASSUME NEW sl \in SlotType, NEW k \in {"comp", "huge", "same"},
           NEW v \in Vals \cup {None}
    PROVE  [sl EXCEPT !.kind = k, !.val = v] \in SlotType
BY DEF SlotType

(* What recompression makes of a slot is a slot.                           *)
LEMMA RecompressedType ==
    ASSUME NEW sl \in SlotType, NEW v \in Vals \cup {None}
    PROVE  [sl EXCEPT !.kind = "comp", !.val = v, !.prio = 1] \in SlotType
BY DEF SlotType

(* A slot marked, or unmarked, is a slot.                                  *)
LEMMA MarkedType ==
    ASSUME NEW sl \in SlotType, NEW b \in BOOLEAN
    PROVE  /\ [sl EXCEPT !.idle = b] \in SlotType
           /\ [sl EXCEPT !.under = b, !.idle = b] \in SlotType
BY DEF SlotType

(* A written-back slot is a slot.                                          *)
LEMMA WrittenType ==
    ASSUME NEW sl \in SlotType, NEW b \in Blocks
    PROVE  [sl EXCEPT !.wb = TRUE, !.blk = b, !.val = None] \in SlotType
BY DEF SlotType

(* A slot of the table replaced by a slot is a table.                      *)
LEMMA SlotPut ==
    ASSUME TypeSlots, NEW i \in Index, NEW x \in SlotType,
           slot' = [slot EXCEPT ![i] = x]
    PROVE  TypeSlots'
BY DEF TypeSlots

(* The fields of a slot.                                                   *)
LEMMA SlotFields ==
    ASSUME TypeSlots, NEW i \in Index
    PROVE  /\ slot[i] \in SlotType
           /\ slot[i].kind \in {"free", "comp", "huge", "same"}
           /\ slot[i].val \in Vals \cup {None} /\ slot[i].prio \in {0, 1}
           /\ slot[i].wb \in BOOLEAN /\ slot[i].blk \in Blocks \cup {0}
           /\ slot[i].idle \in BOOLEAN /\ slot[i].under \in BOOLEAN
BY DEF TypeSlots, SlotType

(* The object of a slot and the page a read makes of it are data; what     *)
(* decompression makes of data is a content or none.                       *)
LEMMA DataTypes ==
    ASSUME NEW sl \in SlotType, NEW d \in Data, NEW e
    PROVE  /\ NoData \in Data /\ RawObject(sl) \in Data /\ PageOf(sl) \in Data
           /\ Decoded(d, e) \in Vals \cup {None}
<1>1. NoData \in Data /\ RawObject(sl) \in Data /\ PageOf(sl) \in Data
  BY DEF SlotType, NoData, RawObject, PageOf, Data, Raw
<1>2. Decoded(d, e) \in Vals \cup {None}
  BY DEF Decoded, Data
<1> QED
  BY <1>1, <1>2

(* The records of no sweep, no request, an idle request and no read.       *)
LEMMA EmptyTypes ==
    /\ NoSweep \in SweepType /\ NoReq \in ReqType /\ IdleReq \in ReqType
    /\ NoRead \in ReadType
<1>1. NoSweep \in SweepType
  BY DEF NoSweep, SweepType
<1>2. NoReq \in ReqType
  BY DEF NoReq, ReqType, NoData, Data, Raw
<1>3. IdleReq \in ReqType
  BY <1>2 DEF IdleReq, ReqType
<1>4. 0 \in Index
  BY ZramAssumption DEF Index
<1>5. NoRead \in ReadType
  BY <1>4 DEF NoRead, ReadType, NoData, Data, Raw
<1> QED
  BY <1>1, <1>2, <1>3, <1>5

(* Where a sweep that holds a slot stands in the table, and which slot and *)
(* block a request on its way is about.                                    *)
LEMMA InTable ==
    ASSUME ControlInv, NEW s \in Sweeps
    PROVE  /\ sw[s].pc \in {"mark", "read", "submit"} =>
                 /\ sw[s].index \in Index /\ sw[s].index < disksize
                 /\ sw[s].held \in Reqs /\ sw[s].blk \in Blocks
           /\ \A r \in Reqs :
                 /\ req[s][r].st \in {"flight", "done", "failed"} =>
                       req[s][r].idx \in Index /\ req[s][r].idx < disksize
                 /\ req[s][r].st \in {"flight", "done"} => req[s][r].blk \in Blocks
<1> USE ZramAssumption
<1>0. TypeDevice /\ TypeReqs /\ TypeSweeps /\ SweepOK(s)
  BY TypeParts DEF ControlInv
<1>1. /\ sw[s].index \in Nat /\ sw[s].nr \in Int /\ sw[s].held \in Reqs \cup {0}
      /\ sw[s].blk \in Blocks \cup {0} /\ disksize \in 0..MaxPages
  BY <1>0 DEF TypeSweeps, SweepType, TypeDevice
<1>2. ASSUME sw[s].pc \in {"mark", "read", "submit"}
      PROVE  /\ sw[s].index \in Index /\ sw[s].index < disksize
             /\ sw[s].held \in Reqs /\ sw[s].blk \in Blocks
  <2>1. sw[s].held # 0 /\ sw[s].blk # 0
    BY <1>0, <1>2 DEF SweepOK, HoldsOK
  <2>2. sw[s].nr > 0 /\ sw[s].index + sw[s].nr <= disksize
    BY <1>0, <1>2 DEF SweepOK, BoundOK
  <2> QED
    BY <1>1, <2>1, <2>2 DEF Index
<1>3. ASSUME NEW r \in Reqs
      PROVE  /\ req[s][r].st \in {"flight", "done", "failed"} =>
                   req[s][r].idx \in Index /\ req[s][r].idx < disksize
             /\ req[s][r].st \in {"flight", "done"} => req[s][r].blk \in Blocks
  <2>1. req[s][r].idx \in Nat /\ req[s][r].blk \in Blocks \cup {0}
    BY <1>0 DEF TypeReqs, ReqType
  <2> QED
    BY <1>0, <1>1, <2>1 DEF SweepOK, ReqOK, Index
<1> QED
  BY <1>2, <1>3

(* The table keeps its type.                                               *)
LEMMA TypeSlotsNext ==
    ASSUME ControlInv, [Next]_vars
    PROVE  TypeSlots'
<1> USE ZramAssumption
<1>0. TypeSlots
  BY TypeParts DEF ControlInv
<1>f. \A i \in Index : slot[i] \in SlotType /\ slot[i].val \in Vals \cup {None}
  BY <1>0, SlotFields
<1>1. ASSUME NEW i \in Index, SlotFree(i) PROVE TypeSlots'
  BY <1>0, <1>1, <1>f, FreePageType, SlotPut DEF SlotFree
<1>2. ASSUME NEW i \in Index, Accessed(i) PROVE TypeSlots'
  <2>1. slot' = [slot EXCEPT ![i] = [slot[i] EXCEPT !.idle = FALSE]]
    BY <1>2 DEF Accessed
  <2> QED
    BY <1>0, <1>f, <2>1, MarkedType, SlotPut
<1>3. ASSUME NEW i \in Index, NEW v \in Vals, NEW k \in Kinds, Store(i, v, k)
      PROVE  TypeSlots'
  <2>1. [FreePage(slot[i]) EXCEPT !.kind = k, !.val = v] \in SlotType
    BY <1>f, FreePageType, StoredType
  <2> QED
    BY <1>0, <1>3, <2>1, SlotPut DEF Store
<1>4. ASSUME NEW i \in Index, NEW b \in BOOLEAN, MarkIdle(i, b) PROVE TypeSlots'
  <2>1. slot' = [slot EXCEPT ![i] = [slot[i] EXCEPT !.idle = b]]
    BY <1>4 DEF MarkIdle
  <2> QED
    BY <1>0, <1>f, <2>1, MarkedType, SlotPut
<1>5. ASSUME NEW i \in Index, NEW b \in BOOLEAN, Recompress(i, b) PROVE TypeSlots'
  <2>1. [FreePage(slot[i]) EXCEPT !.kind = "comp", !.val = slot[i].val, !.prio = 1]
           \in SlotType
    BY <1>f, FreePageType, RecompressedType
  <2>2. [slot[i] EXCEPT !.idle = FALSE] \in SlotType
    BY <1>f, MarkedType
  <2> QED
    BY <1>0, <1>5, <2>1, <2>2, SlotPut DEF Recompress
<1>6. ASSUME slot' = [i \in Index |-> FreeSlot] PROVE TypeSlots'
  <2>1. FreeSlot \in SlotType
    BY DEF FreeSlot, SlotType
  <2> QED
    BY <1>6, <2>1 DEF TypeSlots
<1>7. ASSUME NEW s \in Sweeps, Mark(s) PROVE TypeSlots'
  <2>1. sw[s].index \in Index
    BY <1>7, InTable DEF Mark, At
  <2>2. [slot[sw[s].index] EXCEPT !.under = TRUE, !.idle = TRUE] \in SlotType
    BY <1>f, <2>1, MarkedType
  <2>3. \/ slot' = slot
        \/ slot' = [slot EXCEPT ![sw[s].index] =
                       [slot[sw[s].index] EXCEPT !.under = TRUE, !.idle = TRUE]]
    BY <1>7 DEF Mark
  <2> QED
    BY <1>0, <2>1, <2>2, <2>3, SlotPut DEF TypeSlots
<1>8. ASSUME NEW i \in Index PROVE Unmarked(slot[i]) \in SlotType
  BY <1>f, MarkedType DEF Unmarked
<1>9. ASSUME NEW s \in Sweeps, ReadFails(s) PROVE TypeSlots'
  <2>1. sw[s].index \in Index
    BY <1>9, InTable DEF ReadFails, At
  <2>2. slot' = [slot EXCEPT ![sw[s].index] = Unmarked(slot[sw[s].index])]
    BY <1>9 DEF ReadFails
  <2> QED
    BY <1>0, <1>8, <2>1, <2>2, SlotPut
<1>10. ASSUME NEW s \in Sweeps, NEW r \in Reqs, UnmarkFailed(s, r) PROVE TypeSlots'
  <2>1. req[s][r].idx \in Index
    BY <1>10, InTable DEF UnmarkFailed
  <2>2. slot' = [slot EXCEPT ![req[s][r].idx] = Unmarked(slot[req[s][r].idx])]
    BY <1>10 DEF UnmarkFailed
  <2> QED
    BY <1>0, <1>8, <2>1, <2>2, SlotPut
<1>11. ASSUME NEW s \in Sweeps, NEW r \in Reqs, Complete(s, r) PROVE TypeSlots'
  <2> DEFINE i == req[s][r].idx
  <2>1. i \in Index /\ req[s][r].blk \in Blocks
    BY <1>11, InTable DEF Complete
  <2>2. [Unmarked(slot[i]) EXCEPT !.wb = TRUE, !.blk = req[s][r].blk, !.val = None]
           \in SlotType
    BY <1>8, <2>1, WrittenType
  <2>3. \/ slot' = [slot EXCEPT ![i] = Unmarked(slot[i])]
        \/ slot' = [slot EXCEPT ![i] = [Unmarked(slot[i]) EXCEPT !.wb = TRUE,
                                           !.blk = req[s][r].blk, !.val = None]]
    BY <1>11 DEF Complete
  <2> QED
    BY <1>0, <1>8, <2>1, <2>2, <2>3, SlotPut
<1>12. CASE UNCHANGED slot
  BY <1>0, <1>12 DEF TypeSlots
<1> QED
  BY <1>1, <1>2, <1>3, <1>4, <1>5, <1>6, <1>7, <1>9, <1>10, <1>11, <1>12, SlotSteps
     DEF DisksizeStore, MetaFree

PCs == {"off", "top", "select", "reserve", "mark", "read", "submit", "wait",
        "asleep", "complete", "unmark", "tail", "drain"}

(* What the steps of a sweep make of its record is a record of a sweep.    *)
LEMMA SweepPc ==
    ASSUME NEW x \in SweepType, NEW p \in PCs
    PROVE  [x EXCEPT !.pc = p] \in SweepType
BY DEF SweepType, PCs

(* A sweep that takes a request or a block, or gives it up, is a sweep.    *)
LEMMA SweepHolds ==
    ASSUME NEW x \in SweepType, NEW p \in PCs, NEW h \in Reqs \cup {0},
           NEW b \in Blocks \cup {0}
    PROVE  /\ [x EXCEPT !.pc = p, !.held = h] \in SweepType
           /\ [x EXCEPT !.pc = p, !.blk = b] \in SweepType
           /\ [x EXCEPT !.held = h, !.blk = b] \in SweepType
           /\ [x EXCEPT !.pc = p, !.end = TRUE, !.held = h, !.blk = b] \in SweepType
<1>1. [x EXCEPT !.pc = p, !.held = h] \in SweepType
  BY DEF SweepType, PCs
<1>2. [x EXCEPT !.pc = p, !.blk = b] \in SweepType
  BY DEF SweepType, PCs
<1>3. [x EXCEPT !.held = h, !.blk = b] \in SweepType
  BY DEF SweepType, PCs
<1>4. [x EXCEPT !.pc = p, !.end = TRUE, !.held = h, !.blk = b] \in SweepType
  BY DEF SweepType, PCs
<1> QED
  BY <1>1, <1>2, <1>3, <1>4

(* A sweep that goes on to the next slot is a sweep.                       *)
LEMMA SweepGoesOn ==
    ASSUME NEW x \in SweepType
    PROVE  NextIndex(x) \in SweepType
<1>1. x.index + 1 \in Nat /\ x.nr - 1 \in Int
  BY DEF SweepType
<1>2. ASSUME NEW n \in Nat, NEW m \in Int
      PROVE  [x EXCEPT !.pc = "top", !.index = n, !.nr = m] \in SweepType
  BY DEF SweepType
<1> QED
  BY <1>1, <1>2 DEF NextIndex

(* A sweep that is woken, or whose control block ends, is a sweep.         *)
LEMMA SweepWakes ==
    ASSUME NEW x \in SweepType, NEW n \in Nat, NEW p \in PCs, NEW c \in {"none", "live", "rcu"}
    PROVE  /\ [x EXCEPT !.waking = n] \in SweepType
           /\ [x EXCEPT !.waking = n, !.pc = p] \in SweepType
           /\ [x EXCEPT !.ctl = c] \in SweepType
           /\ [x EXCEPT !.ctl = c, !.waking = n] \in SweepType
<1>1. /\ [x EXCEPT !.waking = n] \in SweepType
      /\ [x EXCEPT !.waking = n, !.pc = p] \in SweepType
  BY DEF SweepType, PCs
<1>2. /\ [x EXCEPT !.ctl = c] \in SweepType
      /\ [x EXCEPT !.ctl = c, !.waking = n] \in SweepType
  BY DEF SweepType
<1> QED
  BY <1>1, <1>2

(* A sweep that starts is a sweep.                                         *)
LEMMA SweepStarts ==
    ASSUME NEW x \in SweepType, NEW m \in {"idle", "huge", "page"}, NEW i \in Nat,
           NEW n \in Int
    PROVE  [x EXCEPT !.pc = "top", !.mode = m, !.index = i, !.nr = n, !.ctl = "live"]
              \in SweepType
BY DEF SweepType

(* The fields of a sweep.                                                  *)
LEMMA SweepFields ==
    ASSUME TypeSweeps, NEW s \in Sweeps
    PROVE  /\ sw[s] \in SweepType /\ sw[s].pc \in PCs
           /\ sw[s].mode \in {"idle", "huge", "page"}
           /\ sw[s].index \in Nat /\ sw[s].nr \in Int /\ sw[s].held \in Reqs \cup {0}
           /\ sw[s].blk \in Blocks \cup {0} /\ sw[s].end \in BOOLEAN
           /\ sw[s].ctl \in {"none", "live", "rcu"} /\ sw[s].waking \in Nat
BY DEF TypeSweeps, SweepType, PCs

(* The record of a sweep replaced by a record.                             *)
LEMMA SweepPut ==
    ASSUME TypeSweeps, NEW s \in Sweeps, NEW x \in SweepType,
           sw' = [sw EXCEPT ![s] = x]
    PROVE  TypeSweeps'
BY DEF TypeSweeps

(* The sweeps' records keep their type.                                    *)
LEMMA TypeSweepsNext ==
    ASSUME ControlInv, [Next]_vars
    PROVE  TypeSweeps'
<1> USE ZramAssumption
<1>0. TypeSweeps /\ TypeDevice /\ TypeBdev
  BY TypeParts DEF ControlInv
<1>f. \A s \in Sweeps : sw[s] \in SweepType
  BY <1>0, SweepFields
<1>m. ASSUME NEW s \in Sweeps, NEW p \in PCs, Moves(s, p) PROVE TypeSweeps'
  <2>1. sw' = [sw EXCEPT ![s] = [sw[s] EXCEPT !.pc = p]]
    BY <1>m DEF Moves
  <2> QED
    BY <1>0, <1>f, <2>1, SweepPc, SweepPut
<1>1. ASSUME NEW s \in Sweeps, NEW m \in Modes, NEW i \in Index, NEW n \in Reqs,
             Start(s, m, i, n)
      PROVE  TypeSweeps'
  <2>1. SweepBound(m) \in Int /\ i \in Nat
    BY <1>0 DEF SweepBound, TypeDevice, Index
  <2>2. [NoSweep EXCEPT !.pc = "top", !.mode = m, !.index = i, !.nr = SweepBound(m),
            !.ctl = "live"] \in SweepType
    BY <2>1, EmptyTypes, SweepStarts
  <2> QED
    BY <1>0, <1>1, <2>2, SweepPut DEF Start
<1>2. ASSUME NEW s \in Sweeps, LimitCheck(s) PROVE TypeSweeps'
  BY <1>2, <1>m DEF LimitCheck, PCs
<1>3. ASSUME NEW s \in Sweeps, SelectIdleReq(s) PROVE TypeSweeps'
  <2>1. CASE InState(s, {"idle"}) = {}
    BY <1>3, <1>m, <2>1 DEF SelectIdleReq, PCs
  <2>2. CASE InState(s, {"idle"}) # {}
    <3> DEFINE r == Smallest(InState(s, {"idle"}))
    <3>1. InState(s, {"idle"}) \in SUBSET Reqs
      BY DEF InState
    <3>2. r \in Reqs
      BY <2>2, <3>1, SmallestReq
    <3>3. sw' = [sw EXCEPT ![s] = [sw[s] EXCEPT !.pc = "reserve", !.held = r]]
      BY <1>3, <2>2 DEF SelectIdleReq
    <3>4. "reserve" \in PCs
      BY DEF PCs
    <3> HIDE DEF r
    <3>5. [sw[s] EXCEPT !.pc = "reserve", !.held = r] \in SweepType
      BY <1>f, <3>2, <3>4, SweepHolds
    <3> QED
      BY <1>0, <3>3, <3>5, SweepPut
  <2> QED
    BY <2>1, <2>2
<1>4. ASSUME NEW s \in Sweeps, Reserve(s) PROVE TypeSweeps'
  <2>1. CASE sw[s].blk = 0 /\ used # Blocks
    <3> DEFINE b == Smallest(Blocks \ used)
    <3>1. b \in Blocks
      BY <1>0, <2>1, SmallestBlock DEF TypeBdev
    <3>2. sw' = [sw EXCEPT ![s] = [sw[s] EXCEPT !.pc = "mark", !.blk = b]]
      BY <1>4, <2>1 DEF Reserve
    <3>3. "mark" \in PCs
      BY DEF PCs
    <3> HIDE DEF b
    <3>4. [sw[s] EXCEPT !.pc = "mark", !.blk = b] \in SweepType
      BY <1>f, <3>1, <3>3, SweepHolds
    <3> QED
      BY <1>0, <3>2, <3>4, SweepPut
  <2>2. CASE ~(sw[s].blk = 0 /\ used # Blocks)
    <3>1. Moves(s, "mark") \/ Moves(s, "tail")
      BY <1>4, <2>2 DEF Reserve
    <3> QED
      BY <1>m, <3>1 DEF PCs
  <2> QED
    BY <2>1, <2>2
<1>5. ASSUME NEW s \in Sweeps, Mark(s) PROVE TypeSweeps'
  <2>1. NextIndex(sw[s]) \in SweepType
    BY <1>f, SweepGoesOn
  <2>2. sw' = [sw EXCEPT ![s] = NextIndex(sw[s])] \/ Moves(s, "read") \/ Moves(s, "submit")
    BY <1>5 DEF Mark
  <2> QED
    BY <1>0, <1>m, <2>1, <2>2, SweepPut DEF PCs
<1>6. ASSUME NEW s \in Sweeps, Read(s) PROVE TypeSweeps'
  BY <1>6, <1>m DEF Read, PCs
<1>7. ASSUME NEW s \in Sweeps, ReadFails(s) PROVE TypeSweeps'
  <2>1. NextIndex(sw[s]) \in SweepType
    BY <1>f, SweepGoesOn
  <2>2. sw' = [sw EXCEPT ![s] = NextIndex(sw[s])]
    BY <1>7 DEF ReadFails
  <2> QED
    BY <1>0, <2>1, <2>2, SweepPut
<1>8. ASSUME NEW s \in Sweeps, Submit(s) PROVE TypeSweeps'
  <2>1. NextIndex(sw[s]) \in SweepType
    BY <1>f, SweepGoesOn
  <2>2. [NextIndex(sw[s]) EXCEPT !.held = 0, !.blk = 0] \in SweepType
    BY <2>1, SweepHolds DEF PCs
  <2>3. sw' = [sw EXCEPT ![s] = [NextIndex(sw[s]) EXCEPT !.held = 0, !.blk = 0]]
    BY <1>8 DEF Submit
  <2> QED
    BY <1>0, <2>2, <2>3, SweepPut
<1>9. ASSUME NEW s \in Sweeps, WaitDone(s) \/ CompleteNone(s) PROVE TypeSweeps'
  BY <1>9, <1>m DEF WaitDone, CompleteNone, PCs
<1>10. ASSUME NEW s \in Sweeps, Tail(s) PROVE TypeSweeps'
  <2>1. "drain" \in PCs
    BY DEF PCs
  <2>2. [sw[s] EXCEPT !.pc = "drain", !.end = TRUE, !.held = 0, !.blk = 0] \in SweepType
    BY <1>f, <2>1, SweepHolds
  <2>3. sw' = [sw EXCEPT ![s] =
                 [sw[s] EXCEPT !.pc = "drain", !.end = TRUE, !.held = 0, !.blk = 0]]
    BY <1>10 DEF Tail
  <2> QED
    BY <1>0, <2>2, <2>3, SweepPut
<1>11. ASSUME NEW s \in Sweeps, Drain(s) PROVE TypeSweeps'
  <2>1. [NoSweep EXCEPT !.ctl = "rcu", !.waking = sw[s].waking] \in SweepType
    BY <1>0, SweepFields, EmptyTypes, SweepWakes DEF PCs
  <2>2. \/ sw' = [sw EXCEPT ![s] = [NoSweep EXCEPT !.ctl = "rcu", !.waking = sw[s].waking]]
        \/ Moves(s, "wait")
    BY <1>11 DEF Drain, ReleaseWbCtl
  <2> QED
    BY <1>0, <1>m, <2>1, <2>2, SweepPut DEF PCs
<1>12. ASSUME NEW s \in Sweeps, NEW r \in Reqs, Complete(s, r) PROVE TypeSweeps'
  BY <1>0, <1>12 DEF Complete, TypeSweeps
<1>13. ASSUME NEW s \in Sweeps, NEW r \in Reqs, CompleteError(s, r) \/ UnmarkFailed(s, r)
       PROVE  TypeSweeps'
  BY <1>13, <1>m DEF CompleteError, UnmarkFailed, PCs
<1>14. ASSUME NEW s \in Sweeps, EndioWake(s) PROVE TypeSweeps'
  <2>1. WokenBy(sw[s].pc) \in PCs /\ sw[s].waking - 1 \in Nat
    BY <1>0, <1>14, SweepFields DEF EndioWake, WokenBy, PCs
  <2>2. [sw[s] EXCEPT !.waking = sw[s].waking - 1, !.pc = WokenBy(sw[s].pc)] \in SweepType
    BY <1>f, <2>1, SweepWakes
  <2>3. sw' = [sw EXCEPT ![s] =
                 [sw[s] EXCEPT !.waking = sw[s].waking - 1, !.pc = WokenBy(sw[s].pc)]]
    BY <1>14 DEF EndioWake
  <2> QED
    BY <1>0, <2>2, <2>3, SweepPut
<1>15. ASSUME NEW s \in Sweeps, RcuFree(s) PROVE TypeSweeps'
  <2>1. [sw[s] EXCEPT !.ctl = "none"] \in SweepType
    BY <1>f, SweepWakes DEF PCs
  <2>2. sw' = [sw EXCEPT ![s] = [sw[s] EXCEPT !.ctl = "none"]]
    BY <1>15 DEF RcuFree
  <2> QED
    BY <1>0, <2>1, <2>2, SweepPut
<1>16. ASSUME NEW s \in Sweeps, NEW r \in Reqs, NEW err \in BOOLEAN, Endio(s, r, err)
       PROVE  TypeSweeps'
  <2>1. sw[s].waking + 1 \in Nat
    BY <1>0, SweepFields
  <2>2. [sw[s] EXCEPT !.waking = sw[s].waking + 1] \in SweepType
    BY <1>f, <2>1, SweepWakes DEF PCs
  <2>3. sw' = [sw EXCEPT ![s] = [sw[s] EXCEPT !.waking = sw[s].waking + 1]]
    BY <1>16 DEF Endio
  <2> QED
    BY <1>0, <2>2, <2>3, SweepPut
<1>17. CASE UNCHANGED <<sw, req>>
  BY <1>0, <1>17 DEF TypeSweeps
<1> QED
  BY <1>1, <1>2, <1>3, <1>4, <1>5, <1>6, <1>7, <1>8, <1>9, <1>10, <1>11, <1>12,
     <1>13, <1>14, <1>15, <1>16, <1>17, SweepSteps

(* What the steps of a sweep and its bios make of a request is a request.  *)
LEMMA ReqTypes ==
    ASSUME NEW x \in ReqType, NEW st \in {"held", "flight", "done", "failed"},
           NEW i \in Nat, NEW b \in Blocks \cup {0}, NEW err \in BOOLEAN
    PROVE  /\ [x EXCEPT !.st = st] \in ReqType
           /\ [x EXCEPT !.st = st, !.err = err] \in ReqType
           /\ [x EXCEPT !.st = st, !.blk = b] \in ReqType
           /\ [x EXCEPT !.st = st, !.idx = i, !.blk = b] \in ReqType
<1>1. [x EXCEPT !.st = st] \in ReqType /\ [x EXCEPT !.st = st, !.err = err] \in ReqType
  BY DEF ReqType
<1>2. /\ [x EXCEPT !.st = st, !.blk = b] \in ReqType
      /\ [x EXCEPT !.st = st, !.idx = i, !.blk = b] \in ReqType
  BY DEF ReqType
<1> QED
  BY <1>1, <1>2

(* A request whose buffer is filled is a request.                          *)
LEMMA ReqFilled ==
    ASSUME NEW x \in ReqType, NEW d \in Data
    PROVE  [x EXCEPT !.data = d] \in ReqType
BY DEF ReqType

(* The fields of a request.                                                *)
LEMMA ReqFields ==
    ASSUME TypeReqs, NEW s \in Sweeps, NEW r \in Reqs
    PROVE  /\ req[s][r] \in ReqType
           /\ req[s][r].st \in {"none", "idle", "held", "flight", "done", "failed"}
           /\ req[s][r].idx \in Nat /\ req[s][r].blk \in Blocks \cup {0}
           /\ req[s][r].data \in Data /\ req[s][r].err \in BOOLEAN
BY DEF TypeReqs, ReqType

(* One request, or all requests of a sweep, replaced by requests.          *)
LEMMA ReqPut ==
    ASSUME TypeReqs, NEW s \in Sweeps, NEW r \in Reqs, NEW x \in ReqType,
           req' = [req EXCEPT ![s] = [req[s] EXCEPT ![r] = x]]
    PROVE  TypeReqs'
BY DEF TypeReqs

(* All requests of a sweep replaced by requests are requests.              *)
LEMMA ReqsPut ==
    ASSUME TypeReqs, NEW s \in Sweeps, NEW f \in [Reqs -> ReqType],
           req' = [req EXCEPT ![s] = f]
    PROVE  TypeReqs'
BY DEF TypeReqs

(* A request whose bio has ended is a request.                             *)
LEMMA ReqEnds ==
    ASSUME NEW x \in ReqType, NEW e \in BOOLEAN
    PROVE  /\ [x EXCEPT !.st = "failed", !.blk = 0] \in ReqType
           /\ [x EXCEPT !.st = "done", !.err = e] \in ReqType
<1>1. [x EXCEPT !.st = "failed", !.blk = 0] \in ReqType
  BY DEF ReqType
<1>2. [x EXCEPT !.st = "done", !.err = e] \in ReqType
  BY DEF ReqType
<1> QED
  BY <1>1, <1>2

(* The requests keep their type.                                           *)
LEMMA TypeReqsNext ==
    ASSUME ControlInv, [Next]_vars
    PROVE  TypeReqs'
<1> USE ZramAssumption
<1>0. TypeSweeps /\ TypeReqs /\ TypeSlots
  BY TypeParts DEF ControlInv
<1>f. \A s \in Sweeps, r \in Reqs : req[s][r] \in ReqType
  BY <1>0, ReqFields
<1>u. ASSUME UNCHANGED req PROVE TypeReqs'
  BY <1>0, <1>u DEF TypeReqs
<1>1. ASSUME NEW s \in Sweeps, NEW m \in Modes, NEW i \in Index, NEW n \in Reqs,
             Start(s, m, i, n)
      PROVE  TypeReqs'
  <2>1. [r \in Reqs |-> IF r <= n THEN IdleReq ELSE NoReq] \in [Reqs -> ReqType]
    BY EmptyTypes
  <2> QED
    BY <1>0, <1>1, <2>1, ReqsPut DEF Start
<1>2. ASSUME NEW s \in Sweeps, SelectIdleReq(s) PROVE TypeReqs'
  <2>1. CASE InState(s, {"idle"}) = {}
    BY <1>2, <1>u, <2>1 DEF SelectIdleReq
  <2>2. CASE InState(s, {"idle"}) # {}
    <3> DEFINE r == Smallest(InState(s, {"idle"}))
    <3>1. InState(s, {"idle"}) \in SUBSET Reqs
      BY DEF InState
    <3>2. r \in Reqs
      BY <2>2, <3>1, SmallestReq
    <3>3. req' = [req EXCEPT ![s] = [req[s] EXCEPT ![r] = [req[s][r] EXCEPT !.st = "held"]]]
      BY <1>2, <2>2 DEF SelectIdleReq
    <3> HIDE DEF r
    <3>4. [req[s][r] EXCEPT !.st = "held"] \in ReqType
      BY <1>f, <3>2 DEF ReqType
    <3> QED
      BY <1>0, <3>2, <3>3, <3>4, ReqPut
  <2> QED
    BY <2>1, <2>2
<1>3. ASSUME NEW s \in Sweeps, Mark(s) \/ Read(s) PROVE TypeReqs'
  <2> DEFINE x == req[s][sw[s].held]
             sl == slot[sw[s].index]
  <2>1. sw[s].held \in Reqs /\ sw[s].index \in Index
    BY <1>3, InTable DEF Mark, Read, At
  <2>2. PICK d \in Data : \/ req' = req
                          \/ req' = [req EXCEPT ![s] = [req[s] EXCEPT ![sw[s].held] =
                                                          [x EXCEPT !.data = d]]]
    <3>1. sl \in SlotType
      BY <1>0, <2>1, SlotFields
    <3>2. RawObject(sl) \in Data /\ PageOf(sl) \in Data
      BY <3>1 DEF SlotType, RawObject, PageOf, Data, Raw
    <3>3. \/ req' = req
          \/ req' = [req EXCEPT ![s] = [req[s] EXCEPT ![sw[s].held] =
                                          [x EXCEPT !.data = RawObject(sl)]]]
          \/ req' = [req EXCEPT ![s] = [req[s] EXCEPT ![sw[s].held] =
                                          [x EXCEPT !.data = PageOf(sl)]]]
      BY <1>3 DEF Mark, Read
    <3> HIDE DEF x, sl
    <3> QED
      BY <3>2, <3>3
  <2>3. [x EXCEPT !.data = d] \in ReqType
    BY <1>f, <2>1, ReqFilled
  <2> QED
    BY <1>0, <1>u, <2>1, <2>2, <2>3, ReqPut
<1>4. ASSUME NEW s \in Sweeps, Submit(s) PROVE TypeReqs'
  <2> DEFINE x == req[s][sw[s].held]
  <2>1. sw[s].held \in Reqs /\ sw[s].index \in Nat /\ sw[s].blk \in Blocks \cup {0}
    BY <1>0, <1>4, InTable, SweepFields DEF Submit, At
  <2>2. [x EXCEPT !.st = "flight", !.idx = sw[s].index, !.blk = sw[s].blk] \in ReqType
    <3>1. x \in ReqType
      BY <1>f, <2>1
    <3> QED
      BY <2>1, <3>1, ReqTypes
  <2>3. req' = [req EXCEPT ![s] = [req[s] EXCEPT ![sw[s].held] =
                  [x EXCEPT !.st = "flight", !.idx = sw[s].index, !.blk = sw[s].blk]]]
    BY <1>4 DEF Submit
  <2> QED
    BY <1>0, <2>1, <2>2, <2>3, ReqPut
<1>5. ASSUME NEW s \in Sweeps, Tail(s) PROVE TypeReqs'
  <2>1. sw[s].held \in Reqs \cup {0}
    BY <1>0, SweepFields
  <2>2. \/ req' = req
        \/ /\ sw[s].held # 0
           /\ req' = [req EXCEPT ![s] = [req[s] EXCEPT ![sw[s].held] = NoReq]]
    BY <1>5 DEF Tail
  <2> QED
    BY <1>0, <1>u, <2>1, <2>2, EmptyTypes, ReqPut
<1>6. ASSUME NEW s \in Sweeps, Drain(s) PROVE TypeReqs'
  <2>1. [r \in Reqs |-> IF r \in InState(s, {"idle"}) THEN NoReq ELSE req[s][r]]
           \in [Reqs -> ReqType]
    BY <1>f, EmptyTypes
  <2>2. \/ req' = req
        \/ req' = [req EXCEPT ![s] = [r \in Reqs |->
                     IF r \in InState(s, {"idle"}) THEN NoReq ELSE req[s][r]]]
    BY <1>6 DEF Drain
  <2> QED
    BY <1>0, <1>u, <2>1, <2>2, ReqsPut
<1>7. ASSUME NEW s \in Sweeps, NEW r \in Reqs, Complete(s, r) \/ UnmarkFailed(s, r)
      PROVE  TypeReqs'
  <2>1. req' = [req EXCEPT ![s] = [req[s] EXCEPT ![r] = IdleReq]]
    BY <1>7 DEF Complete, UnmarkFailed, Recycled
  <2> QED
    BY <1>0, <2>1, EmptyTypes, ReqPut
<1>8. ASSUME NEW s \in Sweeps, NEW r \in Reqs, CompleteError(s, r) PROVE TypeReqs'
  <2>1. [req[s][r] EXCEPT !.st = "failed", !.blk = 0] \in ReqType
    BY <1>f, ReqEnds, Zenon
  <2>2. req' = [req EXCEPT ![s] = [req[s] EXCEPT ![r] =
                  [req[s][r] EXCEPT !.st = "failed", !.blk = 0]]]
    BY <1>0, <1>8 DEF CompleteError, TypeReqs
  <2> QED
    BY <1>0, <2>1, <2>2, ReqPut
<1>9. ASSUME NEW s \in Sweeps, NEW r \in Reqs, NEW err \in BOOLEAN, Endio(s, r, err)
      PROVE  TypeReqs'
  <2>1. [req[s][r] EXCEPT !.st = "done", !.err = err] \in ReqType
    BY <1>f, ReqEnds, Zenon
  <2>2. req' = [req EXCEPT ![s] = [req[s] EXCEPT ![r] =
                  [req[s][r] EXCEPT !.st = "done", !.err = err]]]
    BY <1>0, <1>9 DEF Endio, TypeReqs
  <2> QED
    BY <1>0, <2>1, <2>2, ReqPut
<1>10. ASSUME NEW s \in Sweeps,
              \/ LimitCheck(s) \/ Reserve(s) \/ ReadFails(s) \/ WaitDone(s)
              \/ CompleteNone(s) \/ EndioWake(s) \/ RcuFree(s)
       PROVE  TypeReqs'
  BY <1>10, <1>u DEF LimitCheck, Reserve, ReadFails, WaitDone, CompleteNone,
     EndioWake, RcuFree
<1> QED
  BY <1>u, <1>1, <1>2, <1>3, <1>4, <1>5, <1>6, <1>7, <1>8, <1>9, <1>10, SweepSteps

(* The device's own state, the budget and the counters keep their types.   *)
LEMMA TypeDeviceNext ==
    ASSUME ControlInv, [Next]_vars
    PROVE  TypeDevice'
<1> USE ZramAssumption
<1>0. TypeDevice
  BY TypeParts DEF ControlInv
<1>1. ASSUME Open \/ Close PROVE TypeDevice'
  BY <1>0, <1>1 DEF Open, Close, TypeDevice
<1>2. CASE BackingDevStore
  BY <1>0, <1>2 DEF BackingDevStore, TypeDevice
<1>3. ASSUME NEW v \in BatchSizes, BatchSizeStore(v) PROVE TypeDevice'
  <2>1. Clamp(v) \in 1..BatchMax
    BY <1>3 DEF BatchSizeStore, Clamp
  <2> QED
    BY <1>0, <1>3, <2>1 DEF BatchSizeStore, TypeDevice
<1>4. ASSUME NEW v \in BOOLEAN, CompressedStore(v) PROVE TypeDevice'
  BY <1>0, <1>4 DEF CompressedStore, TypeDevice
<1>5. ASSUME NEW n \in 1..MaxPages, DisksizeStore(n) PROVE TypeDevice'
  BY <1>0, <1>5 DEF DisksizeStore, TypeDevice
<1>6. ASSUME NEW removing \in BOOLEAN, ResetDevice(removing) PROVE TypeDevice'
  <2>1. disksize' = 0
    BY <1>6 DEF ResetDevice
  <2>4. 0 \in 0..MaxPages
    OBVIOUS
  <2>2. stage' \in Stages
    BY <1>6 DEF ResetDevice, Stages
  <2>3. UNCHANGED <<table, backing, removed, open, compressed, batch>>
    BY <1>6 DEF ResetDevice
  <2> QED
    BY <1>0, <2>1, <2>2, <2>3, <2>4, Zenon DEF TypeDevice
<1>7. ASSUME MetaFree \/ ResetBdev PROVE TypeDevice'
  BY <1>0, <1>7 DEF MetaFree, ResetBdev, TypeDevice, Stages
<1>8. CASE RemoveDetach
  BY <1>0, <1>8 DEF RemoveDetach, BackingAfterRemove, TypeDevice, Stages
<1>9. CASE ZramAdd
  <2>1. /\ removed' = FALSE /\ compressed' = FALSE /\ batch' = BatchMax
        /\ UNCHANGED <<disksize, table, backing, stage, open>>
    BY <1>9 DEF ZramAdd
  <2>2. batch' \in 1..BatchMax
    BY <2>1
  <2> QED
    BY <1>0, <2>1, <2>2, Zenon DEF TypeDevice
<1>10. CASE UNCHANGED device
  BY <1>0, <1>10 DEF device, TypeDevice
<1> QED
  BY <1>1, <1>2, <1>3, <1>4, <1>5, <1>6, <1>7, <1>8, <1>9, <1>10, DeviceSteps

(* The counters keep their types.                                          *)
LEMMA TypeCountsNext ==
    ASSUME ControlInv, [Next]_vars
    PROVE  TypeWear' /\ TypeStats'
<1> USE ZramAssumption
<1>0. TypeWear /\ TypeStats
  BY TypeParts DEF ControlInv
<1>1. ASSUME NEW i \in Index, SlotFree(i) PROVE TypeWear' /\ TypeStats'
  BY <1>0, <1>1 DEF SlotFree, HugeDrop, If1, wear, TypeWear, TypeStats
<1>2. ASSUME NEW i \in Index, NEW v \in Vals, NEW k \in Kinds, Store(i, v, k)
      PROVE  TypeWear' /\ TypeStats'
  BY <1>0, <1>2 DEF Store, HugeDrop, If1, wear, TypeWear, TypeStats
<1>3. ASSUME NEW i \in Index, NEW b \in BOOLEAN, Recompress(i, b)
      PROVE  TypeWear' /\ TypeStats'
  BY <1>0, <1>3 DEF Recompress, HugeDrop, If1, wear, TypeWear, TypeStats
<1>4. CASE MetaFree
  <2>1. hugePages' = 0 /\ pagesStored' = 0 /\ UNCHANGED <<enable, limit, budget, written>>
    BY <1>4 DEF MetaFree, wear
  <2> QED
    BY <1>0, <2>1 DEF TypeWear, TypeStats
<1>5. ASSUME NEW s \in Sweeps, NEW r \in Reqs, Complete(s, r)
      PROVE  TypeWear' /\ TypeStats'
  BY <1>0, <1>5 DEF Complete, If1, wear, TypeWear, TypeStats
<1>6. ASSUME NEW v \in Limits, LimitStore(v) PROVE TypeWear' /\ TypeStats'
  <2>1. v \in 0..Wrap - 1 /\ v % Unit \in 0..v
    OBVIOUS
  <2>2. RoundDown(v) \in 0..Wrap - 1
    BY <2>1 DEF RoundDown
  <2> QED
    BY <1>0, <1>6, <2>1, <2>2 DEF LimitStore, stats, TypeWear, TypeStats
<1>7. CASE LimitEnableStore \/ ZramAdd
  <2>1. limit' \in 0..Wrap - 1 /\ budget' \in Nat /\ written' \in Int
    BY <1>0, <1>7 DEF LimitEnableStore, ZramAdd, TypeWear
  <2>2. enable' \in BOOLEAN /\ UNCHANGED <<hugePages, pagesStored>>
    BY <1>0, <1>7 DEF LimitEnableStore, ZramAdd, stats, TypeWear
  <2> QED
    BY <1>0, <2>1, <2>2 DEF TypeWear, TypeStats
<1>8. ASSUME NEW s \in Sweeps, Submit(s) PROVE TypeWear' /\ TypeStats'
  <2>1. Charged \in 0..Wrap - 1
    BY <1>0 DEF Charged, TypeWear
  <2> QED
    BY <1>0, <1>8, <2>1 DEF Submit, If1, stats, TypeWear, TypeStats
<1>9. ASSUME NEW s \in Sweeps, NEW r \in Reqs, CompleteError(s, r)
      PROVE  TypeWear' /\ TypeStats'
  <2>1. Refunded \in 0..Wrap - 1
    BY <1>0 DEF Refunded, TypeWear
  <2> QED
    BY <1>0, <1>9, <2>1 DEF CompleteError, If1, stats, TypeWear, TypeStats
<1>10. CASE UNCHANGED <<wear, stats>>
  BY <1>0, <1>10 DEF wear, stats, TypeWear, TypeStats
<1> QED
  BY <1>1, <1>2, <1>3, <1>4, <1>5, <1>6, <1>7, <1>8, <1>9, <1>10, CountSteps

(* The backing device keeps its type.                                      *)
LEMMA TypeBdevNext ==
    ASSUME ControlInv, [Next]_vars
    PROVE  TypeBdev'
<1> USE ZramAssumption
<1>0. TypeBdev /\ TypeSweeps /\ TypeReqs
  BY TypeParts DEF ControlInv
<1>1. ASSUME UNCHANGED block, used' \subseteq used PROVE TypeBdev'
  BY <1>0, <1>1 DEF TypeBdev
<1>2. ASSUME NEW i \in Index, SlotFree(i) PROVE TypeBdev'
  BY <1>1, <1>2 DEF SlotFree
<1>3. ASSUME NEW i \in Index, NEW v \in Vals, NEW k \in Kinds, Store(i, v, k)
      PROVE  TypeBdev'
  BY <1>1, <1>3 DEF Store
<1>4. ASSUME BackingDevStore \/ MetaFree \/ ResetBdev \/ RemoveDetach PROVE TypeBdev'
  BY <1>1, <1>4 DEF BackingDevStore, MetaFree, ResetBdev, RemoveDetach
<1>5. ASSUME NEW s \in Sweeps, Reserve(s) PROVE TypeBdev'
  <2>1. used' = used \/ \E b \in Blocks \ used : used' = used \cup {b}
    BY <1>0, <1>5, ReserveEffect DEF TypeBdev
  <2>2. UNCHANGED block
    BY <1>5 DEF Reserve
  <2> QED
    BY <1>0, <2>1, <2>2 DEF TypeBdev
<1>6. ASSUME NEW s \in Sweeps, Tail(s) PROVE TypeBdev'
  BY <1>1, <1>6 DEF Tail
<1>7. ASSUME NEW s \in Sweeps, NEW r \in Reqs, Complete(s, r) \/ CompleteError(s, r)
      PROVE  TypeBdev'
  BY <1>1, <1>7 DEF Complete, CompleteError
<1>8. ASSUME NEW s \in Sweeps, NEW r \in Reqs, NEW err \in BOOLEAN, Endio(s, r, err)
      PROVE  TypeBdev'
  <2>1. req[s][r].data \in Data
    BY <1>0, ReqFields
  <2> QED
    BY <1>0, <1>8, <2>1 DEF Endio, TypeBdev
<1>9. CASE UNCHANGED <<used, block>>
  BY <1>1, <1>9
<1> QED
  BY <1>2, <1>3, <1>4, <1>5, <1>6, <1>7, <1>8, <1>9, BdevSteps

(* What a read is told and what it takes from the device.                  *)
LEMMA ReadTypes ==
    ASSUME NEW x \in ReadType, NEW i \in Index, NEW b \in Blocks \cup {0},
           NEW v \in Vals \cup {None}, NEW d \in Data
    PROVE  /\ [x EXCEPT !.pc = "again", !.idx = i] \in ReadType
           /\ [x EXCEPT !.pc = "bdev", !.idx = i, !.blk = b] \in ReadType
           /\ [x EXCEPT !.pc = "end", !.val = v] \in ReadType
           /\ [x EXCEPT !.pc = "decompress", !.data = d] \in ReadType
           /\ [x EXCEPT !.pc = "end", !.data = d, !.val = v] \in ReadType
<1>1. /\ [x EXCEPT !.pc = "again", !.idx = i] \in ReadType
      /\ [x EXCEPT !.pc = "bdev", !.idx = i, !.blk = b] \in ReadType
  BY DEF ReadType
<1>2. /\ [x EXCEPT !.pc = "end", !.val = v] \in ReadType
      /\ [x EXCEPT !.pc = "decompress", !.data = d] \in ReadType
  BY DEF ReadType
<1>3. [x EXCEPT !.pc = "end", !.data = d, !.val = v] \in ReadType
  BY DEF ReadType
<1> QED
  BY <1>1, <1>2, <1>3

(* The user's side keeps its type.                                         *)
LEMMA TypeUserNext ==
    ASSUME ControlInv, [Next]_vars
    PROVE  TypeUser'
<1> USE ZramAssumption
<1>0. TypeUser /\ TypeSlots /\ TypeBdev /\ TypeDevice /\ HasBlock
  BY TypeParts DEF ControlInv
<1>r. rd \in ReadType /\ rd.idx \in Index /\ rd.blk \in Blocks \cup {0} /\ rd.data \in Data
  BY <1>0 DEF TypeUser, ReadType
<1>1. ASSUME NEW i \in Index, BvecRead(i) PROVE TypeUser'
  <2>1. slot[i].blk \in Blocks \cup {0}
    BY <1>0, SlotFields
  <2>2. UNCHANGED last
    BY <1>1 DEF BvecRead
  <2>3. \/ rd' = [NoRead EXCEPT !.pc = "bdev", !.idx = i, !.blk = slot[i].blk]
        \/ rd' = [NoRead EXCEPT !.pc = "again", !.idx = i]
    BY <1>1 DEF BvecRead
  <2>4. /\ [NoRead EXCEPT !.pc = "bdev", !.idx = i, !.blk = slot[i].blk] \in ReadType
        /\ [NoRead EXCEPT !.pc = "again", !.idx = i] \in ReadType
    BY <1>r, <2>1, EmptyTypes, ReadTypes
  <2> QED
    BY <1>0, <2>2, <2>3, <2>4 DEF TypeUser
<1>s. CASE ReadSlot
  <2> DEFINE sl == slot[rd.idx]
             gap == compressed /\ sl.kind # "huge"
  <2>1. sl.val \in Vals \cup {None} /\ sl.blk \in Blocks \cup {0}
    BY <1>0, <1>r, SlotFields
  <2>2. gap \in BOOLEAN
    OBVIOUS
  <2>3. UNCHANGED last
        /\ \/ rd' = [rd EXCEPT !.pc = "bdev", !.blk = sl.blk, !.raw = TRUE, !.gap = gap]
           \/ rd' = [rd EXCEPT !.pc = "end", !.val = sl.val]
    BY <1>s DEF ReadSlot
  <2> HIDE DEF sl, gap
  <2>4. [rd EXCEPT !.pc = "bdev", !.blk = sl.blk, !.raw = TRUE, !.gap = gap] \in ReadType
    BY <1>r, <2>1, <2>2 DEF ReadType
  <2>5. [rd EXCEPT !.pc = "end", !.val = sl.val] \in ReadType
    BY <1>r, <2>1 DEF ReadType
  <2> QED
    BY <1>0, <2>3, <2>4, <2>5 DEF TypeUser
<1>2. CASE ReadBdev
  <2> DEFINE d == block[rd.blk]
  <2>1. d \in Data
    BY <1>0, <1>2, <1>r DEF ReadBdev, HasBlock, TypeBdev
  <2>2. Decoded(d, Raw) \in Vals \cup {None}
    BY <2>1 DEF Decoded, Data
  <2>3. UNCHANGED last /\ \/ rd' = [rd EXCEPT !.pc = "end", !.val = Decoded(d, Raw)]
                          \/ rd' = [rd EXCEPT !.pc = "decompress", !.data = d]
    BY <1>2 DEF ReadBdev
  <2> HIDE DEF d
  <2>4. /\ [rd EXCEPT !.pc = "end", !.val = Decoded(d, Raw)] \in ReadType
        /\ [rd EXCEPT !.pc = "decompress", !.data = d] \in ReadType
    BY <1>r, <2>1, <2>2, ReadTypes
  <2> QED
    BY <1>0, <2>3, <2>4 DEF TypeUser
<1>3. CASE Decompress
  <2>1. PICK v \in Vals \cup {None} : rd' = [rd EXCEPT !.pc = "end", !.data = NoData, !.val = v]
    <3>1. \A e : Decoded(rd.data, e) \in Vals \cup {None}
      BY <1>r DEF Decoded, Data
    <3>2. \/ rd' = [rd EXCEPT !.pc = "end", !.data = NoData, !.val = None]
          \/ rd' = [rd EXCEPT !.pc = "end", !.data = NoData, !.val = Decoded(rd.data, Raw)]
          \/ rd' = [rd EXCEPT !.pc = "end", !.data = NoData,
                       !.val = Decoded(rd.data, slot[rd.idx].prio)]
      BY <1>3 DEF Decompress
    <3> QED
      BY <3>1, <3>2
  <2>2. NoData \in Data
    BY DEF NoData, Data
  <2>3. [rd EXCEPT !.pc = "end", !.data = NoData, !.val = v] \in ReadType
    BY <1>r, <2>2, ReadTypes
  <2>4. UNCHANGED last
    BY <1>3 DEF Decompress
  <2> QED
    BY <1>0, <2>1, <2>3, <2>4 DEF TypeUser
<1>4. CASE ReadBdevFails \/ ReadEnd
  BY <1>0, <1>4, EmptyTypes DEF ReadBdevFails, ReadEnd, TypeUser
<1>5. ASSUME NEW i \in Index, SlotFree(i) PROVE TypeUser'
  BY <1>0, <1>5 DEF SlotFree, TypeUser
<1>6. ASSUME NEW i \in Index, NEW v \in Vals, NEW k \in Kinds, Store(i, v, k)
      PROVE  TypeUser'
  BY <1>0, <1>6 DEF Store, TypeUser
<1>7. ASSUME NEW n \in 1..MaxPages, DisksizeStore(n) PROVE TypeUser'
  BY <1>0, <1>7 DEF DisksizeStore, TypeUser
<1>8. CASE MetaFree
  BY <1>0, <1>8 DEF MetaFree, TypeUser
<1>9. CASE UNCHANGED <<rd, last>>
  BY <1>0, <1>9 DEF TypeUser
<1> QED
  BY <1>1, <1>2, <1>3, <1>4, <1>5, <1>6, <1>7, <1>8, <1>9, <1>s, UserSteps

-----------------------------------------------------------------------------
(* What a step does to a slot                                              *)

SlotsKeptBut(i) == \A j \in Index : j # i => slot'[j] = slot[j]
SlotTurns(i, kind, val, prio, wb, blk, idle, under) ==
    /\ slot'[i].kind = kind /\ slot'[i].val = val /\ slot'[i].prio = prio
    /\ slot'[i].wb <=> wb
    /\ slot'[i].blk = blk
    /\ slot'[i].idle <=> idle
    /\ slot'[i].under <=> under
(* Only the flags IDLE and UNDER_WB.                                       *)
FlagsTurn(i, idle, under) ==
    LET sl == slot[i]
    IN SlotTurns(i, sl.kind, sl.val, sl.prio, sl.wb, sl.blk, idle, under)

(* The slot of the record x that an action writes.                         *)
LEMMA SlotWritten ==
    ASSUME TypeSlots, NEW i \in Index, NEW x, slot' = [slot EXCEPT ![i] = x]
    PROVE  SlotsKeptBut(i) /\ slot'[i] = x
BY DEF TypeSlots, SlotsKeptBut

(* zram_free_page() and what is stored after it.                           *)
LEMMA SlotFreeEffect ==
    ASSUME TypeSlots, NEW i \in Index, SlotFree(i)
    PROVE  /\ SlotsKeptBut(i) /\ Writable(i) /\ slot[i].kind # "free"
           /\ SlotTurns(i, "free", None, 0, FALSE, 0, FALSE, slot[i].under)
<1>1. slot' = [slot EXCEPT ![i] = FreePage(slot[i])] /\ Writable(i) /\ slot[i].kind # "free"
  BY DEF SlotFree
<1>2. SlotsKeptBut(i) /\ slot'[i] = FreePage(slot[i])
  BY <1>1, SlotWritten
<1> QED
  BY <1>1, <1>2 DEF FreePage, FreeSlot, SlotTurns

(* A store frees the slot and fills it with what was stored.               *)
LEMMA StoreEffect ==
    ASSUME TypeSlots, NEW i \in Index, NEW v \in Vals, NEW k \in Kinds, Store(i, v, k)
    PROVE  /\ SlotsKeptBut(i) /\ Writable(i)
           /\ SlotTurns(i, k, v, 0, FALSE, 0, FALSE, slot[i].under)
<1>1. slot' = [slot EXCEPT ![i] = [FreePage(slot[i]) EXCEPT !.kind = k, !.val = v]]
      /\ Writable(i)
  BY DEF Store
<1>2. SlotsKeptBut(i) /\ slot'[i] = [FreePage(slot[i]) EXCEPT !.kind = k, !.val = v]
  BY <1>1, SlotWritten
<1>3. slot'[i] = [kind |-> k, val |-> v, prio |-> 0, wb |-> FALSE, blk |-> 0,
                  idle |-> FALSE, under |-> slot[i].under]
  BY <1>2 DEF FreePage, FreeSlot
<1>4. slot[i].under \in BOOLEAN
  BY SlotFields
<1>5. SlotTurns(i, k, v, 0, FALSE, 0, FALSE, slot[i].under)
  BY <1>3, <1>4 DEF SlotTurns
<1> QED
  BY <1>1, <1>2, <1>5

(* zram_accessed() and mark_idle().                                        *)
LEMMA AccessedEffect ==
    ASSUME TypeSlots, NEW i \in Index, Accessed(i)
    PROVE  SlotsKeptBut(i) /\ FlagsTurn(i, FALSE, slot[i].under)
<1>1. slot' = [slot EXCEPT ![i] = [slot[i] EXCEPT !.idle = FALSE]]
  BY DEF Accessed
<1>2. SlotsKeptBut(i) /\ slot'[i] = [slot[i] EXCEPT !.idle = FALSE]
  BY <1>1, SlotWritten
<1> QED
  BY <1>2 DEF TypeSlots, SlotType, FlagsTurn, SlotTurns

(* mark_idle() changes idle marks and nothing else.                        *)
LEMMA MarkIdleEffect ==
    ASSUME TypeSlots, NEW i \in Index, NEW b \in BOOLEAN, MarkIdle(i, b)
    PROVE  /\ SlotsKeptBut(i) /\ FlagsTurn(i, b, slot[i].under)
           /\ slot[i].kind # "free" /\ ~slot[i].wb /\ ~slot[i].under
<1>1. /\ slot' = [slot EXCEPT ![i] = [slot[i] EXCEPT !.idle = b]]
      /\ slot[i].kind # "free" /\ ~slot[i].wb /\ ~slot[i].under
  BY DEF MarkIdle, MayMarkIdle
<1>2. SlotsKeptBut(i) /\ slot'[i] = [slot[i] EXCEPT !.idle = b]
  BY <1>1, SlotWritten
<1> QED
  BY <1>1, <1>2 DEF TypeSlots, SlotType, FlagsTurn, SlotTurns

(* zram_recompress(): a slot in memory that no sweep is about.             *)
LEMMA RecompressEffect ==
    ASSUME TypeSlots, NEW i \in Index, NEW b \in BOOLEAN, Recompress(i, b)
    PROVE  /\ SlotsKeptBut(i) /\ i < disksize
           /\ slot[i].kind \in {"comp", "huge"} /\ ~slot[i].wb /\ ~slot[i].under
           /\ \/ b /\ SlotTurns(i, "comp", slot[i].val, 1, FALSE, 0, FALSE, FALSE)
              \/ ~b /\ FlagsTurn(i, FALSE, FALSE)
<1> DEFINE x == [FreePage(slot[i]) EXCEPT !.kind = "comp", !.val = slot[i].val, !.prio = 1]
           y == [slot[i] EXCEPT !.idle = FALSE]
<1>1. /\ b => slot' = [slot EXCEPT ![i] = x]
      /\ ~b => slot' = [slot EXCEPT ![i] = y]
      /\ i < disksize /\ slot[i].kind \in {"comp", "huge"} /\ ~slot[i].wb /\ ~slot[i].under
  BY DEF Recompress
<1>2. ASSUME b PROVE SlotsKeptBut(i) /\ slot'[i] = x
  BY <1>1, <1>2, SlotWritten
<1>3. ASSUME ~b PROVE SlotsKeptBut(i) /\ slot'[i] = y
  BY <1>1, <1>3, SlotWritten
<1>4. ASSUME b PROVE SlotTurns(i, "comp", slot[i].val, 1, FALSE, 0, FALSE, FALSE)
  BY <1>1, <1>2, <1>4 DEF FreePage, FreeSlot, SlotTurns
<1>5. ASSUME ~b PROVE FlagsTurn(i, FALSE, FALSE)
  BY <1>1, <1>3, <1>5 DEF TypeSlots, SlotType, FlagsTurn, SlotTurns
<1> QED
  BY <1>1, <1>2, <1>3, <1>4, <1>5

(* A sweep skips the slot at its index, or marks it.                       *)
LEMMA MarkSlot ==
    ASSUME TypeSlots, TypeSweeps, NEW s \in Sweeps, Mark(s), sw[s].index \in Index
    PROVE  LET i == sw[s].index
           IN \/ slot' = slot /\ sw'[s].pc = "top"
              \/ /\ SlotsKeptBut(i) /\ FlagsTurn(i, TRUE, TRUE)
                 /\ slot[i].kind # "free" /\ ~slot[i].wb /\ ~slot[i].under
                 /\ sw'[s].pc \in {"read", "submit"}
<1> DEFINE i == sw[s].index
<1>1. CASE Skips(sw[s].mode, slot[i])
  <2>1. sw' = [sw EXCEPT ![s] = NextIndex(sw[s])] /\ slot' = slot
    BY <1>1 DEF Mark
  <2>2. sw'[s].pc = "top"
    BY <2>1 DEF NextIndex, TypeSweeps, SweepType
  <2> QED
    BY <2>1, <2>2
<1>2. CASE ~Skips(sw[s].mode, slot[i])
  <2>1. /\ slot' = [slot EXCEPT ![i] = [slot[i] EXCEPT !.under = TRUE, !.idle = TRUE]]
        /\ Moves(s, "read") \/ Moves(s, "submit")
    BY <1>2 DEF Mark
  <2>2. SlotsKeptBut(i) /\ slot'[i] = [slot[i] EXCEPT !.under = TRUE, !.idle = TRUE]
    BY <2>1, SlotWritten
  <2>3. FlagsTurn(i, TRUE, TRUE)
    BY <2>2 DEF TypeSlots, SlotType, FlagsTurn, SlotTurns
  <2>4. slot[i].kind # "free" /\ ~slot[i].wb /\ ~slot[i].under
    BY <1>2 DEF Skips
  <2>5. sw'[s].pc \in {"read", "submit"}
    BY <2>1 DEF Moves, TypeSweeps, SweepType
  <2> QED
    BY <2>2, <2>3, <2>4, <2>5
<1> QED
  BY <1>1, <1>2

(* A read that failed, and a completion, take the marks away ...           *)
LEMMA UnmarkedEffect ==
    ASSUME TypeSlots, NEW i \in Index, slot' = [slot EXCEPT ![i] = Unmarked(slot[i])]
    PROVE  SlotsKeptBut(i) /\ FlagsTurn(i, FALSE, FALSE)
<1>1. SlotsKeptBut(i) /\ slot'[i] = Unmarked(slot[i])
  BY SlotWritten
<1> QED
  BY <1>1 DEF Unmarked, TypeSlots, SlotType, FlagsTurn, SlotTurns

(* A sweep that cannot read the page unmarks the slot it marked.           *)
LEMMA ReadFailsSlot ==
    ASSUME TypeSlots, NEW s \in Sweeps, ReadFails(s), sw[s].index \in Index
    PROVE  SlotsKeptBut(sw[s].index) /\ FlagsTurn(sw[s].index, FALSE, FALSE)
BY UnmarkedEffect DEF ReadFails

(* A completion unmarks the slot of the request that failed.               *)
LEMMA UnmarkFailedSlot ==
    ASSUME TypeSlots, NEW s \in Sweeps, NEW r \in Reqs, UnmarkFailed(s, r),
           req[s][r].idx \in Index
    PROVE  SlotsKeptBut(req[s][r].idx) /\ FlagsTurn(req[s][r].idx, FALSE, FALSE)
BY UnmarkedEffect DEF UnmarkFailed

(* ... and a completion that finds the slot as the sweep left it makes it  *)
(* a written-back slot.                                                    *)
LEMMA CompleteSlot ==
    ASSUME TypeSlots, NEW s \in Sweeps, NEW r \in Reqs, Complete(s, r),
           req[s][r].idx \in Index
    PROVE  LET y == req[s][r]
               i == y.idx
           IN /\ SlotsKeptBut(i) /\ ~y.err
              /\ \/ /\ slot[i].kind # "free" /\ slot[i].idle /\ used' = used
                    /\ SlotTurns(i, slot[i].kind, None, slot[i].prio, TRUE, y.blk,
                                 FALSE, FALSE)
                 \/ /\ ~(slot[i].kind # "free" /\ slot[i].idle) /\ used' = used \ {y.blk}
                    /\ FlagsTurn(i, FALSE, FALSE)
<1> DEFINE y == req[s][r]
           i == y.idx
           x == [Unmarked(slot[i]) EXCEPT !.wb = TRUE, !.blk = y.blk, !.val = None]
<1>0. ~y.err
  BY DEF Complete
<1>1. CASE Unchanged(slot[i])
  <2>1. slot' = [slot EXCEPT ![i] = x] /\ used' = used
    BY <1>1 DEF Complete
  <2>2. SlotsKeptBut(i) /\ slot'[i] = x
    BY <2>1, SlotWritten
  <2>3. SlotTurns(i, slot[i].kind, None, slot[i].prio, TRUE, y.blk, FALSE, FALSE)
    BY <2>2 DEF Unmarked, TypeSlots, SlotType, SlotTurns
  <2> QED
    BY <1>0, <1>1, <2>1, <2>2, <2>3 DEF Unchanged
<1>2. CASE ~Unchanged(slot[i])
  <2>1. slot' = [slot EXCEPT ![i] = Unmarked(slot[i])] /\ used' = used \ {y.blk}
    BY <1>2 DEF Complete
  <2>2. SlotsKeptBut(i) /\ FlagsTurn(i, FALSE, FALSE)
    BY <2>1, UnmarkedEffect
  <2> QED
    BY <1>0, <1>2, <2>1, <2>2 DEF Unchanged
<1> QED
  BY <1>1, <1>2

(* A table set up anew, and one that is freed, has only free slots.        *)
LEMMA FreshTable ==
    ASSUME slot' = [i \in Index |-> FreeSlot], NEW i \in Index
    PROVE  SlotTurns(i, "free", None, 0, FALSE, 0, FALSE, FALSE)
BY DEF FreeSlot, SlotTurns

-----------------------------------------------------------------------------
(* The invariant is kept                                                   *)

(* A device that is being reset, is removed, or has a size.                *)
LEMMA DeviceNext ==
    ASSUME OneSetup, ControlInv, [Next]_vars
    PROVE  DeviceOK'
<1>0. DeviceOK
  BY DEF ControlInv
<1>1. CASE Open \/ Close
  BY <1>0, <1>1 DEF Open, Close, DeviceOK
<1>2. CASE BackingDevStore
  BY <1>0, <1>2 DEF BackingDevStore, DeviceOK
<1>3. ASSUME NEW v \in BatchSizes, BatchSizeStore(v) PROVE DeviceOK'
  BY <1>0, <1>3 DEF BatchSizeStore, DeviceOK
<1>4. ASSUME NEW v \in BOOLEAN, CompressedStore(v) PROVE DeviceOK'
  BY <1>0, <1>4 DEF CompressedStore, DeviceOK
<1>5. ASSUME NEW n \in 1..MaxPages, DisksizeStore(n) PROVE DeviceOK'
  BY <1>0, <1>5 DEF DisksizeStore, Admin, OneSetup, DeviceOK
<1>6. ASSUME NEW removing \in BOOLEAN, ResetDevice(removing) PROVE DeviceOK'
  BY <1>0, <1>6 DEF ResetDevice, Admin, DeviceOK
<1>7. CASE MetaFree \/ ResetBdev
  <2>1. disksize = 0 /\ ~open /\ ~removed /\ UNCHANGED <<disksize, open, removed>>
    BY <1>0, <1>7 DEF MetaFree, ResetBdev, DeviceOK
  <2> QED
    BY <2>1 DEF DeviceOK
<1>8. CASE RemoveDetach
  BY <1>0, <1>8 DEF RemoveDetach, DeviceOK
<1>9. CASE ZramAdd
  BY <1>0, <1>9 DEF ZramAdd, DeviceOK
<1>10. CASE UNCHANGED device
  BY <1>0, <1>10 DEF device, DeviceOK
<1> QED
  BY <1>1, <1>2, <1>3, <1>4, <1>5, <1>6, <1>7, <1>8, <1>9, <1>10, DeviceSteps

(* While the device is set up, reset or removed no sweep runs; the other   *)
(* steps leave its size and the backing device alone.                      *)
LEMMA SetupWithoutSweep ==
    ASSUME OneSetup, ControlInv, [Next]_vars
    PROVE  UNCHANGED <<disksize, backing>> \/ (NoReader /\ UNCHANGED <<sw, req>>)
<1>0. DeviceOK /\ (disksize = 0 => NoReader)
  BY DEF ControlInv, SweepOK, LiveOK, NoReader
<1> DEFINE G == UNCHANGED <<disksize, backing>> \/ (NoReader /\ UNCHANGED <<sw, req>>)
<1>1. ASSUME \/ Open \/ Close \/ ZramAdd \/ \E v \in BatchSizes : BatchSizeStore(v)
             \/ \E v \in BOOLEAN : CompressedStore(v)
      PROVE  G
  BY <1>1 DEF Open, Close, ZramAdd, BatchSizeStore, CompressedStore
<1>2. ASSUME \/ BackingDevStore \/ \E n \in 1..MaxPages : DisksizeStore(n)
             \/ \E removing \in BOOLEAN : ResetDevice(removing)
      PROVE  G
  BY <1>2 DEF BackingDevStore, DisksizeStore, ResetDevice
<1>3. ASSUME MetaFree \/ ResetBdev \/ RemoveDetach PROVE G
  BY <1>0, <1>3 DEF MetaFree, ResetBdev, RemoveDetach, DeviceOK
<1>4. ASSUME UNCHANGED device PROVE G
  <2>1. UNCHANGED <<disksize, backing>>
    BY <1>4 DEF device
  <2> QED
    BY <2>1
<1> HIDE DEF G
<1>5. G
  BY <1>1, <1>2, <1>3, <1>4, DeviceSteps
<1> QED
  BY <1>5 DEF G

(* A sweep that takes no part in a step stays as it was.                   *)
LEMMA SweepKept ==
    ASSUME NEW t \in Sweeps, SweepOK(t), sw'[t] = sw[t], req'[t] = req[t],
           UNCHANGED <<disksize, backing>> \/ sw[t].pc = "off"
    PROVE  SweepOK(t)'
<1>1. CASE UNCHANGED <<disksize, backing>>
  BY <1>1 DEF SweepOK, HoldsOK, LiveOK, BoundOK, ReqOK
<1>2. CASE sw[t].pc = "off"
  BY <1>2 DEF SweepOK, HoldsOK, LiveOK, BoundOK, ReqOK
<1> QED
  BY <1>1, <1>2

(* The control of the sweep that takes the step: each action in turn.      *)
LEMMA OwnControl ==
    ASSUME ControlInv, NEW s \in Sweeps, SweepStep(s) \/ Device(s)
    PROVE  OthersKept(s) /\ SweepOK(s)'
<1> USE ZramAssumption
<1>0. /\ TypeSweeps /\ TypeReqs /\ TypeDevice /\ TypeBdev
      /\ HoldsOK(sw[s]) /\ LiveOK(sw[s]) /\ BoundOK(sw[s])
      /\ \A r \in Reqs : ReqOK(sw[s], r, req[s][r]) 
  BY TypeParts DEF ControlInv, SweepOK
<1>r. \A r \in Reqs : req[s][r].st \in {"none", "idle", "held", "flight", "done", "failed"}
  BY <1>0, ReqFields
<1>d. disksize' = disksize /\ backing' = backing
  BY DEF SweepStep, LimitCheck, SelectIdleReq, Reserve, Mark, Read, ReadFails, Submit,
     WaitDone, CompleteNone, Tail, Drain, Complete, CompleteError, UnmarkFailed,
     Device, EndioWake, RcuFree, Endio, device
<1>f. /\ sw[s].index \in Nat /\ sw[s].nr \in Int /\ sw[s].held \in Reqs \cup {0}
      /\ sw[s].blk \in Blocks \cup {0} /\ sw[s].pc \in PCs /\ sw[s].waking \in Nat
      /\ 0 \notin Reqs /\ 0 \notin Blocks /\ disksize \in Nat
      /\ sw[s].ctl \in {"none", "live", "rcu"}
  BY <1>0, SweepFields DEF Reqs, Blocks, TypeDevice
<1>h. sw[s].pc \in {"mark", "read", "submit"} =>
         sw[s].held \in Reqs /\ sw[s].blk \in Blocks /\ sw[s].index < disksize
  BY InTable
<1> HIDE ZramAssumption
<1> USE <1>0, <1>d, <1>f, <1>h, <1>r
<1> USE DEF At, SweepTurns, SweepMoves, ReqTurns, ReqsKeptBut
<1>1. CASE LimitCheck(s)
  <2>1. OthersKept(s) /\ HoldsOK(sw[s])'
    BY <1>1, LimitCheckEffect DEF HoldsOK
  <2>2. LiveOK(sw[s])'
    BY <1>1, LimitCheckEffect DEF LiveOK, ReqOK
  <2>3. BoundOK(sw[s])'
    BY <1>1, LimitCheckEffect DEF BoundOK
  <2>4. ASSUME NEW q \in Reqs PROVE ReqOK(sw[s], q, req[s][q])'
    BY <1>1, LimitCheckEffect DEF ReqOK, HoldsOK
  <2> QED
    BY <2>1, <2>2, <2>3, <2>4 DEF SweepOK
<1>2. CASE SelectIdleReq(s)
  <2>1. OthersKept(s) /\ HoldsOK(sw[s])'
    BY <1>2, SelectEffect DEF HoldsOK
  <2>2. LiveOK(sw[s])'
    BY <1>2, SelectEffect DEF LiveOK, ReqOK
  <2>3. BoundOK(sw[s])'
    BY <1>2, SelectEffect DEF BoundOK
  <2>4. ASSUME NEW q \in Reqs PROVE ReqOK(sw[s], q, req[s][q])'
    BY <1>2, SelectEffect DEF ReqOK, HoldsOK
  <2> QED
    BY <2>1, <2>2, <2>3, <2>4 DEF SweepOK
<1>3. CASE Reserve(s)
  <2>1. OthersKept(s) /\ HoldsOK(sw[s])'
    BY <1>3, ReserveEffect DEF TypeBdev, HoldsOK
  <2>2. LiveOK(sw[s])'
    BY <1>3, ReserveEffect DEF TypeBdev, LiveOK, ReqOK
  <2>3. BoundOK(sw[s])'
    BY <1>3, ReserveEffect DEF TypeBdev, BoundOK
  <2>4. ASSUME NEW q \in Reqs PROVE ReqOK(sw[s], q, req[s][q])'
    BY <1>3, ReserveEffect DEF TypeBdev, ReqOK, HoldsOK
  <2> QED
    BY <2>1, <2>2, <2>3, <2>4 DEF SweepOK
<1>4. CASE Mark(s)
  <2>0. sw[s].held \in Reqs
    BY <1>4 DEF Mark
  <2>1. OthersKept(s) /\ HoldsOK(sw[s])'
    BY <1>4, <2>0, MarkEffect DEF HoldsOK
  <2>2. LiveOK(sw[s])'
    BY <1>4, <2>0, MarkEffect DEF LiveOK, ReqOK
  <2>3. BoundOK(sw[s])'
    BY <1>4, <2>0, MarkEffect DEF BoundOK
  <2>4. ASSUME NEW q \in Reqs PROVE ReqOK(sw[s], q, req[s][q])'
    BY <1>4, <2>0, MarkEffect DEF ReqOK, HoldsOK
  <2> QED
    BY <2>1, <2>2, <2>3, <2>4 DEF SweepOK
<1>5. CASE Read(s)
  <2>0. sw[s].held \in Reqs
    BY <1>5 DEF Read
  <2>1. OthersKept(s) /\ HoldsOK(sw[s])'
    BY <1>5, <2>0, ReadEffect DEF HoldsOK
  <2>2. LiveOK(sw[s])'
    BY <1>5, <2>0, ReadEffect DEF LiveOK, ReqOK
  <2>3. BoundOK(sw[s])'
    BY <1>5, <2>0, ReadEffect DEF BoundOK
  <2>4. ASSUME NEW q \in Reqs PROVE ReqOK(sw[s], q, req[s][q])'
    BY <1>5, <2>0, ReadEffect DEF ReqOK, HoldsOK
  <2> QED
    BY <2>1, <2>2, <2>3, <2>4 DEF SweepOK
<1>6. CASE ReadFails(s)
  <2>1. OthersKept(s) /\ HoldsOK(sw[s])'
    BY <1>6, ReadFailsEffect DEF HoldsOK
  <2>2. LiveOK(sw[s])'
    BY <1>6, ReadFailsEffect DEF LiveOK, ReqOK
  <2>3. BoundOK(sw[s])'
    BY <1>6, ReadFailsEffect DEF BoundOK
  <2>4. ASSUME NEW q \in Reqs PROVE ReqOK(sw[s], q, req[s][q])'
    BY <1>6, ReadFailsEffect DEF ReqOK, HoldsOK
  <2> QED
    BY <2>1, <2>2, <2>3, <2>4 DEF SweepOK
<1>7. CASE Submit(s)
  <2>0. sw[s].held \in Reqs
    BY <1>7 DEF Submit
  <2>1. OthersKept(s) /\ HoldsOK(sw[s])'
    BY <1>7, <2>0, SubmitEffect DEF HoldsOK
  <2>2. LiveOK(sw[s])'
    BY <1>7, <2>0, SubmitEffect DEF LiveOK, ReqOK
  <2>3. BoundOK(sw[s])'
    BY <1>7, <2>0, SubmitEffect DEF BoundOK
  <2>4. ASSUME NEW q \in Reqs PROVE ReqOK(sw[s], q, req[s][q])'
    BY <1>7, <2>0, SubmitEffect DEF ReqOK, HoldsOK
  <2> QED
    BY <2>1, <2>2, <2>3, <2>4 DEF SweepOK
<1>8. CASE WaitDone(s)
  <2>1. OthersKept(s) /\ HoldsOK(sw[s])'
    BY <1>8, WaitDoneEffect DEF HoldsOK
  <2>2. LiveOK(sw[s])'
    BY <1>8, WaitDoneEffect DEF LiveOK, ReqOK
  <2>3. BoundOK(sw[s])'
    BY <1>8, WaitDoneEffect DEF BoundOK
  <2>4. ASSUME NEW q \in Reqs PROVE ReqOK(sw[s], q, req[s][q])'
    BY <1>8, WaitDoneEffect DEF ReqOK, HoldsOK
  <2> QED
    BY <2>1, <2>2, <2>3, <2>4 DEF SweepOK
<1>9. CASE CompleteNone(s)
  <2>1. OthersKept(s) /\ HoldsOK(sw[s])'
    BY <1>9, CompleteNoneEffect DEF HoldsOK
  <2>2. LiveOK(sw[s])'
    BY <1>9, CompleteNoneEffect DEF LiveOK, ReqOK
  <2>3. BoundOK(sw[s])'
    BY <1>9, CompleteNoneEffect DEF BoundOK
  <2>4. ASSUME NEW q \in Reqs PROVE ReqOK(sw[s], q, req[s][q])'
    BY <1>9, CompleteNoneEffect DEF ReqOK, HoldsOK
  <2> QED
    BY <2>1, <2>2, <2>3, <2>4 DEF SweepOK
<1>10. CASE Tail(s)
  <2>1. OthersKept(s) /\ HoldsOK(sw[s])'
    BY <1>10, TailEffect DEF HoldsOK
  <2>2. LiveOK(sw[s])'
    BY <1>10, TailEffect DEF LiveOK, ReqOK
  <2>3. BoundOK(sw[s])'
    BY <1>10, TailEffect DEF BoundOK
  <2>4. ASSUME NEW q \in Reqs PROVE ReqOK(sw[s], q, req[s][q])'
    <3>1. CASE q = sw[s].held
      BY <1>10, <3>1, TailEffect DEF ReqOK, HoldsOK
    <3>2. CASE q # sw[s].held
      BY <1>10, <3>2, TailEffect DEF ReqOK, HoldsOK
    <3> QED
      BY <3>1, <3>2
  <2> QED
    BY <2>1, <2>2, <2>3, <2>4 DEF SweepOK
<1>11. CASE Drain(s)
  <2>1. OthersKept(s) /\ HoldsOK(sw[s])'
    BY <1>11, DrainEffect DEF NoReq, HoldsOK
  <2>2. LiveOK(sw[s])'
    BY <1>11, DrainEffect DEF NoReq, LiveOK, ReqOK
  <2>3. BoundOK(sw[s])'
    BY <1>11, DrainEffect DEF NoReq, BoundOK
  <2>4. ASSUME NEW q \in Reqs PROVE ReqOK(sw[s], q, req[s][q])'
    <3>1. sw[s].held = 0
      BY <1>11, DrainEffect DEF HoldsOK
    <3>2. req[s][q].st # "held"
      BY <3>1 DEF ReqOK
    <3> QED
      BY <1>11, <3>1, <3>2, DrainEffect DEF NoReq, ReqOK
  <2> QED
    BY <2>1, <2>2, <2>3, <2>4 DEF SweepOK
<1>12. ASSUME NEW r \in Reqs, Complete(s, r) PROVE OthersKept(s) /\ SweepOK(s)'
  <2>1. OthersKept(s) /\ HoldsOK(sw[s])'
    BY <1>12, CompleteEffect DEF HoldsOK
  <2>2. LiveOK(sw[s])'
    BY <1>12, CompleteEffect DEF LiveOK, ReqOK
  <2>3. BoundOK(sw[s])'
    BY <1>12, CompleteEffect DEF BoundOK
  <2>4. ASSUME NEW q \in Reqs PROVE ReqOK(sw[s], q, req[s][q])'
    <3>1. CASE q = r
      BY <1>12, <3>1, CompleteEffect DEF ReqOK, HoldsOK
    <3>2. CASE q # r
      BY <1>12, <3>2, CompleteEffect DEF ReqOK, HoldsOK
    <3> QED
      BY <3>1, <3>2
  <2> QED
    BY <2>1, <2>2, <2>3, <2>4 DEF SweepOK
<1>13. ASSUME NEW r \in Reqs, CompleteError(s, r) PROVE OthersKept(s) /\ SweepOK(s)'
  <2>1. OthersKept(s) /\ HoldsOK(sw[s])'
    BY <1>13, CompleteErrorEffect DEF HoldsOK
  <2>2. LiveOK(sw[s])'
    BY <1>13, CompleteErrorEffect DEF LiveOK, ReqOK
  <2>3. BoundOK(sw[s])'
    BY <1>13, CompleteErrorEffect DEF BoundOK
  <2>4. ASSUME NEW q \in Reqs PROVE ReqOK(sw[s], q, req[s][q])'
    BY <1>13, CompleteErrorEffect DEF ReqOK, HoldsOK
  <2> QED
    BY <2>1, <2>2, <2>3, <2>4 DEF SweepOK
<1>14. ASSUME NEW r \in Reqs, UnmarkFailed(s, r) PROVE OthersKept(s) /\ SweepOK(s)'
  <2>1. OthersKept(s) /\ HoldsOK(sw[s])'
    BY <1>14, UnmarkFailedEffect DEF HoldsOK
  <2>2. LiveOK(sw[s])'
    BY <1>14, UnmarkFailedEffect DEF LiveOK, ReqOK
  <2>3. BoundOK(sw[s])'
    BY <1>14, UnmarkFailedEffect DEF BoundOK
  <2>4. ASSUME NEW q \in Reqs PROVE ReqOK(sw[s], q, req[s][q])'
    <3>1. CASE q = r
      BY <1>14, <3>1, UnmarkFailedEffect DEF ReqOK, HoldsOK
    <3>2. CASE q # r
      BY <1>14, <3>2, UnmarkFailedEffect DEF ReqOK, HoldsOK
    <3> QED
      BY <3>1, <3>2
  <2> QED
    BY <2>1, <2>2, <2>3, <2>4 DEF SweepOK
<1>15. CASE EndioWake(s)
  <2>1. OthersKept(s) /\ HoldsOK(sw[s])'
    BY <1>15, EndioWakeEffect DEF WokenBy, HoldsOK
  <2>2. LiveOK(sw[s])'
    BY <1>15, EndioWakeEffect DEF WokenBy, LiveOK, ReqOK
  <2>3. BoundOK(sw[s])'
    BY <1>15, EndioWakeEffect DEF WokenBy, BoundOK
  <2>4. ASSUME NEW q \in Reqs PROVE ReqOK(sw[s], q, req[s][q])'
    BY <1>15, EndioWakeEffect DEF WokenBy, ReqOK, HoldsOK
  <2> QED
    BY <2>1, <2>2, <2>3, <2>4 DEF SweepOK
<1>16. CASE RcuFree(s)
  <2>1. OthersKept(s) /\ HoldsOK(sw[s])'
    BY <1>16, RcuFreeEffect DEF HoldsOK
  <2>2. LiveOK(sw[s])'
    BY <1>16, RcuFreeEffect DEF LiveOK, ReqOK
  <2>3. BoundOK(sw[s])'
    BY <1>16, RcuFreeEffect DEF BoundOK
  <2>4. ASSUME NEW q \in Reqs PROVE ReqOK(sw[s], q, req[s][q])'
    BY <1>16, RcuFreeEffect DEF ReqOK, HoldsOK
  <2> QED
    BY <2>1, <2>2, <2>3, <2>4 DEF SweepOK
<1>17. ASSUME NEW r \in Reqs, NEW err \in BOOLEAN, Endio(s, r, err)
       PROVE  OthersKept(s) /\ SweepOK(s)'
  <2>1. OthersKept(s) /\ HoldsOK(sw[s])'
    BY <1>17, EndioEffect DEF HoldsOK
  <2>2. LiveOK(sw[s])'
    BY <1>17, EndioEffect DEF LiveOK, ReqOK
  <2>3. BoundOK(sw[s])'
    BY <1>17, EndioEffect DEF BoundOK
  <2>4. ASSUME NEW q \in Reqs PROVE ReqOK(sw[s], q, req[s][q])'
    BY <1>17, EndioEffect DEF ReqOK, HoldsOK
  <2> QED
    BY <2>1, <2>2, <2>3, <2>4 DEF SweepOK
<1> QED
  BY <1>1, <1>2, <1>3, <1>4, <1>5, <1>6, <1>7, <1>8, <1>9, <1>10, <1>11, <1>12,
     <1>13, <1>14, <1>15, <1>16, <1>17 DEF SweepStep, Device

(* Every sweep's control is kept, whoever takes the step.                  *)
LEMMA SweepsNext ==
    ASSUME OneSetup, ControlInv, [Next]_vars
    PROVE  \A t \in Sweeps : SweepOK(t)'
<1>0. TypeSweeps /\ TypeReqs /\ TypeDevice /\ \A t \in Sweeps : SweepOK(t)
  BY TypeParts DEF ControlInv
<1>1. ASSUME NEW s \in Sweeps, SweepStep(s) \/ Device(s)
      PROVE  \A t \in Sweeps : SweepOK(t)'
  <2>1. disksize' = disksize /\ backing' = backing
    BY <1>1 DEF SweepStep, LimitCheck, SelectIdleReq, Reserve, Mark, Read, ReadFails,
       Submit, WaitDone, CompleteNone, Tail, Drain, Complete, CompleteError,
       UnmarkFailed, Device, EndioWake, RcuFree, Endio, device
  <2>2. OthersKept(s) /\ SweepOK(s)'
    BY <1>1, OwnControl
  <2>3. ASSUME NEW t \in Sweeps, t # s PROVE SweepOK(t)'
    <3>1. sw'[t] = sw[t] /\ req'[t] = req[t]
      BY <2>2, <2>3 DEF OthersKept
    <3> QED
      BY <1>0, <2>1, <3>1, SweepKept
  <2> QED
    BY <2>2, <2>3
<1>2. ASSUME NEW s \in Sweeps, NEW m \in Modes, NEW i \in Index, NEW n \in Reqs,
             Start(s, m, i, n)
      PROVE  \A t \in Sweeps : SweepOK(t)'
  <2>1. disksize' = disksize /\ backing' = backing
    BY <1>2 DEF Start, device
  <2>s. Starts(s, m, i, n)
    BY <1>0, <1>2, StartEffect, Zenon
  <2>2. /\ At(s, "off") /\ sw[s].ctl = "none" /\ disksize # 0 /\ backing /\ i < disksize
        /\ (m # "page" => i = 0) /\ OthersKept(s)
        /\ SweepTurns(s, "top", i, SweepBound(m), 0, 0, FALSE, "live", 0)
        /\ \A r \in Reqs : req'[s][r] = IF r <= n THEN IdleReq ELSE NoReq
    BY <2>s, Zenon DEF Starts
  <2>3. disksize \in Nat /\ 0 \notin Reqs /\ i \in Nat
    BY <1>0, ZramAssumption DEF TypeDevice, Reqs, Index
  <2>4. HoldsOK(sw[s])' /\ LiveOK(sw[s])'
    BY <2>1, <2>2 DEF HoldsOK, LiveOK, SweepTurns
  <2>5. BoundOK(sw[s])'
    BY <2>1, <2>2, <2>3 DEF BoundOK, SweepTurns, SweepBound
  <2>6. ASSUME NEW r \in Reqs PROVE ReqOK(sw[s], r, req[s][r])'
    <3>1. req'[s][r].st \in {"idle", "none"}
      BY <2>2 DEF IdleReq, NoReq
    <3> QED
      BY <2>2, <2>3, <3>1 DEF ReqOK, SweepTurns
  <2>7. ASSUME NEW t \in Sweeps, t # s PROVE SweepOK(t)'
    <3>1. sw'[t] = sw[t] /\ req'[t] = req[t]
      BY <2>2, <2>7 DEF OthersKept
    <3> QED
      BY <1>0, <2>1, <3>1, SweepKept
  <2> QED
    BY <2>4, <2>5, <2>6, <2>7 DEF SweepOK
<1>3. CASE UNCHANGED <<sw, req>>
  <2>1. ASSUME NEW t \in Sweeps PROVE SweepOK(t)'
    <3>1. UNCHANGED <<disksize, backing>> \/ sw[t].pc = "off"
      BY SetupWithoutSweep DEF NoReader
    <3> QED
      BY <1>0, <1>3, <3>1, SweepKept
  <2> QED
    BY <2>1
<1> QED
  BY <1>1, <1>2, <1>3, SweepSteps DEF SweepStep, Device

(* A slot is written back by a request that carries a block, and read back *)
(* from the block it has.                                                  *)
LEMMA HasBlockNext ==
    ASSUME ControlInv, [Next]_vars
    PROVE  HasBlock'
<1>0. HasBlock /\ TypeSlots /\ TypeUser /\ TypeSweeps
  BY TypeParts DEF ControlInv
<1> DEFINE WbOK(i) == slot[i].wb => slot[i].blk # 0
<1>s. ASSUME NEW i \in Index, SlotsKeptBut(i), WbOK(i)'
      PROVE  \A j \in Index : WbOK(j)'
  BY <1>0, <1>s DEF HasBlock, SlotsKeptBut
<1>w. \A i \in Index : WbOK(i)
  BY <1>0 DEF HasBlock
<1> USE DEF SlotTurns, FlagsTurn
<1>1. ASSUME NEW i \in Index, SlotFree(i) PROVE \A j \in Index : WbOK(j)'
  BY <1>0, <1>1, <1>s, SlotFreeEffect
<1>2. ASSUME NEW i \in Index, Accessed(i) PROVE \A j \in Index : WbOK(j)'
  BY <1>0, <1>2, <1>s, <1>w, AccessedEffect
<1>3. ASSUME NEW i \in Index, NEW v \in Vals, NEW k \in Kinds, Store(i, v, k)
      PROVE  \A j \in Index : WbOK(j)'
  BY <1>0, <1>3, <1>s, StoreEffect
<1>4. ASSUME NEW i \in Index, NEW b \in BOOLEAN, MarkIdle(i, b)
      PROVE  \A j \in Index : WbOK(j)'
  BY <1>0, <1>4, <1>s, <1>w, MarkIdleEffect
<1>5. ASSUME NEW i \in Index, NEW b \in BOOLEAN, Recompress(i, b)
      PROVE  \A j \in Index : WbOK(j)'
  BY <1>0, <1>5, <1>s, <1>w, RecompressEffect
<1>6. ASSUME slot' = [i \in Index |-> FreeSlot] PROVE \A j \in Index : WbOK(j)'
  BY <1>6, FreshTable
<1>7. ASSUME NEW s \in Sweeps, Mark(s) PROVE \A j \in Index : WbOK(j)'
  <2>1. sw[s].index \in Index
    BY <1>7, InTable DEF Mark, At
  <2>2. CASE slot' = slot
    BY <1>w, <2>2
  <2>3. CASE SlotsKeptBut(sw[s].index) /\ FlagsTurn(sw[s].index, TRUE, TRUE)
    BY <1>s, <1>w, <2>1, <2>3
  <2> QED
    BY <1>0, <1>7, <2>1, <2>2, <2>3, MarkSlot
<1>8. ASSUME NEW s \in Sweeps, ReadFails(s) PROVE \A j \in Index : WbOK(j)'
  <2>1. sw[s].index \in Index
    BY <1>8, InTable DEF ReadFails, At
  <2> QED
    BY <1>0, <1>8, <1>s, <1>w, <2>1, ReadFailsSlot
<1>9. ASSUME NEW s \in Sweeps, NEW r \in Reqs, UnmarkFailed(s, r)
      PROVE  \A j \in Index : WbOK(j)'
  <2>1. req[s][r].idx \in Index
    BY <1>9, InTable DEF UnmarkFailed
  <2> QED
    BY <1>0, <1>9, <1>s, <1>w, <2>1, UnmarkFailedSlot
<1>10. ASSUME NEW s \in Sweeps, NEW r \in Reqs, Complete(s, r)
       PROVE  \A j \in Index : WbOK(j)'
  <2>1. req[s][r].idx \in Index /\ req[s][r].blk \in Blocks
    BY <1>10, InTable DEF Complete
  <2>2. req[s][r].blk # 0
    BY <2>1 DEF Blocks
  <2> QED
    BY <1>0, <1>10, <1>s, <1>w, <2>1, <2>2, CompleteSlot
<1>11. \A j \in Index : WbOK(j)'
  <2>1. CASE UNCHANGED slot
    BY <1>w, <2>1
  <2> HIDE DEF WbOK
  <2> QED
    BY <1>1, <1>2, <1>3, <1>4, <1>5, <1>6, <1>7, <1>8, <1>9, <1>10, <2>1, SlotSteps
       DEF DisksizeStore, MetaFree
<1>12. (rd.pc = "bdev" => rd.blk # 0)'
  <2>r. rd \in ReadType
    BY <1>0 DEF TypeUser
  <2>1. ASSUME NEW i \in Index, BvecRead(i) PROVE (rd.pc = "bdev" => rd.blk # 0)'
    BY <1>w, <2>1 DEF BvecRead, NoRead
  <2>s. CASE ReadSlot
    <3>1. rd.idx \in Index
      BY <2>r DEF ReadType
    <3>2. slot[rd.idx].wb => slot[rd.idx].blk # 0
      BY <1>w, <3>1
    <3> QED
      BY <2>s, <2>r, <3>2 DEF ReadSlot, ReadType
  <2>2. CASE ReadBdev
    BY <2>2, <2>r DEF ReadBdev, ReadType
  <2>7. CASE Decompress
    <3>1. PICK v : rd' = [rd EXCEPT !.pc = "end", !.data = NoData, !.val = v]
      BY <2>7 DEF Decompress
    <3> QED
      BY <2>r, <3>1 DEF ReadType
  <2>3. CASE ReadBdevFails \/ ReadEnd
    BY <2>3 DEF ReadBdevFails, ReadEnd, NoRead
  <2>4. ASSUME UNCHANGED rd PROVE (rd.pc = "bdev" => rd.blk # 0)'
    BY <1>0, <2>4 DEF HasBlock
  <2>5. ASSUME NEW i \in Index, SlotFree(i) \/ \E v \in Vals, k \in Kinds : Store(i, v, k)
        PROVE  UNCHANGED rd
    BY <2>5 DEF SlotFree, Store
  <2>6. ASSUME MetaFree \/ \E n \in 1..MaxPages : DisksizeStore(n) PROVE UNCHANGED rd
    BY <2>6 DEF MetaFree, DisksizeStore
  <2> QED
    BY <2>1, <2>2, <2>3, <2>4, <2>5, <2>6, <2>7, <2>s, UserSteps
<1> QED
  BY <1>11, <1>12 DEF HasBlock

(* The invariant holds at first and is kept by every step.                 *)
LEMMA ControlInit == Init => ControlInv
<1> SUFFICES ASSUME Init PROVE ControlInv
  OBVIOUS
<1> USE ZramAssumption
<1>1. TypeDevice
  <2>1. 0 \in 0..MaxPages /\ BatchMax \in 1..BatchMax /\ "none" \in Stages
    BY DEF Stages
  <2> QED
    BY <2>1, Zenon DEF Init, TypeDevice
<1>2. TypeWear /\ TypeStats
  <2>1. 0 \in 0..Wrap - 1 /\ 0 \in Nat /\ 0 \in Int
    OBVIOUS
  <2> QED
    BY <2>1, Zenon DEF Init, TypeWear, TypeStats
<1>3. FreeSlot \in SlotType /\ NoData \in Data
  BY DEF FreeSlot, SlotType, NoData, Data
<1>4. TypeSlots /\ TypeBdev /\ TypeUser /\ TypeSweeps /\ TypeReqs
  BY <1>3, EmptyTypes DEF Init, TypeSlots, TypeBdev, TypeUser, TypeSweeps, TypeReqs
<1>5. DeviceOK
  BY DEF Init, DeviceOK
<1>6. HasBlock
  BY DEF Init, HasBlock, FreeSlot, NoRead
<1>7. ASSUME NEW s \in Sweeps PROVE SweepOK(s)
  <2>1. sw[s] = NoSweep /\ \A r \in Reqs : req[s][r] = NoReq
    BY DEF Init
  <2>2. HoldsOK(sw[s]) /\ LiveOK(sw[s]) /\ BoundOK(sw[s])
    BY <2>1 DEF HoldsOK, LiveOK, BoundOK, NoSweep
  <2>3. \A r \in Reqs : ReqOK(sw[s], r, req[s][r])
    BY <2>1 DEF ReqOK, NoSweep, NoReq, Reqs
  <2> QED
    BY <2>2, <2>3 DEF SweepOK
<1> QED
  BY <1>1, <1>2, <1>4, <1>5, <1>6, <1>7, TypeParts DEF ControlInv

(* Every step keeps the invariant of the control.                          *)
LEMMA ControlNext ==
    ASSUME OneSetup, ControlInv, [Next]_vars
    PROVE  ControlInv'
<1>1. TypeOK'
  BY TypeParts, TypeDeviceNext, TypeCountsNext, TypeSlotsNext, TypeBdevNext,
     TypeUserNext, TypeSweepsNext, TypeReqsNext, PTL
<1>2. DeviceOK' /\ HasBlock'
  BY DeviceNext, HasBlockNext
<1>3. \A s \in Sweeps : SweepOK(s)'
  BY SweepsNext
<1> QED
  BY <1>1, <1>2, <1>3 DEF ControlInv

(* The types hold in every state, and the invariant of the control with    *)
(* them: the batch size never leaves the bound of writeback_batch_size, a  *)
(* request never carries a slot past the table.                            *)
THEOREM ControlCorrect == ASSUME OneSetup PROVE Spec => []ControlInv
<1>1. ControlInv /\ [Next]_vars => ControlInv'
  BY ControlNext
<1> QED
  BY <1>1, ControlInit, PTL DEF Spec

(* Every variable has its type, whatever the interleaving.                 *)
THEOREM TypesCorrect == ASSUME OneSetup PROVE Spec => []TypeOK
<1>1. ControlInv => TypeOK
  BY DEF ControlInv
<1> QED
  BY <1>1, ControlCorrect, PTL

(* No reset or removal takes the table or the backing device from under a  *)
(* sweep or a bio in flight, and no sweep leaves the table: init_lock, the *)
(* claim of zram_reset_device() and the bound of writeback_store().        *)
THEOREM TableIsAlive == ASSUME OneSetup PROVE Spec => []TableAlive
<1>1. ControlInv => TableAlive
  <2> SUFFICES ASSUME ControlInv PROVE TableAlive
    OBVIOUS
  <2>1. disksize # 0 => table
    BY DEF ControlInv, DeviceOK
  <2>2. ASSUME NEW s \in Sweeps
        PROVE  /\ sw[s].pc # "off" \/ Inflight(s) # {} => table /\ backing
               /\ sw[s].pc \in {"mark", "read", "submit"} => sw[s].index < disksize
    <3>1. SweepOK(s)
      BY DEF ControlInv
    <3>2. Inflight(s) # {} => sw[s].pc # "off"
      BY <3>1 DEF Inflight, InState, SweepOK, ReqOK
    <3>3. sw[s].pc # "off" => disksize # 0 /\ backing
      BY <3>1 DEF SweepOK, LiveOK
    <3> QED
      BY <2>1, <3>2, <3>3, InTable
  <2> QED
    BY <2>1, <2>2 DEF TableAlive
<1> QED
  BY <1>1, ControlCorrect, PTL

(* A callback finds the control block although the sweep may have released *)
(* it (kfree_rcu()), and no bio is in flight without one.                  *)
THEOREM CtlIsAlive == ASSUME OneSetup PROVE Spec => []CtlAlive
<1>1. ControlInv => CtlAlive
  <2> SUFFICES ASSUME ControlInv, NEW s \in Sweeps
               PROVE  /\ sw[s].waking > 0 => sw[s].ctl # "none"
                      /\ Inflight(s) # {} => sw[s].ctl = "live"
    BY DEF CtlAlive
  <2>1. SweepOK(s)
    BY DEF ControlInv
  <2>2. Inflight(s) # {} => sw[s].pc # "off"
    BY <2>1 DEF Inflight, InState, SweepOK, ReqOK
  <2> QED
    BY <2>1, <2>2 DEF SweepOK, LiveOK
<1> QED
  BY <1>1, ControlCorrect, PTL

-----------------------------------------------------------------------------
(* The budget                                                              *)

(* Only one sweep runs at a time, and the budget is not changed under it.  *)
OneSweep == "sweep" \notin Overlap /\ "limit" \notin Overlap

(* A sweep that may come to submit without testing the limit again.        *)
MaySubmit(x) ==
    \/ x.pc \in {"select", "reserve", "mark", "read", "submit"}
    \/ x.pc \in {"wait", "asleep", "complete", "unmark"} /\ ~x.end

(* The limit is a whole number of pages and covers the page that a sweep   *)
(* may submit; every request on its way has been charged.                  *)
BudgetInv ==
    /\ limit % Unit = 0
    /\ budget < Wrap
    /\ \A s, t \in Sweeps : sw[s].pc # "off" /\ sw[t].pc # "off" => s = t
    /\ \A s \in Sweeps : MaySubmit(sw[s]) => (enable => limit > 0)
    /\ enable => Cardinality(Carried) <= written
    /\ WithinBudget

(* Multiples of a unit.                                                    *)
LEMMA Multiples ==
    ASSUME NEW u \in Nat \ {0}, NEW n \in Nat, n % u = 0
    PROVE  (n + u) % u = 0 /\ (n > 0 => n >= u /\ (n - u) % u = 0)
<1>1. PICK j \in Int : n = u * j
  OBVIOUS
<1>2. n + u = u * (j + 1) /\ n - u = u * (j - 1)
  BY <1>1
<1>3. \A k \in Int : (u * k) % u = 0
  OBVIOUS
<1>4. n > 0 => n >= u
  BY <1>1
<1> QED
  BY <1>2, <1>3, <1>4

(* A limit is rounded down to whole pages.                                 *)
LEMMA RoundDownWorks ==
    ASSUME NEW v \in Limits
    PROVE  RoundDown(v) \in 0..v /\ RoundDown(v) % Unit = 0
<1> USE ZramAssumption
<1>1. v \in Nat /\ Unit \in Nat \ {0}
  OBVIOUS
<1>2. v % Unit \in 0..v
  BY <1>1
<1>3. v - (v % Unit) = Unit * (v \div Unit)
  BY <1>1
<1>4. (Unit * (v \div Unit)) % Unit = 0
  BY <1>1
<1> QED
  BY <1>1, <1>2, <1>3, <1>4 DEF RoundDown

(* The requests on their way are finitely many, and change with the one    *)
(* request that a step is about.                                           *)
LEMMA CarriedFinite ==
    IsFiniteSet(Carried) /\ Cardinality(Carried) \in Nat
<1>1. IsFiniteSet(Sweeps) /\ IsFiniteSet(Reqs)
  BY ZramAssumption, FS_Interval DEF Reqs
<1>2. IsFiniteSet(Sweeps \X Reqs)
  BY <1>1, FS_Product
<1>3. Carried \in SUBSET (Sweeps \X Reqs)
  BY DEF Carried
<1> QED
  BY <1>2, <1>3, FS_Subset, FS_CardinalityType

OnItsWay(s, r) == req[s][r].st \in {"flight", "done"}

(* A step about one request changes at most that one being on its way.     *)
LEMMA CarriedTurns ==
    ASSUME NEW s \in Sweeps, NEW r \in Reqs, OthersKept(s), ReqsKeptBut(s, r)
    PROVE  Carried' = IF OnItsWay(s, r)' THEN Carried \cup {<<s, r>>}
                                         ELSE Carried \ {<<s, r>>}
<1>1. ASSUME NEW t \in Sweeps, NEW q \in Reqs, <<t, q>> # <<s, r>>
      PROVE  req'[t][q] = req[t][q]
  <2>1. CASE t # s
    BY <2>1 DEF OthersKept
  <2>2. CASE t = s /\ q # r
    BY <2>2 DEF ReqsKeptBut
  <2> QED
    BY <1>1, <2>1, <2>2
<1>2. Carried' = {c \in Sweeps \X Reqs : req'[c[1]][c[2]].st \in {"flight", "done"}}
  BY DEF Carried
<1>3. ASSUME NEW c \in Sweeps \X Reqs, c # <<s, r>> PROVE c \in Carried' <=> c \in Carried
  BY <1>1, <1>2, <1>3 DEF Carried
<1>4. <<s, r>> \in Carried' <=> OnItsWay(s, r)'
  BY <1>2 DEF OnItsWay
<1>5. Carried \subseteq Sweeps \X Reqs /\ Carried' \subseteq Sweeps \X Reqs
  BY <1>2 DEF Carried
<1> QED
  BY <1>3, <1>4, <1>5

(* A step after which the same requests of the sweep are on their way      *)
(* changes none of another.                                                *)
LEMMA CarriedKept ==
    ASSUME NEW s \in Sweeps, OthersKept(s),
           \A r \in Reqs : OnItsWay(s, r)' <=> OnItsWay(s, r)
    PROVE  Carried' = Carried
<1>1. \A c \in Sweeps \X Reqs :
         req'[c[1]][c[2]].st \in {"flight", "done"}
           <=> req[c[1]][c[2]].st \in {"flight", "done"}
  BY DEF OthersKept, OnItsWay
<1> QED
  BY <1>1 DEF Carried

(* A sweep comes to submit only by way of the test of the limit.           *)
LEMMA MayStillSubmit ==
    ASSUME ControlInv, NEW s \in Sweeps, SweepStep(s) \/ Device(s)
    PROVE  /\ sw'[s].pc # "off" => sw[s].pc # "off"
           /\ MaySubmit(sw'[s]) =>
                 MaySubmit(sw[s]) \/ (LimitCheck(s) /\ ~(enable /\ limit = 0))
<1>0. TypeSweeps /\ TypeReqs /\ TypeBdev /\ BoundOK(sw[s]) /\ HoldsOK(sw[s])
  BY TypeParts DEF ControlInv, SweepOK
<1>h. sw[s].pc \in {"mark", "read", "submit"} => sw[s].held \in Reqs
  BY InTable
<1> DEFINE G == /\ sw'[s].pc # "off" => sw[s].pc # "off"
                /\ MaySubmit(sw'[s]) =>
                      MaySubmit(sw[s]) \/ (LimitCheck(s) /\ ~(enable /\ limit = 0))
<1> USE <1>0, <1>h DEF At, SweepTurns, SweepMoves, MaySubmit, BoundOK
<1>1. ASSUME LimitCheck(s) PROVE G
  BY <1>1, LimitCheckEffect
<1>2. ASSUME SelectIdleReq(s) PROVE G
  BY <1>2, SelectEffect
<1>3. ASSUME Reserve(s) PROVE G
  BY <1>3, ReserveEffect DEF TypeBdev
<1>4. ASSUME Mark(s) PROVE G
  <2>1. sw[s].held \in Reqs
    BY <1>4 DEF Mark
  <2> QED
    BY <1>4, <2>1, MarkEffect
<1>5. ASSUME Read(s) PROVE G
  <2>1. sw[s].held \in Reqs
    BY <1>5 DEF Read
  <2> QED
    BY <1>5, <2>1, ReadEffect
<1>6. ASSUME ReadFails(s) PROVE G
  BY <1>6, ReadFailsEffect
<1>7. ASSUME Submit(s) PROVE G
  <2>1. sw[s].held \in Reqs
    BY <1>7 DEF Submit
  <2> QED
    BY <1>7, <2>1, SubmitEffect
<1>8. ASSUME WaitDone(s) PROVE G
  BY <1>8, WaitDoneEffect
<1>9. ASSUME CompleteNone(s) PROVE G
  BY <1>9, CompleteNoneEffect
<1>10. ASSUME Tail(s) PROVE G
  BY <1>10, TailEffect
<1>11. ASSUME Drain(s) PROVE G
  BY <1>11, DrainEffect
<1>12. ASSUME NEW r \in Reqs, Complete(s, r) PROVE G
  BY <1>12, CompleteEffect
<1>13. ASSUME NEW r \in Reqs, CompleteError(s, r) PROVE G
  BY <1>13, CompleteErrorEffect
<1>14. ASSUME NEW r \in Reqs, UnmarkFailed(s, r) PROVE G
  BY <1>14, UnmarkFailedEffect
<1>15. ASSUME EndioWake(s) PROVE G
  BY <1>15, EndioWakeEffect DEF WokenBy
<1>16. ASSUME RcuFree(s) PROVE G
  BY <1>16, RcuFreeEffect
<1>17. ASSUME NEW r \in Reqs, NEW err \in BOOLEAN, Endio(s, r, err) PROVE G
  BY <1>17, EndioEffect
<1> HIDE DEF G
<1>18. G
  BY <1>1, <1>2, <1>3, <1>4, <1>5, <1>6, <1>7, <1>8, <1>9, <1>10, <1>11, <1>12,
     <1>13, <1>14, <1>15, <1>16, <1>17 DEF SweepStep, Device
<1> QED
  BY <1>18 DEF G

Quiet(s) ==
    \/ LimitCheck(s) \/ SelectIdleReq(s) \/ Reserve(s) \/ Mark(s) \/ Read(s)
    \/ ReadFails(s) \/ WaitDone(s) \/ CompleteNone(s) \/ Tail(s) \/ Drain(s)
    \/ \E r \in Reqs : UnmarkFailed(s, r)
    \/ EndioWake(s) \/ RcuFree(s)
    \/ \E r \in Reqs, err \in BOOLEAN : Endio(s, r, err)

(* Submitting puts a request on its way, a completion takes it back; no    *)
(* other step changes which requests are on their way, or the budget.      *)
LEMMA CarriedQuiet ==
    ASSUME ControlInv, NEW s \in Sweeps, Quiet(s)
    PROVE  Carried' = Carried /\ UNCHANGED <<enable, limit, budget, written>>
<1>0. /\ TypeSweeps /\ TypeReqs /\ TypeBdev /\ HoldsOK(sw[s])
      /\ \A r \in Reqs : ReqOK(sw[s], r, req[s][r])
  BY TypeParts DEF ControlInv, SweepOK
<1>h. sw[s].pc \in {"mark", "read", "submit"} => sw[s].held \in Reqs
  BY InTable
<1>w. UNCHANGED <<enable, limit, budget, written>>
  BY DEF Quiet, LimitCheck, SelectIdleReq, Reserve, Mark, Read, ReadFails, WaitDone,
     CompleteNone, Tail, Drain, UnmarkFailed, EndioWake, RcuFree, Endio, wear
<1>o. OthersKept(s)
  BY OwnControl DEF Quiet, SweepStep, Device
<1> DEFINE Same == \A q \in Reqs : OnItsWay(s, q)' <=> OnItsWay(s, q)
<1> USE <1>0, <1>h DEF At, ReqTurns, ReqsKeptBut, OnItsWay
<1>1. ASSUME req' = req PROVE Same
  BY <1>1
<1>2. ASSUME LimitCheck(s) \/ Reserve(s) \/ ReadFails(s) \/ WaitDone(s)
             \/ CompleteNone(s) \/ EndioWake(s) \/ RcuFree(s)
      PROVE  Same
  BY <1>1, <1>2 DEF LimitCheck, Reserve, ReadFails, WaitDone, CompleteNone, EndioWake,
     RcuFree
<1>3. ASSUME SelectIdleReq(s) PROVE Same
  BY <1>3, SelectEffect
<1>4. ASSUME Mark(s) PROVE Same
  <2>1. sw[s].held \in Reqs
    BY <1>4 DEF Mark
  <2> QED
    BY <1>4, <2>1, MarkEffect
<1>5. ASSUME Read(s) PROVE Same
  <2>1. sw[s].held \in Reqs
    BY <1>5 DEF Read
  <2> QED
    BY <1>5, <2>1, ReadEffect
<1>6. ASSUME Tail(s) PROVE Same
  <2>1. ASSUME NEW q \in Reqs PROVE OnItsWay(s, q)' <=> OnItsWay(s, q)
    <3>1. CASE q # sw[s].held
      BY <1>6, <3>1, TailEffect
    <3>2. CASE q = sw[s].held
      BY <1>6, <3>2, TailEffect DEF ReqOK
    <3> QED
      BY <3>1, <3>2
  <2> QED
    BY <2>1
<1>7. ASSUME Drain(s) PROVE Same
  <2>1. ASSUME NEW q \in Reqs PROVE OnItsWay(s, q)' <=> OnItsWay(s, q)
    <3>1. \/ req' = req
          \/ /\ req[s][q].st \notin {"flight", "done", "failed"}
             /\ req'[s][q] = IF req[s][q].st = "idle" THEN NoReq ELSE req[s][q]
      BY <1>7, DrainEffect
    <3>2. NoReq.st = "none"
      BY DEF NoReq
    <3> QED
      BY <3>1, <3>2
  <2> QED
    BY <2>1
<1>8. ASSUME NEW r \in Reqs, UnmarkFailed(s, r) PROVE Same
  BY <1>8, UnmarkFailedEffect
<1>9. ASSUME NEW r \in Reqs, NEW err \in BOOLEAN, Endio(s, r, err) PROVE Same
  BY <1>9, EndioEffect
<1> HIDE DEF Same
<1>10. Same
  BY <1>2, <1>3, <1>4, <1>5, <1>6, <1>7, <1>8, <1>9 DEF Quiet
<1> QED
  BY <1>10, <1>o, <1>w, CarriedKept DEF Same

(* ... Submit() for the request that it holds, ...                         *)
LEMMA CarriedSubmit ==
    ASSUME ControlInv, NEW s \in Sweeps, Submit(s)
    PROVE  \E r \in Reqs : <<s, r>> \notin Carried /\ Carried' = Carried \cup {<<s, r>>}
<1>0. TypeSweeps /\ TypeReqs /\ SweepOK(s)
  BY TypeParts DEF ControlInv
<1>1. sw[s].held \in Reqs
  BY InTable DEF Submit, At
<1>2. PICK h \in Reqs : h = sw[s].held
  BY <1>1
<1>3. OthersKept(s) /\ ReqsKeptBut(s, h) /\ req'[s][h].st = "flight"
  BY <1>0, <1>2, SubmitEffect DEF ReqTurns
<1>4. OnItsWay(s, h)'
  BY <1>3 DEF OnItsWay
<1>5. req[s][h].st = "held"
  BY <1>0, <1>2 DEF SweepOK, ReqOK
<1>6. <<s, h>> \notin Carried
  BY <1>5 DEF Carried
<1> QED
  BY <1>3, <1>4, <1>6, CarriedTurns

(* ... and a completion for the request that it takes from the list.       *)
LEMMA CarriedDone ==
    ASSUME ControlInv, NEW s \in Sweeps, NEW r \in Reqs,
           Complete(s, r) \/ CompleteError(s, r)
    PROVE  <<s, r>> \in Carried /\ Carried' = Carried \ {<<s, r>>}
<1>0. TypeSweeps /\ TypeReqs
  BY TypeParts DEF ControlInv
<1>1. OthersKept(s) /\ ReqsKeptBut(s, r) /\ ~OnItsWay(s, r)' /\ req[s][r].st = "done"
  BY <1>0, CompleteEffect, CompleteErrorEffect DEF ReqTurns, OnItsWay
<1>2. <<s, r>> \in Carried
  BY <1>1 DEF Carried
<1> QED
  BY <1>1, <1>2, CarriedTurns

(* Without a sweep nothing is on its way.                                  *)
LEMMA CarriedNone ==
    ASSUME ControlInv, NoReader
    PROVE  Carried = {}
<1>1. \A s \in Sweeps, r \in Reqs : req[s][r].st = "none"
  BY DEF ControlInv, NoReader, SweepOK, ReqOK
<1> QED
  BY <1>1 DEF Carried

(* Charging a page that the limit covers, and taking back one that was     *)
(* charged, stays within the word.                                         *)
LEMMA ChargeWorks ==
    ASSUME TypeWear, limit % Unit = 0, limit > 0, enable
    PROVE  Charged = limit - Unit /\ Charged % Unit = 0
<1> USE ZramAssumption
<1>0. limit \in Nat /\ Unit \in Nat \ {0}
  BY DEF TypeWear
<1>1. limit >= Unit /\ (limit - Unit) % Unit = 0
  BY <1>0, Multiples
<1>2. (limit - Unit) % Wrap = limit - Unit
  BY <1>1 DEF TypeWear
<1> QED
  BY <1>1, <1>2 DEF Charged

(* See above: the page taken back was charged to the budget.               *)
LEMMA RefundWorks ==
    ASSUME TypeWear, limit % Unit = 0, enable, WithinBudget, budget < Wrap, written >= 1
    PROVE  Refunded = limit + Unit /\ Refunded % Unit = 0
<1> USE ZramAssumption
<1>1. Unit * written \in Int /\ Unit * written >= Unit
  BY DEF TypeWear
<1>2. limit + Unit < Wrap /\ limit + Unit \in Nat
  BY <1>1 DEF TypeWear, WithinBudget
<1>3. (limit + Unit) % Wrap = limit + Unit
  BY <1>2
<1>4. (limit + Unit) % Unit = 0
  <2>1. limit \in Nat /\ Unit \in Nat \ {0}
    BY DEF TypeWear
  <2> QED
    BY <2>1, Multiples
<1> QED
  BY <1>3, <1>4 DEF Refunded

(* The budget's invariant is kept by every step.                           *)
LEMMA BudgetNext ==
    ASSUME OneSetup, OneSweep, ControlInv, BudgetInv, [Next]_vars
    PROVE  BudgetInv'
<1> USE ZramAssumption
<1>0. TypeSweeps /\ TypeReqs /\ TypeWear /\ DeviceOK
  BY TypeParts DEF ControlInv
<1>t. /\ limit \in Nat /\ limit < Wrap /\ budget \in Nat /\ written \in Int
      /\ Cardinality(Carried) \in Nat /\ Unit \in Nat \ {0}
      /\ Unit * written \in Int
  BY <1>0, CarriedFinite DEF TypeWear
<1> DEFINE OneRuns == \A s, t \in Sweeps : sw[s].pc # "off" /\ sw[t].pc # "off" => s = t
           Covered == \A s \in Sweeps : MaySubmit(sw[s]) => (enable => limit > 0)
<1>b. /\ limit % Unit = 0 /\ budget < Wrap /\ OneRuns /\ Covered
      /\ enable => Cardinality(Carried) <= written
      /\ enable => Unit * written + limit <= budget
  BY DEF BudgetInv, WithinBudget
<1>g. ASSUME limit' % Unit = 0, budget' < Wrap, OneRuns', Covered',
             enable' => Cardinality(Carried') <= written',
             enable' => Unit * written' + limit' <= budget'
      PROVE  BudgetInv'
  BY <1>g DEF BudgetInv, WithinBudget
<1>r. ASSUME NEW s \in Sweeps, SweepStep(s) \/ Device(s)
      PROVE  /\ OthersKept(s) /\ OneRuns'
             /\ MaySubmit(sw'[s]) => MaySubmit(sw[s]) \/ ~(enable /\ limit = 0)
  BY <1>b, <1>r, MayStillSubmit, OwnControl DEF OthersKept
<1> HIDE DEF OneRuns
<1>1. ASSUME NEW s \in Sweeps, Quiet(s) PROVE BudgetInv'
  <2>1. Carried' = Carried /\ UNCHANGED <<enable, limit, budget, written>>
    BY <1>1, CarriedQuiet
  <2>2. /\ OthersKept(s) /\ OneRuns'
        /\ MaySubmit(sw'[s]) => MaySubmit(sw[s]) \/ ~(enable /\ limit = 0)
    BY <1>1, <1>r DEF Quiet, SweepStep, Device
  <2>3. Covered'
    BY <1>t, <1>b, <2>1, <2>2 DEF OthersKept
  <2> HIDE DEF Covered
  <2> QED
    BY <1>b, <1>g, <2>1, <2>2, <2>3
<1>2. ASSUME NEW s \in Sweeps, Submit(s) PROVE BudgetInv'
  <2>1. OthersKept(s) /\ OneRuns'
    BY <1>2, <1>r DEF SweepStep
  <2>2. /\ UNCHANGED <<enable, budget>> /\ limit' = Charged
        /\ written' = written + If1(enable) /\ sw[s].pc = "submit"
    BY <1>2 DEF Submit, At
  <2>3. PICK r \in Reqs : <<s, r>> \notin Carried /\ Carried' = Carried \cup {<<s, r>>}
    BY <1>2, CarriedSubmit
  <2>4. Cardinality(Carried') = Cardinality(Carried) + 1
    BY <2>3, CarriedFinite, FS_AddElement
  <2>5. sw'[s].pc = "top"
    <3>1. sw[s].held \in Reqs
      BY <1>2, InTable DEF Submit, At
    <3> QED
      BY <1>0, <1>2, <3>1, SubmitEffect DEF SweepTurns
  <2>6. Covered'
    BY <1>b, <2>1, <2>2, <2>5 DEF OthersKept, MaySubmit, OneRuns
  <2>7. enable => limit > 0
    BY <1>b, <2>2 DEF MaySubmit
  <2> HIDE DEF Covered
  <2>8. CASE enable
    <3>1. limit' = limit - Unit /\ limit' % Unit = 0
      BY <1>0, <1>b, <2>2, <2>7, <2>8, ChargeWorks
    <3>2. written' = written + 1
      BY <2>2, <2>8 DEF If1
    <3>3. Unit * written' = Unit * written + Unit
      BY <1>t, <3>2
    <3>4. Unit * written' + limit' <= budget
      BY <1>t, <1>b, <2>8, <3>1, <3>3
    <3>5. Cardinality(Carried') <= written'
      BY <1>t, <1>b, <2>4, <2>8, <3>2
    <3> QED
      BY <1>b, <1>g, <2>1, <2>2, <2>6, <3>1, <3>4, <3>5
  <2>9. CASE ~enable
    BY <1>b, <1>g, <2>1, <2>2, <2>6, <2>9 DEF Charged
  <2> QED
    BY <2>8, <2>9
<1>3. ASSUME NEW s \in Sweeps, NEW r \in Reqs, Complete(s, r) PROVE BudgetInv'
  <2>1. OthersKept(s) /\ OneRuns'
    BY <1>3, <1>r DEF SweepStep
  <2>2. UNCHANGED <<enable, limit, budget, written>> /\ sw' = sw
    BY <1>3 DEF Complete, wear
  <2>3. Covered'
    BY <1>b, <2>2
  <2> HIDE DEF Covered
  <2>4. <<s, r>> \in Carried /\ Carried' = Carried \ {<<s, r>>}
    BY <1>3, CarriedDone
  <2>5. Cardinality(Carried') = Cardinality(Carried) - 1
    BY <2>4, CarriedFinite, FS_RemoveElement
  <2>6. enable => Cardinality(Carried') <= written
    BY <1>t, <1>b, <2>5
  <2> QED
    BY <1>b, <1>g, <2>1, <2>2, <2>3, <2>6
<1>4. ASSUME NEW s \in Sweeps, NEW r \in Reqs, CompleteError(s, r) PROVE BudgetInv'
  <2>1. /\ OthersKept(s) /\ OneRuns'
        /\ MaySubmit(sw'[s]) => MaySubmit(sw[s]) \/ ~(enable /\ limit = 0)
    BY <1>4, <1>r DEF SweepStep
  <2>2. /\ UNCHANGED <<enable, budget>> /\ limit' = Refunded
        /\ written' = written - If1(enable)
    BY <1>4 DEF CompleteError
  <2>4. <<s, r>> \in Carried /\ Carried' = Carried \ {<<s, r>>}
    BY <1>4, CarriedDone
  <2>5. Cardinality(Carried') = Cardinality(Carried) - 1 /\ Cardinality(Carried') \in Nat
    BY <2>4, CarriedFinite, FS_RemoveElement, FS_CardinalityType
  <2>6. CASE enable
    <3>1. written >= 1
      BY <1>t, <1>b, <2>5, <2>6
    <3>2. limit' = limit + Unit /\ limit' % Unit = 0
      BY <1>0, <1>b, <2>2, <2>6, <3>1, RefundWorks DEF WithinBudget
    <3>3. written' = written - 1
      BY <2>2, <2>6 DEF If1
    <3>4. Unit * written' = Unit * written - Unit
      BY <1>t, <3>3
    <3>5. Unit * written' + limit' <= budget
      BY <1>t, <1>b, <2>6, <3>2, <3>4
    <3>6. Cardinality(Carried') <= written'
      BY <1>t, <1>b, <2>5, <2>6, <3>3
    <3>7. Covered'
      BY <1>t, <3>2
    <3> HIDE DEF Covered
    <3> QED
      BY <1>b, <1>g, <2>1, <2>2, <3>2, <3>5, <3>6, <3>7
  <2>7. CASE ~enable
    BY <1>b, <1>g, <2>1, <2>2, <2>7 DEF Refunded
  <2> QED
    BY <2>6, <2>7
<1>5. ASSUME NEW s \in Sweeps, NEW m \in Modes, NEW i \in Index, NEW n \in Reqs,
             Start(s, m, i, n)
      PROVE  BudgetInv'
  <2>1. NoReader /\ UNCHANGED <<enable, limit, budget, written>>
    BY <1>5 DEF Start, Admin, OneSweep, wear
  <2>2. Carried = {}
    BY <2>1, CarriedNone
  <2>3. /\ OthersKept(s) /\ sw'[s].pc = "top"
        /\ \A r \in Reqs : req'[s][r] = IF r <= n THEN IdleReq ELSE NoReq
    BY <1>0, <1>5, StartEffect DEF Starts, SweepTurns
  <2>4. OneRuns' /\ Covered'
    BY <2>1, <2>3 DEF OthersKept, NoReader, MaySubmit, OneRuns
  <2>5. Carried' = Carried
    <3>1. NoReq.st = "none" /\ IdleReq.st = "idle"
      BY DEF NoReq, IdleReq
    <3>2. \A q \in Reqs : ~OnItsWay(s, q)'
      BY <2>3, <3>1 DEF OnItsWay
    <3>3. \A q \in Reqs : ~OnItsWay(s, q)
      <4>1. \A q \in Reqs : <<s, q>> \notin Carried
        BY <2>2
      <4> QED
        BY <4>1 DEF OnItsWay, Carried
    <3> QED
      BY <2>3, <3>2, <3>3, CarriedKept
  <2> HIDE DEF Covered
  <2> QED
    BY <1>b, <1>g, <2>1, <2>4, <2>5
<1>6. ASSUME UNCHANGED <<sw, req>> PROVE BudgetInv'
  <2>1. OneRuns' /\ Carried' = Carried
    BY <1>6, <1>b DEF OneRuns, Carried
  <2>2. ASSUME UNCHANGED wear PROVE BudgetInv'
    <3>1. UNCHANGED <<enable, limit, budget, written>>
      BY <2>2 DEF wear
    <3>2. Covered'
      BY <1>6, <1>b, <3>1
    <3> HIDE DEF Covered
    <3> QED
      BY <1>b, <1>g, <2>1, <3>1, <3>2
  <2>3. ASSUME NoReader PROVE Covered' /\ Cardinality(Carried') = 0
    <3>1. Carried = {}
      BY <2>3, CarriedNone
    <3> QED
      BY <1>6, <2>1, <2>3, <3>1, FS_EmptySet DEF NoReader, MaySubmit
  <2>4. ASSUME NEW v \in Limits, LimitStore(v) PROVE BudgetInv'
    <3>1. /\ NoReader /\ limit' = RoundDown(v) /\ budget' = v /\ written' = 0
      BY <2>4 DEF LimitStore, Admin, OneSweep
    <3>2. RoundDown(v) \in 0..v /\ RoundDown(v) % Unit = 0 /\ v < Wrap /\ v \in Nat
      BY RoundDownWorks
    <3>3. Unit * written' + limit' <= budget'
      BY <1>t, <3>1, <3>2
    <3>4. Covered' /\ Cardinality(Carried') <= written'
      BY <2>3, <3>1
    <3> HIDE DEF Covered
    <3> QED
      BY <1>g, <2>1, <3>1, <3>2, <3>3, <3>4
  <2>5. ASSUME LimitEnableStore PROVE BudgetInv'
    <3>1. NoReader /\ limit' = limit /\ budget' = limit /\ written' = 0
      BY <2>5 DEF LimitEnableStore, Admin, OneSweep
    <3>3. Unit * written' + limit' <= budget'
      BY <1>t, <3>1
    <3>4. Covered' /\ Cardinality(Carried') <= written'
      BY <2>3, <3>1
    <3> HIDE DEF Covered
    <3> QED
      BY <1>b, <1>g, <1>t, <2>1, <3>1, <3>3, <3>4
  <2>6. ASSUME ZramAdd PROVE BudgetInv'
    <3>1. ~enable' /\ limit' = 0 /\ budget' = 0
      BY <2>6 DEF ZramAdd
    <3>2. limit' % Unit = 0 /\ budget' < Wrap
      BY <1>t, <3>1
    <3>3. Covered'
      BY <3>1
    <3> HIDE DEF Covered
    <3> QED
      BY <1>g, <2>1, <3>1, <3>2, <3>3
  <2>7. \/ UNCHANGED wear
        \/ \E v \in Limits : LimitStore(v)
        \/ LimitEnableStore \/ ZramAdd
        \/ \E s \in Sweeps : Submit(s)
        \/ \E s \in Sweeps, r \in Reqs : CompleteError(s, r)
    <3>1. ASSUME MetaFree PROVE UNCHANGED wear
      BY <3>1 DEF MetaFree
    <3>2. ASSUME NEW s \in Sweeps, NEW r \in Reqs, Complete(s, r) PROVE UNCHANGED wear
      BY <3>2 DEF Complete
    <3>3. ASSUME NEW i \in Index, SlotFree(i) PROVE UNCHANGED wear
      BY <3>3 DEF SlotFree
    <3>4. ASSUME NEW i \in Index, NEW v \in Vals, NEW k \in Kinds, Store(i, v, k)
          PROVE UNCHANGED wear
      BY <3>4 DEF Store
    <3>5. ASSUME NEW i \in Index, NEW c \in BOOLEAN, Recompress(i, c)
          PROVE UNCHANGED wear
      BY <3>5 DEF Recompress
    <3> QED
      BY <3>1, <3>2, <3>3, <3>4, <3>5, CountSteps
  <2> QED
    BY <1>2, <1>4, <2>2, <2>4, <2>5, <2>6, <2>7
<1> QED
  BY <1>1, <1>2, <1>3, <1>4, <1>5, <1>6, SweepSteps DEF Quiet

(* A fresh device has no budget and no sweep.                              *)
LEMMA BudgetInit == Init => BudgetInv
<1> SUFFICES ASSUME Init PROVE BudgetInv
  OBVIOUS
<1> USE ZramAssumption
<1>1. ~enable /\ limit = 0 /\ budget = 0
  BY DEF Init
<1>2. limit % Unit = 0 /\ budget < Wrap
  BY <1>1
<1>3. \A s \in Sweeps : sw[s].pc = "off"
  BY DEF Init, NoSweep
<1> QED
  BY <1>1, <1>2, <1>3 DEF BudgetInv, WithinBudget, MaySubmit

(* zram_account_writeback_submit() and _rollback(): with one sweep at a    *)
(* time, under which nobody stores a new limit, what has been written      *)
(* since the limit was stored and what may still be written never exceed   *)
(* it, however many bios are on their way and whichever of them fail.  The *)
(* invariant needs that every request on its way has been charged (so that *)
(* taking one back cannot wrap around) and that a sweep on its way to      *)
(* submit has found a limit that still covers the page.                    *)
THEOREM BudgetIsKept == ASSUME OneSetup, OneSweep PROVE Spec => []WithinBudget
<1>1. ControlInv /\ BudgetInv /\ [Next]_vars => BudgetInv'
  BY BudgetNext
<1>2. BudgetInv => WithinBudget
  BY DEF BudgetInv
<1> QED
  BY <1>1, <1>2, BudgetInit, ControlCorrect, PTL DEF Spec

=============================================================================
