-------------------------------- MODULE Eevdf --------------------------------
(***************************************************************************)
(* The EEVDF scheduler grafted onto the 5.15 fair class: one cfs_rq, its   *)
(* entities, and the places where they join, leave, run, yield and change  *)
(* weight.  Source: scripts/batch15_perf_eevdf.py; what the 5.15 functions *)
(* do around the grafted lines is external.                                *)
(*                                                                         *)
(* Every action is one critical section under rq->lock, written as a       *)
(* composition of functions from run queue to run queue, one for each      *)
(* function of the code.  Virtual times are integers: u64 differences are  *)
(* taken as s64 in the code, and a negative value is a u64 before the      *)
(* clock passes zero (init_cfs_rq() starts min_vruntime below it).         *)
(***************************************************************************)
EXTENDS Integers, FiniteSetsExt

CONSTANTS
    Entities, None,
    Weights,     \* scale_load_down(se->load.weight)
    Nice0,       \* NICE_0_LOAD, in the same unit
    MinGran,     \* sysctl_sched_min_granularity
    Requests,    \* sched_setattr(sched_runtime) after its clamp; 0 for none
    TickNsec, Thresh,  \* TICK_NSEC; the sleeper credit of 5.15
    Below,       \* how far below zero min_vruntime of a new run queue starts
    Deltas,      \* execution time between two updates of the clock
    Horizon,     \* bound: the virtual time up to which the run queue is followed
    MaxMoves     \* bound: times an entity comes back or is changed

ASSUME EevdfAssumption ==
    /\ None \notin Entities /\ IsFiniteSet(Entities)
    /\ Weights \subseteq Nat \ {0} /\ Nice0 \in Nat \ {0} /\ MinGran \in Nat \ {0}
    /\ Requests \subseteq Nat /\ TickNsec \in Nat /\ Thresh \in Nat /\ Below \in Nat
    /\ Deltas \subseteq Nat /\ Horizon \in Int /\ MaxMoves \in Nat

VARIABLES
    q,           \* the cfs_rq and its entities
    moves        \* bounded by MaxMoves
vars == <<q, moves>>

NoTag == -1  \* ABK_EEVDF_REL_DEADLINE_BIT is clear

(* A task before its fork; struct sched_entity as the graft reads it.      *)
(* fresh, for the properties only: forked, and not run or placed since.    *)
Unborn == [vr |-> 0, dl |-> 0, rel |-> NoTag, vlag |-> 0, slice |-> 0,
           w |-> Nice0, st |-> "unborn", fresh |-> FALSE]

Init ==
    /\ moves = 0
    /\ q = [se |-> [e \in Entities |-> Unborn], min |-> -Below, sum |-> 0, load |-> 0,
            pick |-> 0, curr |-> None, next |-> None, skip |-> None, resched |-> FALSE]

Runnable(Q) == {e \in Entities : Q.se[e].st = "rq"}       \* se->on_rq
Tree(Q)     == Runnable(Q) \ {Q.curr}                     \* tasks_timeline
Put(Q, e, s) == [Q EXCEPT !.se[e] = s]

-----------------------------------------------------------------------------
(* Virtual time                                                            *)

(* div_s64() truncates.                                                    *)
DivS64(a, b) == IF a >= 0 THEN a \div b ELSE -((-a) \div b)

abk_entity_key(Q, e) == Q.se[e].vr - Q.min

abk_avg_vruntime_none(Q, delta) == Q                            \* mutant
abk_avg_vruntime_update(Q, delta) == [Q EXCEPT !.sum = @ - Q.load * delta]

abk_avg_vruntime_add(Q, e) ==
    [Q EXCEPT !.sum = @ + abk_entity_key(Q, e) * Q.se[e].w, !.load = @ + Q.se[e].w]
abk_avg_vruntime_sub(Q, e) ==
    [Q EXCEPT !.sum = @ - abk_entity_key(Q, e) * Q.se[e].w, !.load = @ - Q.se[e].w]

(* min_vruntime follows the leftmost runnable entity, never backwards, and *)
(* the sum is re-based when it moves.                                      *)
update_min_vruntime(Q) ==
    LET vr == {Q.se[e].vr : e \in Runnable(Q)}
        new == IF vr = {} THEN Q.min ELSE Max({Q.min, Min(vr)})
    IN [abk_avg_vruntime_update(Q, new - Q.min) EXCEPT !.min = new]

calc_delta_fair(delta, s) == (delta * Nice0) \div s.w
abk_eevdf_slice(s) == IF s.slice = 0 THEN MinGran ELSE s.slice
abk_eevdf_vslice(s) == Max({calc_delta_fair(abk_eevdf_slice(s), s), 1})

(* The weighted average, rounded to the left whatever its sign.            *)
avg_vruntime(Q) ==
    LET runs == Q.curr \in Runnable(Q)
        avg  == Q.sum + (IF runs THEN abk_entity_key(Q, Q.curr) * Q.se[Q.curr].w ELSE 0)
        load == Q.load + (IF runs THEN Q.se[Q.curr].w ELSE 0)
    IN Q.min + (IF load = 0 THEN avg
                ELSE DivS64(IF avg < 0 THEN avg - (load - 1) ELSE avg, load))

abk_eevdf_eligible(Q, e, avruntime) == avruntime - Q.se[e].vr >= 0

abk_eevdf_entity_before(Q, a, b) ==
    LET s == Q.se[a]
        t == Q.se[b]
    IN IF s.dl = t.dl THEN s.vr - t.vr < 0 ELSE s.dl - t.dl < 0

-----------------------------------------------------------------------------
(* Lag and request                                                         *)

clamp(v, limit) == Max({-limit, Min({v, limit})})
abk_eevdf_lag_limit(s) ==
    Max({calc_delta_fair(Max({2 * abk_eevdf_slice(s), TickNsec}), s), 1})

abk_eevdf_update_lag(Q, e) ==
    [Q EXCEPT !.se[e].vlag =
        clamp(avg_vruntime(Q) - Q.se[e].vr, abk_eevdf_lag_limit(Q.se[e]))]

abk_eevdf_preserved_lag(Q, e) ==
    LET s == Q.se[e]
        lag == clamp(s.vlag, abk_eevdf_lag_limit(s))
    IN IF Q.load = 0 THEN lag ELSE DivS64(lag * (Q.load + s.w), Q.load)

(* min_t(u64, avruntime, lag): a u64 below zero is larger than any lag.    *)
abk_eevdf_apply_lag_placement(Q, lag) ==
    LET V == avg_vruntime(Q)
    IN IF lag > 0 /\ V >= 0 THEN V - Min({V, lag}) ELSE V - lag

abk_eevdf_store_rel_deadline(Q, e) ==
    [Q EXCEPT !.se[e].rel =
        IF Q.se[e].dl # 0 THEN Max({Q.se[e].dl - Q.se[e].vr, 0}) ELSE 0]

ScaleRelNone(s, new) == s.rel                                   \* mutant
abk_eevdf_scale_rel_deadline(s, new) ==
    IF s.rel = NoTag THEN NoTag ELSE (s.rel * s.w) \div new

clear_buddies(Q, e) ==
    [Q EXCEPT !.next = IF @ = e THEN None ELSE @, !.skip = IF @ = e THEN None ELSE @]

(* A consumed request is renewed; then somebody else may be picked.        *)
abk_eevdf_refresh_deadline(Q, e) ==
    LET was == Q.se[e]
        s == IF was.rel = NoTag THEN was
             ELSE [was EXCEPT !.dl = was.vr + was.rel, !.rel = NoTag]
        renewed == Put(Q, e, [s EXCEPT !.slice = abk_eevdf_slice(s), !.fresh = FALSE,
                                       !.dl = s.vr + abk_eevdf_vslice(s)])
    IN IF s.vr - s.dl < 0 THEN Put(Q, e, s)
       ELSE IF Runnable(Q) \ {e} = {} THEN renewed
       ELSE [clear_buddies(renewed, e) EXCEPT !.resched = TRUE]

update_curr(Q, delta) ==
    IF Q.curr = None \/ delta = 0 THEN Q
    ELSE update_min_vruntime(abk_eevdf_refresh_deadline(
             [Q EXCEPT !.se[Q.curr].vr = @ + calc_delta_fair(delta, Q.se[Q.curr])], Q.curr))

-----------------------------------------------------------------------------
(* Placement                                                               *)

Carried(s) == s.vlag # 0 \/ s.rel # NoTag

(* What is left of the request, or a new one; half of it for a new task.   *)
RequestUnchecked(s, initial) ==                                 \* mutant
    IF s.rel # NoTag THEN s.rel
    ELSE IF initial THEN Max({abk_eevdf_vslice(s) \div 2, 1}) ELSE abk_eevdf_vslice(s)
Request(s, initial) ==
    IF s.rel \notin {NoTag, 0} THEN s.rel
    ELSE IF s.rel = NoTag /\ initial THEN Max({abk_eevdf_vslice(s) \div 2, 1})
    ELSE abk_eevdf_vslice(s)

abk_eevdf_place_entity(Q, e, initial) ==
    LET s == [Q.se[e] EXCEPT !.slice = abk_eevdf_slice(Q.se[e])]
        vr == IF initial THEN avg_vruntime(Q)
              ELSE IF Carried(s)
              THEN abk_eevdf_apply_lag_placement(Q, abk_eevdf_preserved_lag(Q, e))
              ELSE s.vr
    IN Put(Q, e, [s EXCEPT !.vr = vr, !.dl = vr + Request(s, initial), !.rel = NoTag,
                           !.vlag = 0, !.fresh = initial])

(* 5.15's own placement first: no further left than the sleeper credit,    *)
(* and exactly there after a long sleep.                                   *)
place_entity(Q, e, initial, long) ==
    LET left == Q.min - Thresh
        pulled == IF long THEN left ELSE Max({Q.se[e].vr, left})
    IN abk_eevdf_place_entity(IF initial THEN Q ELSE [Q EXCEPT !.se[e].vr = pulled],
                              e, initial)

(* A wakeup has an absolute vruntime; the others are relative to the run   *)
(* queue they come from.                                                   *)
enqueue_entity(Q, e, wakeup, long, delta) ==
    LET now == update_curr(Q, delta)
        norm == IF wakeup THEN now ELSE [now EXCEPT !.se[e].vr = @ + now.min]
        placed == IF wakeup \/ Carried(norm.se[e])
                  THEN place_entity(norm, e, FALSE, long) ELSE norm
    IN [abk_avg_vruntime_add(placed, e) EXCEPT !.se[e].st = "rq"]

(* save: the entity is put back at once (DEQUEUE_SAVE without              *)
(* DEQUEUE_MOVE), and min_vruntime waits for it.                           *)
dequeue_entity(Q, e, sleep, save, delta) ==
    LET lagged == abk_eevdf_update_lag(clear_buddies(update_curr(Q, delta), e), e)
        stored == IF sleep THEN lagged ELSE abk_eevdf_store_rel_deadline(lagged, e)
        out == IF e = Q.curr THEN stored ELSE abk_avg_vruntime_sub(stored, e)
        left == [out EXCEPT !.se[e].st = IF sleep THEN "off" ELSE "away",
                            !.se[e].vr = IF sleep THEN @ ELSE @ - out.min]
    IN IF save THEN left ELSE update_min_vruntime(left)

(* reweight_entity(): the weight changes outside the tree, between lag and *)
(* placement.                                                              *)
Reweighted(s, w) ==
    [s EXCEPT !.vlag = DivS64(s.vlag * s.w, w), !.w = w,
              !.rel = abk_eevdf_scale_rel_deadline(s, w)]
reweight_entity(Q, e, w, delta) ==
    LET running == e = Q.curr
        now == IF running THEN update_curr(Q, delta) ELSE Q
        kept == abk_eevdf_store_rel_deadline(abk_eevdf_update_lag(now, e), e)
        out == IF running THEN kept ELSE abk_avg_vruntime_sub(kept, e)
        placed == place_entity(Put(out, e, Reweighted(out.se[e], w)), e, FALSE, FALSE)
    IN IF e \notin Runnable(Q) THEN Put(Q, e, Reweighted(Q.se[e], w))
       ELSE IF running THEN placed ELSE abk_avg_vruntime_add(placed, e)

-----------------------------------------------------------------------------
(* Selection                                                               *)

(* The entities abk_pick_eevdf(cfs_rq, curr) may return: more than one     *)
(* only where deadline and vruntime are equal.                             *)
PickKeepsIneligible(Q) ==                                       \* mutant
    LET V == avg_vruntime(Q)
        tree == {e \in Tree(Q) : abk_eevdf_eligible(Q, e, V) /\ e # Q.skip}
        running == {Q.curr} \cap Runnable(Q)
        best == {e \in running \cup tree :
                    \A f \in running \cup tree : ~abk_eevdf_entity_before(Q, f, e)}
    IN IF running # {} /\ Q.pick = Q.se[Q.curr].dl THEN running ELSE best
abk_pick_eevdf(Q) ==
    LET V == avg_vruntime(Q)
        ok(S) == {e \in S : abk_eevdf_eligible(Q, e, V)}
        running == ok({Q.curr} \cap Runnable(Q))
        buddy == ok({Q.next} \cap Runnable(Q))
        cand == running \cup buddy \cup (ok(Tree(Q)) \ {Q.skip})
        best == {e \in cand : \A f \in cand : ~abk_eevdf_entity_before(Q, f, e)}
        first == {e \in Tree(Q) : \A f \in Tree(Q) : Q.se[e].vr <= Q.se[f].vr}
    IN IF running # {} /\ Q.se[Q.curr].dl # 0 /\ Q.pick = Q.se[Q.curr].dl
       THEN running                                    \* RUN_TO_PARITY
       ELSE IF cand = {} THEN first
       ELSE IF running \cap best # {} THEN running
       ELSE IF buddy \cap best # {} THEN buddy ELSE best

(* PREEMPT_SHORT.                                                          *)
abk_eevdf_preempt_short(Q, e) ==
    LET V == avg_vruntime(Q)
        s == Q.se[Q.curr]
    IN /\ abk_eevdf_slice(Q.se[e]) < abk_eevdf_slice(s)
       /\ abk_eevdf_eligible(Q, e, V)
       /\ abk_eevdf_eligible(Q, Q.curr, V) => Q.se[e].vr < s.vr

(* The run queues check_preempt_wakeup() may leave after e has joined.     *)
check_preempt_wakeup(Q, e) ==
    IF Q.curr = None \/ Q.resched THEN {Q}
    ELSE LET taken == [Q EXCEPT !.next = e, !.resched = TRUE]
         IN IF abk_eevdf_preempt_short(Q, e) THEN {taken}
            ELSE {IF p = e THEN taken ELSE Q : p \in abk_pick_eevdf(Q)}

set_next_entity(Q, e) ==
    [abk_avg_vruntime_sub(clear_buddies(Q, e), e)
        EXCEPT !.pick = Q.se[e].dl, !.curr = e]

put_prev_entity(Q) ==
    IF Q.curr \in Runnable(Q) THEN [abk_avg_vruntime_add(Q, Q.curr) EXCEPT !.curr = None]
    ELSE [Q EXCEPT !.curr = None]

-----------------------------------------------------------------------------
(* The critical sections                                                   *)

Follow(Q) ==
    /\ \A e \in Runnable(Q) : Q.se[e].vr <= Horizon /\ Q.se[e].dl <= Horizon
    /\ q' = Q
Step(Q) == Follow(Q) /\ UNCHANGED moves
Move(Q) == moves < MaxMoves /\ moves' = moves + 1 /\ Follow(Q)

(* task_fork_fair(): the child is a copy of its parent, placed on the run  *)
(* queue the parent runs on, and keeps its place relative to it.           *)
Fork(e) ==
    /\ q.se[e].st = "unborn"
    /\ \E delta \in Deltas :
          LET now == update_curr(q, delta)
              copy == IF q.curr = None THEN [Unborn EXCEPT !.st = "new"]
                      ELSE [now.se[q.curr] EXCEPT !.st = "new"]
              placed == place_entity(Put(now, e, copy), e, TRUE, FALSE)
          IN Step([placed EXCEPT !.se[e].vr = @ - placed.min])

(* wake_up_new_task(), attach_task(), ttwu_do_activate().                  *)
Activate(e, state, wakeup) ==
    /\ q.se[e].st = state
    /\ \E delta \in Deltas, long \in (IF wakeup THEN BOOLEAN ELSE {FALSE}) :
          \E Q \in check_preempt_wakeup(enqueue_entity(q, e, wakeup, long, delta), e) :
              IF state = "new" THEN Step(Q) ELSE Move(Q)
WakeNew(e) == Activate(e, "new", FALSE)
Attach(e)  == Activate(e, "away", FALSE)
Wake(e)    == Activate(e, "off", TRUE)

(* detach_task(): the load balancer takes a waiting entity away.           *)
Detach(e) ==
    /\ e \in Tree(q)
    /\ \E delta \in Deltas : Step(dequeue_entity(q, e, FALSE, FALSE, delta))

(* entity_tick(): the selector, unless 5.15's own checks return before it  *)
(* (the entity has run too short), or resched (it has run too long); when  *)
(* it keeps the entity, 5.15's last check may resched (too far right of    *)
(* the leftmost entity).                                                   *)
Tick ==
    /\ q.curr # None
    /\ \E delta \in Deltas :
       LET now == update_curr(q, delta)
           forced == [now EXCEPT !.resched = TRUE]
           chosen == {p \in abk_pick_eevdf(now) :
                         p # q.curr /\ abk_eevdf_entity_before(now, p, q.curr)}
       IN IF Tree(q) = {} THEN Step(now)
          ELSE \/ Step(clear_buddies(forced, q.curr))
               \/ Step(now)
               \/ Step(IF chosen # {} THEN forced ELSE now)
               \/ /\ \E e \in Tree(q) : now.se[e].vr < now.se[q.curr].vr
                  /\ Step(forced)

(* pick_next_task_fair(): prev goes on, or goes back to the tree.          *)
Schedule ==
    /\ Runnable(q) # {}
    /\ \E delta \in Deltas :
       LET now == update_curr(q, delta)
       IN \E p \in abk_pick_eevdf(now) :
             Step([IF p = q.curr THEN now ELSE set_next_entity(put_prev_entity(now), p)
                       EXCEPT !.resched = FALSE])

(* The current entity sleeps, and another one is picked.                   *)
Block ==
    /\ q.curr # None
    /\ \E delta \in Deltas :
       LET out == [dequeue_entity(q, q.curr, TRUE, FALSE, delta) EXCEPT !.resched = FALSE]
       IN IF Runnable(out) = {} THEN Step(put_prev_entity(out))
          ELSE \E p \in abk_pick_eevdf(out) :
                  Step(set_next_entity(put_prev_entity(out), p))

(* A task of a higher class takes the CPU.                                 *)
Preempted ==
    /\ q.curr # None
    /\ \E delta \in Deltas :
          Step([put_prev_entity(update_curr(q, delta)) EXCEPT !.resched = FALSE])

(* yield_task_fair(): forfeit the request, if eligible.                    *)
yield_task_fair ==
    /\ q.curr # None /\ Tree(q) # {}
    /\ \E delta \in Deltas :
       LET now == update_curr(clear_buddies(q, q.curr), delta)
           s == now.se[q.curr]
           given == Put(now, q.curr, [s EXCEPT !.vr = s.dl, !.dl = s.dl + abk_eevdf_vslice(s)])
           next == IF abk_eevdf_eligible(now, q.curr, avg_vruntime(now))
                   THEN update_min_vruntime(given) ELSE now
       IN Step([next EXCEPT !.skip = q.curr])

(* sched_setattr(): weight and request of a task, which is taken out of    *)
(* the run queue for it.  prio_changed_fair() then asks for preemption.    *)
SetAttr(e, w, request) ==
    LET running == e = q.curr
        old == q.se[e].w
        Set(Q) == reweight_entity([Q EXCEPT !.se[e].slice = request], e, w, 0)
    IN \/ /\ q.se[e].st = "off"
          /\ Move(Set(q))
       \/ /\ e \in Runnable(q)
          /\ \E out \in {dequeue_entity(q, e, FALSE, w = old, delta) : delta \in Deltas} :
             \E back \in {enqueue_entity(Set(IF running THEN put_prev_entity(out) ELSE out),
                                         e, FALSE, FALSE, 0)} :
                IF running
                THEN Move([set_next_entity(back, e)
                              EXCEPT !.resched = @ \/ (w < old /\ Tree(q) # {})])
                ELSE IF w = old THEN Move(back)
                ELSE \E Q \in check_preempt_wakeup(back, e) : Move(Q)

(* update_cfs_group(): a group's entity changes its weight where it is.    *)
Reweight(e, w) ==
    /\ e \in Runnable(q)
    /\ \E delta \in Deltas : Move(reweight_entity(q, e, w, delta))

Next ==
    \/ \E e \in Entities :
          \/ Fork(e) \/ WakeNew(e) \/ Attach(e) \/ Wake(e) \/ Detach(e)
          \/ \E w \in Weights : Reweight(e, w) \/ \E r \in Requests : SetAttr(e, w, r)
    \/ Tick \/ Schedule \/ Block \/ Preempted \/ yield_task_fair

Spec == Init /\ [][Next]_vars

-----------------------------------------------------------------------------
(* Properties                                                              *)

(* Of every entity: how far it is from v, by its weight; its weight.       *)
Keys(Q, v) == [e \in Entities |-> (Q.se[e].vr - v) * Q.se[e].w]
Loads(Q)   == [e \in Entities |-> Q.se[e].w]

(* The two sums that make avg_vruntime() O(1) are the sums over the tree,  *)
(* whatever joined, left, ran, yielded or changed its weight in between    *)
(* (batch15_perf_eevdf.py:166-173).                                        *)
SumsExact ==
    /\ q.sum = SumFunctionOnSet(Keys(q, q.min), Tree(q))
    /\ q.load = SumFunctionOnSet(Loads(q), Tree(q))

(* The reference definition: an entity is owed service if it is not ahead  *)
(* of the weighted average of all runnable ones.                           *)
Owed(e) == SumFunctionOnSet(Keys(q, q.se[e].vr), Runnable(q)) >= 0

(* "From the eligible entities, take the one with the earliest virtual     *)
(* deadline" (batch15_perf_eevdf.py:715-716), by the reference definition  *)
(* and with its two exceptions: the current entity keeps the CPU for the   *)
(* request it was picked for, the skip buddy runs only if nobody else is   *)
(* owed service.  With anybody runnable, somebody is picked: the caller    *)
(* does not test for NULL.                                                 *)
EarliestEligibleRuns ==
    LET owed == {e \in Runnable(q) : Owed(e) /\ e # q.skip}
    IN Runnable(q) # {} =>
          /\ abk_pick_eevdf(q) # {}
          /\ \A p \in abk_pick_eevdf(q) :
                /\ p \in Runnable(q) /\ (owed # {} => Owed(p))
                /\ \/ p = q.curr /\ q.pick = q.se[p].dl
                   \/ \A e \in owed : ~abk_eevdf_entity_before(q, e, p)

(* What an entity carries from one stay on the queue to the next is        *)
(* applied exactly once.  No runnable entity still has lag or a relative   *)
(* deadline, by which a later enqueue, or a child, who copies them, would  *)
(* be placed again; and none stands with a consumed request, except a new  *)
(* task that has not run yet: the selector compares deadlines without      *)
(* renewing them (batch15_perf_eevdf.py:692-710, 718-723, 926-931).        *)
CarriedOnce ==
    \A e \in Runnable(q) :
        ~Carried(q.se[e]) /\ (q.se[e].fresh \/ q.se[e].vr < q.se[e].dl)

(* A waiting entity whose weight changes keeps what is left of its request *)
(* in execution time, up to rounding (batch15_perf_eevdf.py:872-880).  A   *)
(* deadline of exactly 0 stands for none: that request is renewed instead, *)
(* whatever was left of it (batch15_perf_eevdf.py:533).                    *)
RequestKept ==
    [][\A e \in Tree(q) \cap Tree(q)' :
           LET s == q.se[e]
               t == q'.se[e]
               left == (t.dl - t.vr) * t.w - (s.dl - s.vr) * s.w
           IN s.w # t.w /\ s.vr < s.dl /\ s.dl # 0
                 => left > -t.w /\ left <= Nice0 * abk_eevdf_slice(t)]_vars

(* "A wakee that asked for less time than current may preempt it, so a     *)
(* latency-sensitive short request is not stuck behind a long one"         *)
(* (batch15_perf_eevdf.py:786-788): when the rule fires for a wakee, the   *)
(* next selection does not return the current entity.                      *)
ShortRequestPreempts ==
    [][\A e \in Entities :
           /\ q.se[e].st = "off" /\ q'.se[e].st = "rq" /\ q'.curr # None
           /\ abk_eevdf_preempt_short(q', e)
           => q'.curr \notin abk_pick_eevdf(q')]_vars
=============================================================================
