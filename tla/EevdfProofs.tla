------------------------------ MODULE EevdfProofs ------------------------------
(***************************************************************************)
(* What TLAPS proves of Eevdf for every number of entities and every       *)
(* weight, request and clock step: the incremental sums are the sums, what *)
(* an entity carries is applied once, and the selector picks, of those     *)
(* that are owed service, one with the earliest deadline, and a change of  *)
(* weight keeps what is left of a request.                                 *)
(***************************************************************************)
EXTENDS Eevdf, SumTheorems, FiniteSetTheorems, TLAPS

(* The types: the weights and requests an entity can have, the entities,   *)
(* the run queue.                                                          *)
Wts == Weights \cup {Nice0}
AllRequests == Requests \cup {0, MinGran}
EntType ==
    [vr : Int, dl : Int, rel : Nat \cup {NoTag}, vlag : Int, slice : AllRequests, w : Wts,
     st : {"unborn", "new", "rq", "off", "away"}, fresh : BOOLEAN]
Buddies == Entities \cup {None}
RqType ==
    [se : [Entities -> EntType], min : Int, sum : Int, load : Int, pick : Int,
     curr : Buddies, next : Buddies, skip : Buddies, resched : BOOLEAN]

(* The sums are those over the entities of T.                              *)
Sums(Q, T) ==
    /\ Q.sum = SumFunctionOnSet(Keys(Q, Q.min), T)
    /\ Q.load = SumFunctionOnSet(Loads(Q), T)
Good(Q, T) == Q \in RqType /\ T \in SUBSET Entities /\ Sums(Q, T)

(* What a runnable entity, a new task and one that is between two run      *)
(* queues carry.                                                           *)
Settled(s) == ~Carried(s) /\ (s.fresh \/ s.vr < s.dl)
Keeps(s) ==
    /\ s.st = "rq" => Settled(s)
    /\ s.st = "new" => ~Carried(s) /\ s.fresh
    /\ s.st = "away" => s.rel # NoTag

(* A run queue between two steps; within a step the current entity may     *)
(* have left it already.                                                   *)
Within(Q) == Good(Q, Tree(Q)) /\ \A e \in Entities : Keeps(Q.se[e])
EevdfInv(Q) == Within(Q) /\ (Q.curr = None \/ Q.curr \in Runnable(Q))

-----------------------------------------------------------------------------
(* Numbers                                                                 *)

(* The larger and the smaller of two.                                      *)
LEMMA MaxTwo ==
    ASSUME NEW a \in Int, NEW b \in Int
    PROVE  /\ Max({a, b}) \in {a, b} /\ Max({a, b}) \in Int
           /\ Max({a, b}) >= a /\ Max({a, b}) >= b
<1>1. \E x \in {a, b} : \A y \in {a, b} : x >= y
  <2>1. CASE a >= b
    BY <2>1
  <2>2. CASE ~(a >= b)
    BY <2>2
  <2> QED
    BY <2>1, <2>2
<1>2. Max({a, b}) \in {a, b} /\ \A y \in {a, b} : Max({a, b}) >= y
  BY <1>1 DEF Max
<1> QED
  BY <1>2

(* The smaller of two.                                                     *)
LEMMA MinTwo ==
    ASSUME NEW a \in Int, NEW b \in Int
    PROVE  /\ Min({a, b}) \in {a, b} /\ Min({a, b}) \in Int
           /\ Min({a, b}) <= a /\ Min({a, b}) <= b
<1>1. \E x \in {a, b} : \A y \in {a, b} : x <= y
  <2>1. CASE a <= b
    BY <2>1
  <2>2. CASE ~(a <= b)
    BY <2>2
  <2> QED
    BY <2>1, <2>2
<1>2. Min({a, b}) \in {a, b} /\ \A y \in {a, b} : Min({a, b}) <= y
  BY <1>1 DEF Min
<1> QED
  BY <1>2

(* A finite set of integers has a least one.                               *)
LEMMA MinWorks ==
    ASSUME NEW S \in SUBSET Int, IsFiniteSet(S), S # {}
    PROVE  Min(S) \in S /\ Min(S) \in Int /\ \A y \in S : Min(S) <= y
<1> DEFINE G == {T \in SUBSET S : T = {} \/ \E x \in T : \A y \in T : x <= y}
<1>1. {} \in G
  OBVIOUS
<1>2. ASSUME NEW T \in SUBSET S, T \in G, NEW x \in S \ T
      PROVE  T \cup {x} \in G
  <2>1. CASE T = {}
    <3>1. \A y \in T \cup {x} : x <= y
      BY <2>1
    <3> QED
      BY <3>1
  <2>2. CASE T # {}
    <3>1. PICK m \in T : \A y \in T : m <= y
      BY <1>2, <2>2
    <3>2. CASE m <= x
      <4>1. \A y \in T \cup {x} : m <= y
        BY <3>1, <3>2
      <4> QED
        BY <4>1
    <3>3. CASE ~(m <= x)
      <4>1. \A y \in T \cup {x} : x <= y
        BY <3>1, <3>3
      <4> QED
        BY <4>1
    <3> QED
      BY <3>2, <3>3
  <2> QED
    BY <2>1, <2>2
<1> HIDE DEF G
<1>3. SUBSET S \subseteq G
  BY <1>1, <1>2, SetsReached
<1>4. \E x \in S : \A y \in S : x <= y
  BY <1>3 DEF G
<1>5. Min(S) \in S /\ \A y \in S : Min(S) <= y
  BY <1>4 DEF Min
<1> QED
  BY <1>5

(* Divisions.                                                              *)
LEMMA Divided ==
    ASSUME NEW a \in Int, NEW b \in Nat \ {0}
    PROVE  /\ DivS64(a, b) \in Int /\ a \div b \in Int
           /\ a \in Nat => a \div b \in Nat
<1>1. \A x \in Int : x \div b \in Int
  OBVIOUS
<1>2. \A x \in Nat : x \div b \in Nat
  OBVIOUS
<1>3. -a \in Int /\ \A x \in Int : -x \in Int
  OBVIOUS
<1> QED
  BY <1>1, <1>2, <1>3 DEF DivS64

(* Weights are positive, requests are numbers.                             *)
LEMMA Weigh ==
    /\ Wts \subseteq Nat \ {0} /\ Nice0 \in Nat \ {0} /\ MinGran \in Nat \ {0}
    /\ AllRequests \subseteq Nat
  BY EevdfAssumption DEF Wts, AllRequests

(* What the fields of a record of an entity are.                           *)
LEMMA EntFields ==
    ASSUME NEW s \in EntType
    PROVE  /\ s.vr \in Int /\ s.dl \in Int /\ s.rel \in Nat \cup {NoTag}
           /\ s.vlag \in Int /\ s.slice \in Nat /\ s.w \in Wts /\ s.w \in Nat \ {0}
           /\ s.fresh \in BOOLEAN /\ s.rel \in Int /\ s.slice \in AllRequests
           /\ s.st \in {"unborn", "new", "rq", "off", "away"}
<1>1. /\ s.vr \in Int /\ s.dl \in Int /\ s.rel \in Nat \cup {NoTag} /\ s.vlag \in Int
      /\ s.slice \in AllRequests /\ s.w \in Wts /\ s.fresh \in BOOLEAN
      /\ s.st \in {"unborn", "new", "rq", "off", "away"}
  BY Zenon DEF EntType
<1>2. s.w \in Nat \ {0}
  BY <1>1, Weigh
<1>3. s.rel \in Int
  BY <1>1 DEF NoTag
<1>4. s.slice \in Nat
  BY <1>1, Weigh
<1> QED
  BY <1>1, <1>2, <1>3, <1>4

(* Requests in execution and in virtual time are positive.                 *)
LEMMA Slices ==
    ASSUME NEW s \in EntType
    PROVE  /\ abk_eevdf_slice(s) \in Nat \ {0} /\ abk_eevdf_slice(s) \in AllRequests
           /\ \A d \in Nat : calc_delta_fair(d, s) \in Nat
           /\ abk_eevdf_vslice(s) \in Nat \ {0}
<1>1. s.slice \in Nat /\ s.slice \in AllRequests /\ s.w \in Nat \ {0}
  BY EntFields
<1>2. abk_eevdf_slice(s) \in Nat \ {0} /\ abk_eevdf_slice(s) \in AllRequests
  BY <1>1, Weigh DEF abk_eevdf_slice, AllRequests
<1>3. \A d \in Nat : calc_delta_fair(d, s) \in Nat
  <2>1. TAKE d \in Nat
  <2>2. d * Nice0 \in Nat
    BY Weigh
  <2> QED
    BY <1>1, <2>2, Divided DEF calc_delta_fair
<1>4. abk_eevdf_vslice(s) \in Nat \ {0}
  <2>1. PICK v \in Nat : v = calc_delta_fair(abk_eevdf_slice(s), s)
    BY <1>2, <1>3
  <2>2. Max({v, 1}) \in Int /\ Max({v, 1}) >= 1
    BY MaxTwo
  <2>3. abk_eevdf_vslice(s) = Max({v, 1})
    BY <2>1 DEF abk_eevdf_vslice
  <2> QED
    BY <2>2, <2>3
<1> QED
  BY <1>2, <1>3, <1>4

(* A clamped number is a number.                                           *)
LEMMA Clamped ==
    ASSUME NEW v \in Int, NEW l \in Int
    PROVE  clamp(v, l) \in Int
<1>1. Min({v, l}) \in Int
  BY MinTwo
<1>2. -l \in Int
  OBVIOUS
<1>3. \A a, b \in Int : Max({a, b}) \in Int
  BY MaxTwo
<1> QED
  BY <1>1, <1>2, <1>3 DEF clamp

(* The bound of the lag is a number.                                       *)
LEMMA LagLimit ==
    ASSUME NEW s \in EntType
    PROVE  abk_eevdf_lag_limit(s) \in Int
<1>1. 2 * abk_eevdf_slice(s) \in Nat /\ TickNsec \in Nat
  BY Slices, EevdfAssumption
<1>2. \A a, b \in Int : Max({a, b}) \in Int /\ Max({a, b}) \in {a, b}
  BY MaxTwo
<1>3. Max({2 * abk_eevdf_slice(s), TickNsec}) \in Nat
  <2>1. PICK a \in Nat : a = 2 * abk_eevdf_slice(s)
    BY <1>1
  <2>2. Max({a, TickNsec}) \in {a, TickNsec}
    BY <1>1, <1>2
  <2> QED
    BY <1>1, <2>1, <2>2
<1>4. PICK d \in Nat : d = calc_delta_fair(Max({2 * abk_eevdf_slice(s), TickNsec}), s)
  BY <1>3, Slices
<1>5. abk_eevdf_lag_limit(s) = Max({d, 1})
  BY <1>4 DEF abk_eevdf_lag_limit
<1> QED
  BY <1>2, <1>5

-----------------------------------------------------------------------------
(* The run queue                                                           *)

(* What the fields of a run queue are.                                     *)
LEMMA RqFields ==
    ASSUME NEW Q \in RqType
    PROVE  /\ Q.se \in [Entities -> EntType] /\ \A e \in Entities : Q.se[e] \in EntType
           /\ Q.min \in Int /\ Q.sum \in Int /\ Q.load \in Int /\ Q.pick \in Int
           /\ Q.curr \in Buddies /\ Q.next \in Buddies /\ Q.skip \in Buddies
           /\ Q.resched \in BOOLEAN
  BY Zenon DEF RqType

(* Two run queues that differ at most in the buddies, the stash and the    *)
(* request for a reschedule; and two that differ in one entity as well.    *)
Frame(Q, R) == R.min = Q.min /\ R.sum = Q.sum /\ R.load = Q.load /\ R.curr = Q.curr
Flags(Q, R) == R \in RqType /\ Frame(Q, R) /\ R.se = Q.se
Touch(Q, R, e) ==
    R \in RqType /\ Frame(Q, R) /\ \A f \in Entities \ {e} : R.se[f] = Q.se[f]

(* One entity is replaced.                                                 *)
LEMMA PutWorks ==
    ASSUME NEW Q \in RqType, NEW e \in Entities, NEW s \in EntType
    PROVE  Touch(Q, Put(Q, e, s), e) /\ Put(Q, e, s).se[e] = s
<1> DEFINE F == [Q.se EXCEPT ![e] = s]
<1>1. F \in [Entities -> EntType] /\ F[e] = s /\ \A f \in Entities \ {e} : F[f] = Q.se[f]
  BY RqFields
<1> HIDE DEF F
<1>2. Put(Q, e, s) = [Q EXCEPT !.se = F]
  BY DEF Put, F
<1>3. [Q EXCEPT !.se = F] \in RqType /\ [Q EXCEPT !.se = F].se = F
      /\ Frame(Q, [Q EXCEPT !.se = F])
  BY <1>1, Zenon DEF RqType, Frame
<1> QED
  BY <1>1, <1>2, <1>3 DEF Touch

(* Two run queues that differ in the clock and the sums.                   *)
Summed(Q, R, m, a, b) ==
    /\ R \in RqType /\ R.se = Q.se /\ R.curr = Q.curr
    /\ R.min = m /\ R.sum = a /\ R.load = b

(* The sums are replaced.                                                  *)
LEMMA SumsPut ==
    ASSUME NEW Q \in RqType, NEW a \in Int, NEW b \in Int
    PROVE  Summed(Q, [Q EXCEPT !.sum = a, !.load = b], Q.min, a, b)
  BY Zenon DEF RqType, Summed

(* The clock and the sum that is relative to it are replaced.              *)
LEMMA MinPut ==
    ASSUME NEW Q \in RqType, NEW a \in Int, NEW m \in Int
    PROVE  Summed(Q, [[Q EXCEPT !.sum = a] EXCEPT !.min = m], m, a, Q.load)
  BY Zenon DEF RqType, Summed

(* Two run queues that differ in the current entity, and maybe the stash.  *)
Passed(Q, R, c) ==
    /\ R \in RqType /\ R.se = Q.se /\ R.min = Q.min
    /\ R.sum = Q.sum /\ R.load = Q.load /\ R.curr = c

(* The current entity is replaced, alone or with the stash.                *)
LEMMA CurrPut ==
    ASSUME NEW Q \in RqType, NEW c \in Buddies
    PROVE  /\ Passed(Q, [Q EXCEPT !.curr = c], c)
           /\ \A d \in Int : Passed(Q, [Q EXCEPT !.pick = d, !.curr = c], c)
<1>1. Passed(Q, [Q EXCEPT !.curr = c], c)
  BY Zenon DEF RqType, Passed
<1>2. \A d \in Int : Passed(Q, [Q EXCEPT !.pick = d, !.curr = c], c)
  BY Zenon DEF RqType, Passed
<1> QED
  BY <1>1, <1>2

(* Buddies, stash and rescheduling are flags.                              *)
LEMMA FlagsPut ==
    ASSUME NEW Q \in RqType
    PROVE  /\ \A x, y \in Buddies : Flags(Q, [Q EXCEPT !.next = x, !.skip = y])
           /\ \A x \in Buddies, r \in BOOLEAN :
                 Flags(Q, [Q EXCEPT !.next = x, !.resched = r])
           /\ \A r \in BOOLEAN : Flags(Q, [Q EXCEPT !.resched = r])
           /\ \A y \in Buddies : Flags(Q, [Q EXCEPT !.skip = y])
<1>1. \A x, y \in Buddies : Flags(Q, [Q EXCEPT !.next = x, !.skip = y])
  BY Zenon DEF RqType, Flags, Frame
<1>2. \A x \in Buddies, r \in BOOLEAN : Flags(Q, [Q EXCEPT !.next = x, !.resched = r])
  BY Zenon DEF RqType, Flags, Frame
<1>3. \A r \in BOOLEAN : Flags(Q, [Q EXCEPT !.resched = r])
  BY Zenon DEF RqType, Flags, Frame
<1>4. \A y \in Buddies : Flags(Q, [Q EXCEPT !.skip = y])
  BY Zenon DEF RqType, Flags, Frame
<1> QED
  BY <1>1, <1>2, <1>3, <1>4

(* A buddy that leaves is a flag.                                          *)
LEMMA BuddiesCleared ==
    ASSUME NEW Q \in RqType, NEW e \in Entities
    PROVE  Flags(Q, clear_buddies(Q, e))
<1>1. PICK x \in Buddies : x = IF Q.next = e THEN None ELSE Q.next
  BY RqFields DEF Buddies
<1>2. PICK y \in Buddies : y = IF Q.skip = e THEN None ELSE Q.skip
  BY RqFields DEF Buddies
<1>3. clear_buddies(Q, e) = [Q EXCEPT !.next = x, !.skip = y]
  BY <1>1, <1>2, Zenon DEF clear_buddies
<1>4. Flags(Q, [Q EXCEPT !.next = x, !.skip = y])
  BY FlagsPut
<1> QED
  BY <1>3, <1>4

(* Who is runnable, and who is in the tree, are entities.                  *)
LEMMA Sets ==
    ASSUME NEW Q
    PROVE  /\ Runnable(Q) \in SUBSET Entities /\ Tree(Q) \in SUBSET Entities
           /\ IsFiniteSet(Entities) /\ None \notin Entities
           /\ \A T \in SUBSET Entities : IsFiniteSet(T)
  BY EevdfAssumption, FS_Subset DEF Runnable, Tree

-----------------------------------------------------------------------------
(* The sums                                                                *)

(* The summands are numbers.                                               *)
LEMMA Summands ==
    ASSUME NEW Q \in RqType, NEW v \in Int, NEW e \in Entities
    PROVE  /\ Keys(Q, v)[e] = (Q.se[e].vr - v) * Q.se[e].w /\ Keys(Q, v)[e] \in Int
           /\ Loads(Q)[e] = Q.se[e].w /\ Loads(Q)[e] \in Nat /\ Loads(Q)[e] > 0
<1>1. Q.se[e].vr \in Int /\ Q.se[e].w \in Nat \ {0}
  BY RqFields, EntFields
<1>2. Keys(Q, v)[e] = (Q.se[e].vr - v) * Q.se[e].w /\ Loads(Q)[e] = Q.se[e].w
  BY DEF Keys, Loads
<1>3. \A a \in Int, b \in Nat \ {0} : (a - v) * b \in Int /\ b \in Nat /\ b > 0
  OBVIOUS
<1> QED
  BY <1>1, <1>2, <1>3

(* A change of entities outside the tree, or of what the sums do not       *)
(* depend on, leaves the sums right.                                       *)
LEMMA SumsKept ==
    ASSUME NEW Q, NEW T, Good(Q, T), NEW R \in RqType,
           R.min = Q.min, R.sum = Q.sum, R.load = Q.load,
           \A f \in T : R.se[f].vr = Q.se[f].vr /\ R.se[f].w = Q.se[f].w
    PROVE  Good(R, T)
<1>1. Q \in RqType /\ T \in SUBSET Entities /\ Sums(Q, T) /\ IsFiniteSet(T) /\ Q.min \in Int
  BY Sets, RqFields DEF Good
<1>2. \A f \in T : /\ Keys(Q, Q.min)[f] \in Int /\ Loads(Q)[f] \in Int
                   /\ Keys(Q, Q.min)[f] = Keys(R, R.min)[f] /\ Loads(Q)[f] = Loads(R)[f]
  <2>1. TAKE f \in T
  <2>2. f \in Entities
    BY <1>1
  <2>3. Keys(Q, Q.min)[f] \in Int /\ Loads(Q)[f] \in Int
    BY <1>1, <2>2, Summands
  <2>4. Keys(Q, Q.min)[f] = Keys(R, R.min)[f] /\ Loads(Q)[f] = Loads(R)[f]
    BY <2>2 DEF Keys, Loads
  <2> QED
    BY <2>3, <2>4
<1>3. SumFunctionOnSet(Keys(Q, Q.min), T) = SumFunctionOnSet(Keys(R, R.min), T)
  BY <1>1, <1>2, SumSame
<1>4. SumFunctionOnSet(Loads(Q), T) = SumFunctionOnSet(Loads(R), T)
  BY <1>1, <1>2, SumSame
<1> QED
  BY <1>1, <1>3, <1>4 DEF Good, Sums

(* The flags do not matter to the sums.                                    *)
LEMMA FlagsKeep ==
    ASSUME NEW Q, NEW T, Good(Q, T), NEW R, Flags(Q, R)
    PROVE  Good(R, T)
  BY SumsKept DEF Flags, Frame

(* Nor does the entity that is touched, if it is not in the tree.          *)
LEMMA TouchKeeps ==
    ASSUME NEW Q, NEW T, Good(Q, T), NEW R, NEW e, Touch(Q, R, e),
           \/ e \notin T
           \/ R.se[e].vr = Q.se[e].vr /\ R.se[e].w = Q.se[e].w
    PROVE  Good(R, T)
<1>1. T \in SUBSET Entities
  BY DEF Good
<1>2. \A f \in T : R.se[f].vr = Q.se[f].vr /\ R.se[f].w = Q.se[f].w
  BY <1>1 DEF Touch
<1> QED
  BY <1>2, SumsKept DEF Touch, Frame

(* The sum of the weights is a number, and is positive if there are any.   *)
LEMMA LoadWorks ==
    ASSUME NEW Q \in RqType, NEW T \in SUBSET Entities
    PROVE  /\ SumFunctionOnSet(Loads(Q), T) \in Nat
           /\ T # {} => SumFunctionOnSet(Loads(Q), T) > 0
<1>1. IsFiniteSet(T) /\ \A e \in T : Loads(Q)[e] \in Nat /\ Loads(Q)[e] > 0
  <2>1. \A e \in Entities : Loads(Q)[e] \in Nat /\ Loads(Q)[e] > 0
    <3>1. 0 \in Int
      OBVIOUS
    <3> QED
      BY <3>1, Summands
  <2> QED
    BY <2>1, Sets
<1>2. /\ SumFunctionOnSet(Loads(Q), T) \in Nat
      /\ \A e \in T : Loads(Q)[e] <= SumFunctionOnSet(Loads(Q), T)
  BY <1>1, SumBounds
<1> QED
  BY <1>1, <1>2

(* An entity joins the tree.                                               *)
LEMMA AddWorks ==
    ASSUME NEW Q, NEW T, Good(Q, T), NEW e \in Entities \ T,
           NEW R, R = abk_avg_vruntime_add(Q, e)
    PROVE  Good(R, T \cup {e}) /\ R.se = Q.se /\ R.min = Q.min /\ R.curr = Q.curr
<1>1. Q \in RqType /\ T \in SUBSET Entities /\ Sums(Q, T) /\ IsFiniteSet(T)
  BY Sets DEF Good
<1>2. Q.min \in Int /\ Q.sum \in Int /\ Q.load \in Int
  BY <1>1, RqFields
<1>3. \A f \in Entities : Keys(Q, Q.min)[f] \in Int /\ Loads(Q)[f] \in Int
  BY <1>1, <1>2, Summands
<1> DEFINE a == Q.sum + Keys(Q, Q.min)[e]
           b == Q.load + Loads(Q)[e]
<1>4. /\ SumFunctionOnSet(Keys(Q, Q.min), T \cup {e}) = a
      /\ SumFunctionOnSet(Loads(Q), T \cup {e}) = b
  <2>1. \A f \in T \cup {e} : Keys(Q, Q.min)[f] \in Int
    BY <1>1, <1>3
  <2>2. \A f \in T \cup {e} : Loads(Q)[f] \in Int
    BY <1>1, <1>3
  <2>3. SumFunctionOnSet(Keys(Q, Q.min), T \cup {e})
          = SumFunctionOnSet(Keys(Q, Q.min), T) + Keys(Q, Q.min)[e]
    BY <1>1, <2>1, SumJoin
  <2>4. SumFunctionOnSet(Loads(Q), T \cup {e})
          = SumFunctionOnSet(Loads(Q), T) + Loads(Q)[e]
    BY <1>1, <2>2, SumJoin
  <2> QED
    BY <1>1, <2>3, <2>4 DEF Sums
<1>5. a \in Int /\ b \in Int
  BY <1>2, <1>3
<1>6. R = [Q EXCEPT !.sum = a, !.load = b]
  BY Zenon DEF abk_avg_vruntime_add, abk_entity_key, Keys, Loads
<1> HIDE DEF a, b
<1>7. /\ R \in RqType /\ R.se = Q.se /\ R.min = Q.min /\ R.curr = Q.curr
      /\ R.sum = a /\ R.load = b
  <2>1. Summed(Q, R, Q.min, a, b)
    <3>1. Q \in RqType
      BY <1>1
    <3>2. Summed(Q, [Q EXCEPT !.sum = a, !.load = b], Q.min, a, b)
      BY <1>5, <3>1, SumsPut, Zenon
    <3> QED
      BY <1>6, <3>2, Zenon
  <2> QED
    BY <2>1 DEF Summed
<1>8. Keys(R, R.min) = Keys(Q, Q.min) /\ Loads(R) = Loads(Q)
  BY <1>7 DEF Keys, Loads
<1> QED
  BY <1>1, <1>4, <1>7, <1>8 DEF Good, Sums

(* An entity leaves the tree.                                              *)
LEMMA SubWorks ==
    ASSUME NEW Q, NEW T, Good(Q, T), NEW e \in T,
           NEW R, R = abk_avg_vruntime_sub(Q, e)
    PROVE  Good(R, T \ {e}) /\ R.se = Q.se /\ R.min = Q.min /\ R.curr = Q.curr
<1>1. Q \in RqType /\ T \in SUBSET Entities /\ Sums(Q, T) /\ IsFiniteSet(T)
  BY Sets DEF Good
<1>2. Q.min \in Int /\ Q.sum \in Int /\ Q.load \in Int
  BY <1>1, RqFields
<1>3. \A f \in Entities : Keys(Q, Q.min)[f] \in Int /\ Loads(Q)[f] \in Int
  BY <1>1, <1>2, Summands
<1> DEFINE a == Q.sum - Keys(Q, Q.min)[e]
           b == Q.load - Loads(Q)[e]
<1>4. /\ SumFunctionOnSet(Keys(Q, Q.min), T \ {e}) = a
      /\ SumFunctionOnSet(Loads(Q), T \ {e}) = b
  <2>1. \A f \in T : Keys(Q, Q.min)[f] \in Int
    BY <1>1, <1>3
  <2>2. \A f \in T : Loads(Q)[f] \in Int
    BY <1>1, <1>3
  <2>3. SumFunctionOnSet(Keys(Q, Q.min), T \ {e})
          = SumFunctionOnSet(Keys(Q, Q.min), T) - Keys(Q, Q.min)[e]
    BY <1>1, <2>1, SumLeave
  <2>4. SumFunctionOnSet(Loads(Q), T \ {e})
          = SumFunctionOnSet(Loads(Q), T) - Loads(Q)[e]
    BY <1>1, <2>2, SumLeave
  <2> QED
    BY <1>1, <2>3, <2>4 DEF Sums
<1>5. a \in Int /\ b \in Int /\ e \in Entities
  BY <1>1, <1>2, <1>3
<1>6. R = [Q EXCEPT !.sum = a, !.load = b]
  BY <1>5, Zenon DEF abk_avg_vruntime_sub, abk_entity_key, Keys, Loads
<1> HIDE DEF a, b
<1>7. /\ R \in RqType /\ R.se = Q.se /\ R.min = Q.min /\ R.curr = Q.curr
      /\ R.sum = a /\ R.load = b
  <2>1. Summed(Q, R, Q.min, a, b)
    <3>1. Q \in RqType
      BY <1>1
    <3>2. Summed(Q, [Q EXCEPT !.sum = a, !.load = b], Q.min, a, b)
      BY <1>5, <3>1, SumsPut, Zenon
    <3> QED
      BY <1>6, <3>2, Zenon
  <2> QED
    BY <2>1 DEF Summed
<1>8. Keys(R, R.min) = Keys(Q, Q.min) /\ Loads(R) = Loads(Q)
  BY <1>7 DEF Keys, Loads
<1>9. T \ {e} \in SUBSET Entities
  BY <1>1
<1> QED
  BY <1>4, <1>7, <1>8, <1>9 DEF Good, Sums

(* The sum follows the clock.                                              *)
LEMMA UpdateMinWorks ==
    ASSUME NEW Q, NEW T, Good(Q, T), NEW R, R = update_min_vruntime(Q)
    PROVE  Good(R, T) /\ R.se = Q.se /\ R.curr = Q.curr
<1>1. Q \in RqType /\ T \in SUBSET Entities /\ Sums(Q, T) /\ IsFiniteSet(T)
  BY Sets DEF Good
<1>2. Q.min \in Int /\ Q.sum \in Int /\ Q.load \in Int
  BY <1>1, RqFields
<1> DEFINE V == {Q.se[e].vr : e \in Runnable(Q)}
           m == IF V = {} THEN Q.min ELSE Max({Q.min, Min(V)})
<1>3. m \in Int
  <2>1. V \in SUBSET Int /\ IsFiniteSet(V)
    <3>1. Runnable(Q) \in SUBSET Entities /\ IsFiniteSet(Runnable(Q))
      BY Sets
    <3>2. \A e \in Entities : Q.se[e].vr \in Int
      BY <1>1, RqFields, EntFields
    <3>3. IsFiniteSet(V)
      <4> DEFINE f == [e \in Runnable(Q) |-> Q.se[e].vr]
      <4>1. f \in Surjection(Runnable(Q), V)
        BY DEF Surjection
      <4> QED
        BY <3>1, <4>1, FS_Surjection DEF ExistsSurjection
    <3> QED
      BY <3>1, <3>2, <3>3
  <2> HIDE DEF V
  <2>2. CASE V = {}
    BY <1>2, <2>2
  <2>3. CASE V # {}
    <3>1. Min(V) \in Int
      BY <2>1, <2>3, MinWorks
    <3>2. Max({Q.min, Min(V)}) \in Int
      BY <1>2, <3>1, MaxTwo
    <3> QED
      BY <2>3, <3>2
  <2> QED
    BY <2>2, <2>3
<1> DEFINE d == m - Q.min
           a == Q.sum - Q.load * d
<1>4. R = [[Q EXCEPT !.sum = a] EXCEPT !.min = m]
  BY Zenon DEF update_min_vruntime, abk_avg_vruntime_update
<1> HIDE DEF m
<1>5. d \in Int /\ m = Q.min + d
  BY <1>2, <1>3
<1> HIDE DEF d
<1>6. a \in Int
  BY <1>2, <1>5
<1> HIDE DEF a
<1>7. /\ R \in RqType /\ R.se = Q.se /\ R.min = m /\ R.curr = Q.curr
      /\ R.sum = a /\ R.load = Q.load
  <2>1. Summed(Q, R, m, a, Q.load)
    BY <1>1, <1>3, <1>4, <1>6, MinPut
  <2> QED
    BY <2>1 DEF Summed
<1>8. \A f \in T : /\ Keys(Q, Q.min)[f] \in Int /\ Loads(Q)[f] \in Int
                   /\ Keys(R, m)[f] = Keys(Q, Q.min)[f] - d * Loads(Q)[f]
  <2>1. TAKE f \in T
  <2>2. f \in Entities
    BY <1>1
  <2>3. /\ Keys(Q, Q.min)[f] = (Q.se[f].vr - Q.min) * Q.se[f].w
        /\ Keys(Q, Q.min)[f] \in Int
        /\ Loads(Q)[f] = Q.se[f].w /\ Loads(Q)[f] \in Int
    BY <1>1, <1>2, <2>2, Summands
  <2>4. Keys(R, m)[f] = (Q.se[f].vr - m) * Q.se[f].w
    BY <1>3, <1>7, <2>2, Summands
  <2>5. Q.se[f].vr \in Int /\ Q.se[f].w \in Int
    BY <1>1, <2>2, RqFields, EntFields
  <2>6. \A x, y, w \in Int : (x - (y + d)) * w = (x - y) * w - d * w
    BY <1>5
  <2> QED
    BY <1>2, <1>5, <2>3, <2>4, <2>5, <2>6
<1>9. SumFunctionOnSet(Keys(R, m), T)
        = SumFunctionOnSet(Keys(Q, Q.min), T) - d * SumFunctionOnSet(Loads(Q), T)
  BY <1>1, <1>5, <1>8, SumShift
<1>10. SumFunctionOnSet(Keys(R, m), T) = Q.sum - d * Q.load
  BY <1>1, <1>9 DEF Sums
<1>11. Q.sum - d * Q.load = a
  <2>1. \A x, y \in Int : x * y = y * x
    OBVIOUS
  <2> QED
    BY <1>2, <1>5, <2>1 DEF a
<1>12. Loads(R) = Loads(Q)
  BY <1>7 DEF Loads
<1> QED
  BY <1>1, <1>7, <1>10, <1>11, <1>12 DEF Good, Sums

-----------------------------------------------------------------------------
(* What the functions do to an entity                                      *)

(* A run queue whose load is a sum of weights has an average.              *)
LEMMA AvgWorks ==
    ASSUME NEW Q \in RqType, Q.load \in Nat
    PROVE  avg_vruntime(Q) \in Int
<1> DEFINE a == Q.sum + (IF Q.curr \in Runnable(Q)
                         THEN abk_entity_key(Q, Q.curr) * Q.se[Q.curr].w ELSE 0)
           l == Q.load + (IF Q.curr \in Runnable(Q) THEN Q.se[Q.curr].w ELSE 0)
<1>1. a \in Int /\ l \in Nat
  <2>1. Q.sum \in Int /\ Q.min \in Int
    BY RqFields
  <2>2. CASE Q.curr \in Runnable(Q)
    <3>1. Q.se[Q.curr].vr \in Int /\ Q.se[Q.curr].w \in Nat
      BY <2>2, Sets, RqFields, EntFields
    <3>2. abk_entity_key(Q, Q.curr) * Q.se[Q.curr].w \in Int
      BY <2>1, <3>1 DEF abk_entity_key
    <3> QED
      BY <2>1, <2>2, <3>1, <3>2
  <2>3. CASE Q.curr \notin Runnable(Q)
    BY <2>1, <2>3
  <2> QED
    BY <2>2, <2>3
<1>2. avg_vruntime(Q)
        = Q.min + (IF l = 0 THEN a ELSE DivS64(IF a < 0 THEN a - (l - 1) ELSE a, l))
  BY DEF avg_vruntime
<1> HIDE DEF a, l
<1>3. Q.min \in Int
  BY RqFields
<1>4. CASE l = 0
  BY <1>1, <1>2, <1>3, <1>4
<1>5. CASE l # 0
  <2>1. PICK b \in Int : b = IF a < 0 THEN a - (l - 1) ELSE a
    <3>1. \A x \in Int, y \in Nat : x - (y - 1) \in Int
      OBVIOUS
    <3> QED
      BY <1>1, <3>1
  <2>2. DivS64(b, l) \in Int
    BY <1>1, <1>5, Divided
  <2> QED
    BY <1>2, <1>3, <1>5, <2>1, <2>2
<1> QED
  BY <1>4, <1>5

(* So has one whose sums are right.                                        *)
LEMMA GoodLoad ==
    ASSUME NEW Q, NEW T, Good(Q, T)
    PROVE  Q \in RqType /\ Q.load \in Nat /\ avg_vruntime(Q) \in Int
<1>1. Q \in RqType /\ Q.load \in Nat
  BY LoadWorks DEF Good, Sums
<1> QED
  BY <1>1, AvgWorks

(* What touches an entity keeps its weight and where it is.                *)
Stays(s, t) == t \in EntType /\ t.w = s.w /\ t.st = s.st

(* The lag is stored.                                                      *)
LEMMA UpdateLagWorks ==
    ASSUME NEW Q, NEW T, Good(Q, T), NEW e \in Entities,
           NEW R, R = abk_eevdf_update_lag(Q, e)
    PROVE  /\ Good(R, T) /\ Touch(Q, R, e) /\ Stays(Q.se[e], R.se[e])
           /\ R.se[e].vr = Q.se[e].vr /\ R.se[e].dl = Q.se[e].dl
           /\ R.se[e].rel = Q.se[e].rel /\ R.se[e].slice = Q.se[e].slice
<1>1. Q \in RqType /\ avg_vruntime(Q) \in Int /\ Q.se[e] \in EntType
  BY GoodLoad, RqFields
<1>2. PICK v \in Int :
          v = clamp(avg_vruntime(Q) - Q.se[e].vr, abk_eevdf_lag_limit(Q.se[e]))
  <2>1. avg_vruntime(Q) - Q.se[e].vr \in Int
    BY <1>1, EntFields
  <2> QED
    BY <1>1, <2>1, Clamped, LagLimit
<1> DEFINE t == [Q.se[e] EXCEPT !.vlag = v]
<1>3. R = Put(Q, e, t)
  BY <1>2, Zenon DEF abk_eevdf_update_lag, Put
<1>4. /\ Stays(Q.se[e], t) /\ t.vr = Q.se[e].vr /\ t.dl = Q.se[e].dl
      /\ t.rel = Q.se[e].rel /\ t.slice = Q.se[e].slice
  BY <1>1, Zenon DEF EntType, Stays
<1>5. t \in EntType
  BY <1>4 DEF Stays
<1> HIDE DEF t
<1>6. Touch(Q, R, e) /\ R.se[e] = t
  BY <1>1, <1>3, <1>5, PutWorks
<1>7. Good(R, T)
  BY <1>4, <1>6, TouchKeeps DEF Stays
<1> QED
  BY <1>4, <1>6, <1>7

(* What is left of the request is stored.                                  *)
LEMMA StoreRelWorks ==
    ASSUME NEW Q, NEW T, Good(Q, T), NEW e \in Entities,
           NEW R, R = abk_eevdf_store_rel_deadline(Q, e)
    PROVE  /\ Good(R, T) /\ Touch(Q, R, e) /\ Stays(Q.se[e], R.se[e])
           /\ R.se[e].vr = Q.se[e].vr /\ R.se[e].slice = Q.se[e].slice
           /\ R.se[e].rel \in Nat /\ R.se[e].rel # NoTag
           /\ Q.se[e].vr < Q.se[e].dl =>
                 R.se[e].rel = IF Q.se[e].dl # 0 THEN Q.se[e].dl - Q.se[e].vr ELSE 0
<1>1. Q \in RqType /\ Q.se[e] \in EntType
  BY RqFields DEF Good
<1>2. Q.se[e].vr \in Int /\ Q.se[e].dl \in Int
  BY <1>1, EntFields
<1>3. PICK r \in Nat : r = IF Q.se[e].dl # 0 THEN Max({Q.se[e].dl - Q.se[e].vr, 0}) ELSE 0
  <2>1. PICK d \in Int : d = Q.se[e].dl - Q.se[e].vr
    BY <1>2
  <2>2. 0 \in Int
    OBVIOUS
  <2>3. Max({d, 0}) \in Int /\ Max({d, 0}) >= 0
    BY <2>2, MaxTwo, Zenon
  <2> QED
    BY <2>1, <2>3
<1>4. Q.se[e].vr < Q.se[e].dl => r = IF Q.se[e].dl # 0 THEN Q.se[e].dl - Q.se[e].vr ELSE 0
  <2>1. PICK d \in Int : d = Q.se[e].dl - Q.se[e].vr
    BY <1>2
  <2>2. d > 0 => Max({d, 0}) = d
    <3>1. Max({d, 0}) \in {d, 0} /\ Max({d, 0}) >= d
      BY MaxTwo
    <3> QED
      BY <3>1
  <2>3. Q.se[e].vr < Q.se[e].dl => d > 0
    BY <1>2, <2>1
  <2> QED
    BY <1>3, <2>1, <2>2, <2>3
<1> DEFINE t == [Q.se[e] EXCEPT !.rel = r]
<1>5. R = Put(Q, e, t)
  BY <1>3, Zenon DEF abk_eevdf_store_rel_deadline, Put
<1>6. /\ Stays(Q.se[e], t) /\ t.vr = Q.se[e].vr /\ t.slice = Q.se[e].slice /\ t.rel = r
  BY <1>1, Zenon DEF EntType, Stays
<1>7. t \in EntType
  BY <1>6 DEF Stays
<1> HIDE DEF t
<1>8. Touch(Q, R, e) /\ R.se[e] = t
  BY <1>1, <1>5, <1>7, PutWorks
<1>9. Good(R, T)
  BY <1>6, <1>8, TouchKeeps DEF Stays
<1>10. r # NoTag
  BY DEF NoTag
<1> QED
  BY <1>4, <1>6, <1>8, <1>9, <1>10

(* The weight changes, while the entity is not in the tree.                *)
LEMMA ReweightedWorks ==
    ASSUME NEW s \in EntType, NEW w \in Weights, NEW t, t = Reweighted(s, w)
    PROVE  /\ t \in EntType /\ t.w = w /\ t.st = s.st /\ t.vr = s.vr /\ t.dl = s.dl
           /\ t.slice = s.slice /\ t.rel = abk_eevdf_scale_rel_deadline(s, w)
           /\ s.rel # NoTag => t.rel \in Nat /\ t.rel # NoTag
<1>1. s.vlag \in Int /\ s.w \in Nat \ {0} /\ s.rel \in Nat \cup {NoTag}
  BY EntFields
<1>2. w \in Wts /\ w \in Nat \ {0}
  BY Weigh DEF Wts
<1>3. PICK v \in Int : v = DivS64(s.vlag * s.w, w)
  <2>1. s.vlag * s.w \in Int
    <3>1. \A x \in Int, y \in Nat \ {0} : x * y \in Int
      OBVIOUS
    <3> QED
      BY <1>1, <3>1
  <2> QED
    BY <1>2, <2>1, Divided
<1>4. PICK r \in Nat \cup {NoTag} : r = abk_eevdf_scale_rel_deadline(s, w)
  <2>1. CASE s.rel = NoTag
    BY <2>1 DEF abk_eevdf_scale_rel_deadline
  <2>2. CASE s.rel # NoTag
    <3>1. s.rel * s.w \in Nat
      BY <1>1, <2>2
    <3>2. (s.rel * s.w) \div w \in Nat
      BY <1>2, <3>1, Divided
    <3> QED
      BY <2>2, <3>2 DEF abk_eevdf_scale_rel_deadline
  <2> QED
    BY <2>1, <2>2
<1>5. s.rel # NoTag => r \in Nat /\ r # NoTag
  <2>1. ASSUME s.rel # NoTag PROVE r \in Nat
    <3>1. s.rel * s.w \in Nat
      BY <1>1, <2>1
    <3> QED
      BY <1>2, <1>4, <2>1, <3>1, Divided DEF abk_eevdf_scale_rel_deadline
  <2> QED
    BY <2>1 DEF NoTag
<1>6. t = [s EXCEPT !.vlag = v, !.w = w, !.rel = r]
  BY <1>3, <1>4, Zenon DEF Reweighted
<1>7. /\ t \in EntType /\ t.w = w /\ t.st = s.st /\ t.vr = s.vr /\ t.dl = s.dl
      /\ t.slice = s.slice /\ t.rel = r
  BY <1>2, <1>6, Zenon DEF EntType
<1> QED
  BY <1>4, <1>5, <1>7

(* What a request is after the placement: what was left of it, if there is *)
(* any, or a new one.                                                      *)
LEMMA Requested ==
    ASSUME NEW s \in EntType, NEW initial \in BOOLEAN
    PROVE  /\ Request(s, initial) \in Nat \ {0}
           /\ s.rel \notin {NoTag, 0} => Request(s, initial) = s.rel
           /\ s.rel = 0 => Request(s, initial) = abk_eevdf_vslice(s)
<1>1. s.rel \in Nat \cup {NoTag} /\ abk_eevdf_vslice(s) \in Nat \ {0}
  BY EntFields, Slices
<1>2. Max({abk_eevdf_vslice(s) \div 2, 1}) \in Nat \ {0}
  <2>1. PICK h \in Int : h = abk_eevdf_vslice(s) \div 2
    BY <1>1
  <2>2. 1 \in Int
    OBVIOUS
  <2>3. Max({h, 1}) \in Int /\ Max({h, 1}) >= 1
    BY <2>2, MaxTwo, Zenon
  <2> QED
    BY <2>1, <2>3
<1>3. 0 # NoTag
  BY DEF NoTag
<1> QED
  BY <1>1, <1>2, <1>3 DEF Request

(* The lag by which an entity is placed is a number.                       *)
LEMMA LagWorks ==
    ASSUME NEW Q \in RqType, Q.load \in Nat, NEW e \in Entities
    PROVE  /\ abk_eevdf_preserved_lag(Q, e) \in Int
           /\ \A l \in Int : abk_eevdf_apply_lag_placement(Q, l) \in Int
<1>1. Q.se[e] \in EntType /\ Q.se[e].vlag \in Int /\ Q.se[e].w \in Nat
  BY RqFields, EntFields
<1>2. PICK l \in Int : l = clamp(Q.se[e].vlag, abk_eevdf_lag_limit(Q.se[e]))
  BY <1>1, Clamped, LagLimit
<1>3. abk_eevdf_preserved_lag(Q, e) \in Int
  <2>1. l * (Q.load + Q.se[e].w) \in Int
    <3>1. \A x \in Int, y, z \in Nat : x * (y + z) \in Int
      OBVIOUS
    <3> QED
      BY <1>1, <1>2, <3>1
  <2>2. Q.load # 0 => DivS64(l * (Q.load + Q.se[e].w), Q.load) \in Int
    BY <2>1, Divided
  <2>3. abk_eevdf_preserved_lag(Q, e)
          = IF Q.load = 0 THEN l ELSE DivS64(l * (Q.load + Q.se[e].w), Q.load)
    BY <1>2 DEF abk_eevdf_preserved_lag
  <2> QED
    BY <2>2, <2>3
<1>4. ASSUME NEW x \in Int PROVE abk_eevdf_apply_lag_placement(Q, x) \in Int
  <2>1. PICK V \in Int : V = avg_vruntime(Q)
    BY AvgWorks
  <2>2. Min({V, x}) \in Int
    BY MinTwo
  <2>3. abk_eevdf_apply_lag_placement(Q, x)
          = IF x > 0 /\ V >= 0 THEN V - Min({V, x}) ELSE V - x
    BY <2>1 DEF abk_eevdf_apply_lag_placement
  <2> QED
    BY <2>2, <2>3
<1> QED
  BY <1>3, <1>4

(* A placed entity carries nothing any more and has a request before it.   *)
Placed(s, t, initial) ==
    /\ Stays(s, t) /\ t.rel = NoTag /\ t.vlag = 0 /\ t.fresh = initial /\ t.vr < t.dl
    /\ t.slice = abk_eevdf_slice(s)
    /\ s.rel \notin {NoTag, 0} => t.dl - t.vr = s.rel
    /\ s.rel = 0 => t.dl - t.vr = abk_eevdf_vslice(t)

(* abk_eevdf_place_entity() places one.                                    *)
LEMMA EevdfPlaceWorks ==
    ASSUME NEW Q \in RqType, Q.load \in Nat, NEW e \in Entities, NEW initial \in BOOLEAN,
           NEW R, R = abk_eevdf_place_entity(Q, e, initial)
    PROVE  Touch(Q, R, e) /\ Placed(Q.se[e], R.se[e], initial)
<1> DEFINE s == [Q.se[e] EXCEPT !.slice = abk_eevdf_slice(Q.se[e])]
<1>1. Q.se[e] \in EntType
  BY RqFields
<1>2. PICK n \in AllRequests : n = abk_eevdf_slice(Q.se[e])
  BY <1>1, Slices
<1>3. /\ s \in EntType /\ s.w = Q.se[e].w /\ s.st = Q.se[e].st /\ s.vr = Q.se[e].vr
      /\ s.rel = Q.se[e].rel /\ s.slice = n
  BY <1>1, <1>2, Zenon DEF EntType
<1> DEFINE place == IF initial THEN avg_vruntime(Q)
              ELSE IF Carried(s)
              THEN abk_eevdf_apply_lag_placement(Q, abk_eevdf_preserved_lag(Q, e))
              ELSE s.vr
<1>4. PICK vr \in Int : vr = place
  <2> HIDE DEF s
  <2>1. /\ avg_vruntime(Q) \in Int /\ s.vr \in Int
        /\ abk_eevdf_apply_lag_placement(Q, abk_eevdf_preserved_lag(Q, e)) \in Int
    BY <1>3, AvgWorks, LagWorks, EntFields
  <2> QED
    BY <2>1
<1>5. PICK req \in Nat \ {0} : req = Request(s, initial)
  BY <1>3, Requested
<1>6. PICK dl \in Int : dl = vr + req
  OBVIOUS
<1> DEFINE t == [s EXCEPT !.vr = vr, !.dl = dl, !.rel = NoTag, !.vlag = 0, !.fresh = initial]
<1>7. R = Put(Q, e, t)
  <2>1. R = Put(Q, e, [s EXCEPT !.vr = place, !.dl = place + Request(s, initial),
                                !.rel = NoTag, !.vlag = 0, !.fresh = initial])
    BY DEF abk_eevdf_place_entity
  <2> HIDE DEF s, place
  <2> QED
    BY <1>4, <1>5, <1>6, <2>1, Zenon
<1> HIDE DEF s
<1>8. /\ t \in EntType /\ t.w = s.w /\ t.st = s.st /\ t.rel = NoTag /\ t.vlag = 0
      /\ t.fresh = initial /\ t.vr = vr /\ t.dl = dl /\ t.slice = s.slice
  <2>1. 0 \in Int
    OBVIOUS
  <2> QED
    BY <1>3, <2>1, Zenon DEF EntType
<1> HIDE DEF t
<1>9. Touch(Q, R, e) /\ R.se[e] = t
  BY <1>7, <1>8, PutWorks
<1>10. t.vr < t.dl /\ t.dl - t.vr = req
  BY <1>5, <1>6, <1>8
<1>11. /\ s.rel \notin {NoTag, 0} => req = s.rel
       /\ s.rel = 0 => req = abk_eevdf_vslice(s)
  BY <1>3, <1>5, Requested
<1>12. abk_eevdf_vslice(s) = abk_eevdf_vslice(t)
  BY <1>3, <1>8 DEF abk_eevdf_vslice, abk_eevdf_slice, calc_delta_fair
<1>13. Stays(Q.se[e], t) /\ t.slice = abk_eevdf_slice(Q.se[e])
  BY <1>2, <1>3, <1>8 DEF Stays
<1>14. Placed(Q.se[e], t, initial)
  BY <1>3, <1>8, <1>10, <1>11, <1>12, <1>13 DEF Placed
<1> QED
  BY <1>9, <1>14

(* So does place_entity(), whatever 5.15 does first.                       *)
LEMMA PlaceWorks ==
    ASSUME NEW Q, NEW T, Good(Q, T), NEW e \in Entities \ T, NEW initial \in BOOLEAN,
           NEW long \in BOOLEAN, NEW R, R = place_entity(Q, e, initial, long)
    PROVE  Good(R, T) /\ Touch(Q, R, e) /\ Placed(Q.se[e], R.se[e], initial)
<1>1. Q \in RqType /\ Q.load \in Nat /\ Q.min \in Int /\ Q.se[e] \in EntType
  BY GoodLoad, RqFields
<1>2. PICK v \in Int : v = IF long THEN Q.min - Thresh ELSE Max({Q.se[e].vr, Q.min - Thresh})
  <2>1. PICK l \in Int : l = Q.min - Thresh
    BY <1>1, EevdfAssumption
  <2>2. Q.se[e].vr \in Int
    BY <1>1, EntFields
  <2>3. Max({Q.se[e].vr, l}) \in Int
    BY <2>2, MaxTwo
  <2> QED
    BY <2>1, <2>3
<1> DEFINE u == [Q.se[e] EXCEPT !.vr = v]
           P == IF initial THEN Q ELSE Put(Q, e, u)
<1>3. R = abk_eevdf_place_entity(P, e, initial)
  BY <1>2, Zenon DEF place_entity, Put
<1>4. /\ u \in EntType /\ u.w = Q.se[e].w /\ u.st = Q.se[e].st /\ u.rel = Q.se[e].rel
      /\ u.slice = Q.se[e].slice
  BY <1>1, Zenon DEF EntType
<1> HIDE DEF u
<1>5. Touch(Q, P, e) /\ P.se[e] \in {Q.se[e], u}
  <2>1. CASE initial
    BY <1>1, <2>1 DEF Touch, Frame
  <2>2. CASE ~initial
    BY <1>1, <1>4, <2>2, PutWorks
  <2> QED
    BY <2>1, <2>2
<1> HIDE DEF P
<1>6. P \in RqType /\ P.load \in Nat
  BY <1>1, <1>5 DEF Touch, Frame
<1>7. Touch(P, R, e) /\ Placed(P.se[e], R.se[e], initial)
  BY <1>3, <1>6, EevdfPlaceWorks
<1>8. Touch(Q, R, e)
  BY <1>5, <1>7 DEF Touch, Frame
<1>9. Placed(Q.se[e], R.se[e], initial)
  <2>1. abk_eevdf_slice(P.se[e]) = abk_eevdf_slice(Q.se[e])
    BY <1>4, <1>5 DEF abk_eevdf_slice
  <2> QED
    BY <1>4, <1>5, <1>7, <2>1 DEF Placed, Stays
<1>10. Good(R, T)
  BY <1>8, TouchKeeps
<1> QED
  BY <1>8, <1>9, <1>10

(* A request that is used up is renewed.                                   *)
LEMMA RefreshWorks ==
    ASSUME NEW Q, NEW T, Good(Q, T), NEW e \in Entities,
           NEW R, R = abk_eevdf_refresh_deadline(Q, e)
    PROVE  /\ Good(R, T) /\ Touch(Q, R, e) /\ Stays(Q.se[e], R.se[e])
           /\ R.se[e].vr < R.se[e].dl /\ R.se[e].rel = NoTag
           /\ R.se[e].vlag = Q.se[e].vlag
<1> DEFINE was == Q.se[e]
<1>1. Q \in RqType /\ was \in EntType
  BY RqFields DEF Good
<1>2. was.vr \in Int /\ was.dl \in Int /\ was.rel \in Int
  BY <1>1, EntFields
<1>3. PICK d \in Int : d = was.vr + was.rel
  BY <1>2
<1> DEFINE s == IF was.rel = NoTag THEN was ELSE [was EXCEPT !.dl = d, !.rel = NoTag]
<1>4. /\ Stays(was, s) /\ s.vr = was.vr /\ s.rel = NoTag /\ s.vlag = was.vlag
      /\ s.slice = was.slice
  <2>1. CASE was.rel = NoTag
    BY <1>1, <2>1 DEF Stays
  <2>2. CASE was.rel # NoTag
    BY <1>1, <2>2, Zenon DEF EntType, Stays
  <2> QED
    BY <2>1, <2>2
<1>5. s \in EntType /\ s.vr \in Int /\ s.dl \in Int
  <2>1. s \in EntType
    BY <1>4 DEF Stays
  <2> HIDE DEF s
  <2> QED
    BY <2>1, EntFields
<1>6. PICK n \in AllRequests : n = abk_eevdf_slice(s)
  BY <1>5, Slices
<1>7. PICK x \in Int : x = s.vr + abk_eevdf_vslice(s) /\ s.vr < x
  <2> HIDE DEF s
  <2>1. PICK v \in Nat \ {0} : v = abk_eevdf_vslice(s)
    BY <1>5, Slices
  <2> QED
    BY <1>5, <2>1
<1> DEFINE t == [s EXCEPT !.slice = n, !.fresh = FALSE, !.dl = x]
           P == Put(Q, e, t)
<1>8. R = IF s.vr - s.dl < 0 THEN Put(Q, e, s)
          ELSE IF Runnable(Q) \ {e} = {} THEN P
          ELSE [clear_buddies(P, e) EXCEPT !.resched = TRUE]
  <2> DEFINE r == IF was.rel = NoTag THEN was
                  ELSE [was EXCEPT !.dl = was.vr + was.rel, !.rel = NoTag]
             p == Put(Q, e, [r EXCEPT !.slice = abk_eevdf_slice(r), !.fresh = FALSE,
                                      !.dl = r.vr + abk_eevdf_vslice(r)])
  <2>1. R = IF r.vr - r.dl < 0 THEN Put(Q, e, r)
            ELSE IF Runnable(Q) \ {e} = {} THEN p
            ELSE [clear_buddies(p, e) EXCEPT !.resched = TRUE]
    BY DEF abk_eevdf_refresh_deadline
  <2>2. r = s
    BY <1>3, Zenon
  <2> HIDE DEF r, s
  <2>3. p = P
    BY <1>6, <1>7, <2>2, Zenon
  <2> HIDE DEF p, P
  <2> QED
    BY <2>1, <2>2, <2>3, Zenon
<1> HIDE DEF s, was
<1>9. /\ Stays(s, t) /\ t.vr = s.vr /\ t.dl = x /\ t.rel = s.rel /\ t.vlag = s.vlag
  BY <1>5, <1>6, Zenon DEF EntType, Stays
<1> HIDE DEF t
<1>10. Touch(Q, P, e) /\ P.se[e] = t
  BY <1>1, <1>9, PutWorks DEF Stays
<1>11. Touch(Q, Put(Q, e, s), e) /\ Put(Q, e, s).se[e] = s
  BY <1>1, <1>5, PutWorks
<1> HIDE DEF P
<1>12. \/ s.vr < s.dl /\ Touch(Q, R, e) /\ R.se[e] = s
       \/ Touch(Q, R, e) /\ R.se[e] = t
  <2>1. CASE s.vr - s.dl < 0
    BY <1>5, <1>8, <1>11, <2>1
  <2>2. CASE ~(s.vr - s.dl < 0) /\ Runnable(Q) \ {e} = {}
    BY <1>8, <1>10, <2>2
  <2>3. CASE ~(s.vr - s.dl < 0) /\ Runnable(Q) \ {e} # {}
    <3> DEFINE C == clear_buddies(P, e)
    <3>1. Flags(P, C)
      BY <1>10, BuddiesCleared DEF Touch
    <3>2. R = [C EXCEPT !.resched = TRUE]
      BY <1>8, <2>3
    <3> HIDE DEF C
    <3>3. Flags(C, R)
      BY <3>1, <3>2, FlagsPut DEF Flags
    <3> QED
      BY <1>10, <3>1, <3>3 DEF Flags, Touch, Frame
  <2> QED
    BY <2>1, <2>2, <2>3
<1>13. /\ Touch(Q, R, e) /\ Stays(was, R.se[e]) /\ R.se[e].vr = was.vr
       /\ R.se[e].vr < R.se[e].dl /\ R.se[e].rel = NoTag /\ R.se[e].vlag = was.vlag
  BY <1>4, <1>7, <1>9, <1>12 DEF Stays
<1>14. Good(R, T)
  BY <1>13, TouchKeeps DEF Stays, was
<1> QED
  BY <1>13, <1>14 DEF was

-----------------------------------------------------------------------------
(* What the critical sections are composed of                              *)

(* Who is runnable depends on the states of the entities only.             *)
LEMMA SameRunnable ==
    ASSUME NEW Q, NEW R, \A f \in Entities : R.se[f].st = Q.se[f].st
    PROVE  Runnable(R) = Runnable(Q) /\ (R.curr = Q.curr => Tree(R) = Tree(Q))
  BY DEF Runnable, Tree

(* What the invariant says.                                                *)
LEMMA InvFacts ==
    ASSUME NEW Q, EevdfInv(Q)
    PROVE  /\ Within(Q) /\ Good(Q, Tree(Q)) /\ Q \in RqType
           /\ \A e \in Entities : Keeps(Q.se[e]) /\ Q.se[e] \in EntType
           /\ Q.curr # None => Q.curr \in Runnable(Q) /\ Q.curr \in Entities
           /\ \A e \in Entities \ Runnable(Q) : e # Q.curr
           /\ Q.curr \notin Tree(Q)
<1>1. Q \in RqType /\ \A e \in Entities : Q.se[e] \in EntType
  BY RqFields DEF EevdfInv, Within, Good
<1>2. Runnable(Q) \in SUBSET Entities /\ None \notin Entities
  BY Sets
<1> QED
  BY <1>1, <1>2 DEF EevdfInv, Within, Tree

(* Flags do not matter.                                                    *)
LEMMA FlagsInv ==
    ASSUME NEW Q, NEW R, Flags(Q, R)
    PROVE  /\ Runnable(R) = Runnable(Q) /\ Tree(R) = Tree(Q)
           /\ Within(Q) => Within(R)
           /\ EevdfInv(Q) => EevdfInv(R)
<1>1. R.se = Q.se /\ R.curr = Q.curr
  BY DEF Flags, Frame
<1>2. Runnable(R) = Runnable(Q) /\ Tree(R) = Tree(Q)
  BY <1>1, SameRunnable
<1>3. Within(Q) => Within(R)
  BY <1>1, <1>2, FlagsKeep DEF Within
<1> QED
  BY <1>1, <1>2, <1>3 DEF EevdfInv

(* The current entity has run for a while.                                 *)
LEMMA CurrWorks ==
    ASSUME NEW Q, EevdfInv(Q), NEW delta \in Nat, NEW R, R = update_curr(Q, delta)
    PROVE  /\ EevdfInv(R) /\ R.curr = Q.curr
           /\ Runnable(R) = Runnable(Q) /\ Tree(R) = Tree(Q)
           /\ \A f \in Entities : Stays(Q.se[f], R.se[f])
           /\ \A f \in Entities : f # Q.curr => R.se[f] = Q.se[f]
<1>0. /\ Good(Q, Tree(Q)) /\ Q \in RqType
      /\ \A e \in Entities : Keeps(Q.se[e]) /\ Q.se[e] \in EntType
  BY InvFacts
<1>1. CASE Q.curr = None \/ delta = 0
  BY <1>0, <1>1 DEF update_curr, Stays
<1>2. CASE Q.curr # None /\ delta # 0
  <2> DEFINE c == Q.curr
             T == Tree(Q)
             s == Q.se[c]
  <2>1. c \in Entities /\ c \in Runnable(Q) /\ c \notin T
    BY <1>2, InvFacts
  <2>2. s \in EntType /\ s.st = "rq" /\ Settled(s)
    BY <1>0, <2>1 DEF Runnable, Keeps
  <2>3. PICK v \in Int : v = s.vr + calc_delta_fair(delta, s)
    <3>1. s.vr \in Int /\ calc_delta_fair(delta, s) \in Nat
      BY <2>2, EntFields, Slices
    <3> QED
      BY <3>1
  <2> DEFINE u == [s EXCEPT !.vr = v]
             A == Put(Q, c, u)
             B == abk_eevdf_refresh_deadline(A, c)
  <2>4. R = update_min_vruntime(B)
    BY <1>2, <2>3, Zenon DEF update_curr, Put
  <2>5. Stays(s, u) /\ u.vlag = s.vlag
    BY <2>2, Zenon DEF EntType, Stays
  <2> HIDE DEF u
  <2>6. Touch(Q, A, c) /\ A.se[c] = u
    BY <1>0, <2>1, <2>5, PutWorks DEF Stays
  <2>7. Good(A, T)
    BY <1>0, <2>1, <2>6, TouchKeeps
  <2> HIDE DEF A
  <2>8. /\ Good(B, T) /\ Touch(A, B, c) /\ Stays(A.se[c], B.se[c])
        /\ B.se[c].vr < B.se[c].dl /\ B.se[c].rel = NoTag
        /\ B.se[c].vlag = A.se[c].vlag
    BY <2>1, <2>7, RefreshWorks
  <2> HIDE DEF B
  <2>9. Good(R, T) /\ R.se = B.se /\ R.curr = B.curr
    BY <2>4, <2>8, UpdateMinWorks
  <2>10. R.curr = c
    BY <2>6, <2>8, <2>9 DEF Touch, Frame
  <2>11. \A f \in Entities : f # c => R.se[f] = Q.se[f]
    BY <2>6, <2>8, <2>9 DEF Touch
  <2>12. Stays(s, R.se[c])
    BY <2>5, <2>6, <2>8, <2>9 DEF Stays
  <2>13. \A f \in Entities : Stays(Q.se[f], R.se[f])
    BY <1>0, <2>11, <2>12 DEF Stays
  <2>14. Runnable(R) = Runnable(Q) /\ Tree(R) = T
    BY <2>10, <2>13, SameRunnable DEF Stays
  <2>15. Keeps(R.se[c])
    <3>1. s.vlag = 0
      BY <2>2 DEF Settled, Carried
    <3>2. R.se[c].st = "rq" /\ R.se[c].vlag = 0
      BY <2>2, <2>5, <2>6, <2>8, <2>9, <2>12, <3>1 DEF Stays
    <3> QED
      BY <2>8, <2>9, <3>2 DEF Keeps, Settled, Carried
  <2>16. Within(R)
    BY <1>0, <2>9, <2>11, <2>14, <2>15 DEF Within
  <2>17. EevdfInv(R)
    BY <2>1, <2>10, <2>14, <2>16 DEF EevdfInv
  <2> QED
    BY <2>10, <2>11, <2>13, <2>14, <2>17
<1> QED
  BY <1>1, <1>2

(* What an entity that is enqueued has left of its request.                *)
Resumes(s, t) ==
    /\ t.w = s.w
    /\ s.rel # NoTag => t.slice = abk_eevdf_slice(s)
    /\ s.rel \notin {NoTag, 0} => t.dl - t.vr = s.rel
    /\ s.rel = 0 => t.dl - t.vr = abk_eevdf_vslice(t)

(* What it is for an entity to come to the run queue.                      *)
Joins(Q, R, e) ==
    /\ EevdfInv(R) /\ R.curr = Q.curr /\ Runnable(R) = Runnable(Q) \cup {e}
    /\ Resumes(Q.se[e], R.se[e])
    /\ \A f \in Entities \ {e} : R.se[f].w = Q.se[f].w

(* An entity comes to the run queue.                                       *)
LEMMA EnqueueWorks ==
    ASSUME NEW Q, EevdfInv(Q), NEW e \in Entities \ Runnable(Q), NEW delta \in Nat,
           NEW wakeup \in BOOLEAN, NEW long \in BOOLEAN,
           wakeup \/ Q.se[e].st \in {"new", "away"}
    PROVE  Joins(Q, enqueue_entity(Q, e, wakeup, long, delta), e)
<1> DEFINE R == enqueue_entity(Q, e, wakeup, long, delta)
<1> DEFINE N == update_curr(Q, delta)
           T == Tree(Q)
<1>1. /\ EevdfInv(N) /\ N.curr = Q.curr /\ Runnable(N) = Runnable(Q) /\ Tree(N) = T
      /\ \A f \in Entities : Stays(Q.se[f], N.se[f])
      /\ \A f \in Entities : f # Q.curr => N.se[f] = Q.se[f]
  BY CurrWorks
<1> DEFINE M == IF wakeup THEN N ELSE [N EXCEPT !.se[e].vr = @ + N.min]
           P == IF wakeup \/ Carried(M.se[e]) THEN place_entity(M, e, FALSE, long) ELSE M
           A == abk_avg_vruntime_add(P, e)
<1>2. R = [A EXCEPT !.se[e].st = "rq"]
  BY DEF enqueue_entity
<1> HIDE DEF N, R
<1>3. /\ Good(N, T) /\ N \in RqType /\ N.min \in Int
      /\ \A f \in Entities : Keeps(N.se[f]) /\ N.se[f] \in EntType
  BY <1>1, InvFacts, RqFields
<1>4. e # Q.curr /\ e \notin T /\ N.se[e] = Q.se[e] /\ e \in Entities
  BY <1>1, InvFacts, Zenon DEF Tree
<1> DEFINE s == Q.se[e]
<1>5. s \in EntType /\ Keeps(s)
  BY <1>3, <1>4
<1>6. /\ Good(M, T) /\ Touch(N, M, e) /\ Stays(s, M.se[e])
      /\ M.se[e].rel = s.rel /\ M.se[e].vlag = s.vlag /\ M.se[e].slice = s.slice
      /\ M.se[e].fresh = s.fresh
      /\ wakeup => M.se[e] = s
  <2>1. CASE wakeup
    BY <1>3, <1>4, <1>5, <2>1 DEF Touch, Frame, Stays
  <2>2. CASE ~wakeup
    <3>1. PICK v \in Int : v = N.se[e].vr + N.min
      BY <1>3, <1>4, EntFields
    <3> DEFINE u == [N.se[e] EXCEPT !.vr = v]
    <3>2. M = Put(N, e, u)
      BY <2>2, <3>1, Zenon DEF Put
    <3>3. /\ Stays(s, u) /\ u.rel = s.rel /\ u.vlag = s.vlag /\ u.slice = s.slice
          /\ u.fresh = s.fresh
      BY <1>4, <1>5, Zenon DEF EntType, Stays
    <3> HIDE DEF u, M
    <3>4. Touch(N, M, e) /\ M.se[e] = u
      BY <1>3, <1>4, <3>2, <3>3, PutWorks DEF Stays
    <3>5. Good(M, T)
      BY <1>3, <1>4, <3>4, TouchKeeps
    <3> QED
      BY <2>2, <3>3, <3>4, <3>5
  <2> QED
    BY <2>1, <2>2
<1> HIDE DEF M
<1>7. /\ Good(P, T) /\ Touch(N, P, e) /\ Stays(s, P.se[e]) /\ Settled(P.se[e])
      /\ Resumes(s, P.se[e])
  <2>1. CASE wakeup \/ Carried(M.se[e])
    <3>1. P = place_entity(M, e, FALSE, long)
      BY <2>1
    <3>2. Good(P, T) /\ Touch(M, P, e) /\ Placed(M.se[e], P.se[e], FALSE)
      BY <1>4, <1>6, <3>1, PlaceWorks
    <3>3. Touch(N, P, e)
      BY <1>6, <3>2 DEF Touch, Frame
    <3>4. Stays(s, P.se[e]) /\ Settled(P.se[e])
      BY <1>6, <3>2 DEF Placed, Stays, Settled, Carried
    <3>5. abk_eevdf_slice(M.se[e]) = abk_eevdf_slice(s)
      BY <1>6 DEF abk_eevdf_slice
    <3> HIDE DEF P
    <3>6. Resumes(s, P.se[e])
      BY <1>6, <3>2, <3>4, <3>5 DEF Resumes, Placed, Stays
    <3> QED
      BY <3>2, <3>3, <3>4, <3>6
  <2>2. CASE ~(wakeup \/ Carried(M.se[e]))
    <3>1. P = M
      BY <2>2
    <3>2. M.se[e].rel = NoTag /\ M.se[e].vlag = 0
      BY <2>2 DEF Carried
    <3>3. M.se[e].fresh
      BY <1>5, <1>6, <2>2, <3>2 DEF Keeps
    <3>4. Settled(M.se[e])
      BY <3>2, <3>3 DEF Settled, Carried
    <3>5. s.rel = NoTag /\ NoTag # 0
      BY <1>6, <3>2 DEF NoTag
    <3>6. Resumes(s, M.se[e])
      BY <1>6, <3>5 DEF Resumes, Stays
    <3> QED
      BY <1>6, <3>1, <3>4, <3>6
  <2> QED
    BY <2>1, <2>2
<1> HIDE DEF P
<1>8. Good(A, T \cup {e}) /\ A.se = P.se /\ A.min = P.min /\ A.curr = P.curr
  BY <1>4, <1>7, AddWorks
<1> HIDE DEF A
<1> DEFINE t == [A.se[e] EXCEPT !.st = "rq"]
<1>9. R = Put(A, e, t)
  BY <1>2, Zenon DEF Put
<1>10. A.se[e] \in EntType /\ A \in RqType
  BY <1>4, <1>8, RqFields DEF Good
<1>11. /\ t \in EntType /\ t.w = A.se[e].w /\ t.st = "rq" /\ t.rel = A.se[e].rel
       /\ t.vlag = A.se[e].vlag /\ t.fresh = A.se[e].fresh /\ t.vr = A.se[e].vr
       /\ t.dl = A.se[e].dl /\ t.slice = A.se[e].slice
  BY <1>10, Zenon DEF EntType
<1> HIDE DEF t
<1>12. Touch(A, R, e) /\ R.se[e] = t
  BY <1>4, <1>9, <1>10, <1>11, PutWorks
<1>13. Good(R, T \cup {e})
  BY <1>8, <1>11, <1>12, TouchKeeps
<1>14. R.curr = Q.curr
  BY <1>1, <1>7, <1>8, <1>12 DEF Touch, Frame
<1>15. \A f \in Entities \ {e} : R.se[f] = N.se[f]
  BY <1>7, <1>8, <1>12 DEF Touch
<1>16. R.se[e].st = "rq" /\ Settled(R.se[e]) /\ Resumes(s, R.se[e])
  <2>1. abk_eevdf_vslice(t) = abk_eevdf_vslice(P.se[e])
    BY <1>8, <1>11 DEF abk_eevdf_vslice, abk_eevdf_slice, calc_delta_fair
  <2>2. Settled(t)
    BY <1>7, <1>8, <1>11 DEF Settled, Carried
  <2>3. Resumes(s, t)
    BY <1>7, <1>8, <1>11, <2>1 DEF Resumes
  <2> QED
    BY <1>11, <1>12, <2>2, <2>3
<1>17. Runnable(R) = Runnable(Q) \cup {e}
  BY <1>1, <1>4, <1>15, <1>16 DEF Runnable, Stays
<1>18. Tree(R) = T \cup {e}
  BY <1>4, <1>14, <1>17 DEF Tree
<1>19. Within(R)
  <2>1. Keeps(R.se[e])
    BY <1>16 DEF Keeps
  <2> QED
    BY <1>3, <1>13, <1>15, <1>18, <2>1 DEF Within
<1>20. EevdfInv(R)
  <2>1. Q.curr = None \/ Q.curr \in Runnable(Q)
    BY DEF EevdfInv
  <2> QED
    BY <1>14, <1>17, <1>19, <2>1 DEF EevdfInv
<1>21. \A f \in Entities \ {e} : R.se[f].w = Q.se[f].w
  BY <1>1, <1>15 DEF Stays
<1> QED
  BY <1>14, <1>16, <1>17, <1>20, <1>21 DEF R, Joins

(* What is left of the request of an entity that is taken out.             *)
Saves(s, t) ==
    /\ t.w = s.w /\ t.slice = s.slice
    /\ s.vr < s.dl => t.rel = IF s.dl # 0 THEN s.dl - s.vr ELSE 0

(* What it is for an entity to leave it.                                   *)
Leaves(Q, R, e, sleep) ==
    /\ Within(R) /\ R.curr = Q.curr /\ Runnable(R) = Runnable(Q) \ {e}
    /\ R.se[e].st = (IF sleep THEN "off" ELSE "away") /\ R.se[e].w = Q.se[e].w
    /\ ~sleep => R.se[e].rel # NoTag
    /\ ~sleep /\ e # Q.curr => Saves(Q.se[e], R.se[e])
    /\ \A f \in Entities \ {e} : R.se[f].w = Q.se[f].w

(* An entity leaves the run queue.                                         *)
LEMMA DequeueWorks ==
    ASSUME NEW Q, EevdfInv(Q), NEW e \in Runnable(Q), NEW delta \in Nat,
           NEW sleep \in BOOLEAN, NEW save \in BOOLEAN
    PROVE  Leaves(Q, dequeue_entity(Q, e, sleep, save, delta), e, sleep)
<1> DEFINE R == dequeue_entity(Q, e, sleep, save, delta)
<1> DEFINE N == update_curr(Q, delta)
           T == Tree(Q)
           C == clear_buddies(N, e)
           L == abk_eevdf_update_lag(C, e)
           S == IF sleep THEN L ELSE abk_eevdf_store_rel_deadline(L, e)
           O == IF e = Q.curr THEN S ELSE abk_avg_vruntime_sub(S, e)
           U == IF e = Q.curr THEN T ELSE T \ {e}
           F == [O EXCEPT !.se[e].st = IF sleep THEN "off" ELSE "away",
                          !.se[e].vr = IF sleep THEN @ ELSE @ - O.min]
<1>1. R = IF save THEN F ELSE update_min_vruntime(F)
  BY DEF dequeue_entity
<1> HIDE DEF R
<1>2. /\ EevdfInv(N) /\ N.curr = Q.curr /\ Runnable(N) = Runnable(Q) /\ Tree(N) = T
      /\ \A f \in Entities : Stays(Q.se[f], N.se[f])
      /\ \A f \in Entities : f # Q.curr => N.se[f] = Q.se[f]
  BY CurrWorks
<1> HIDE DEF N
<1>3. /\ Good(N, T) /\ N \in RqType
      /\ \A f \in Entities : Keeps(N.se[f]) /\ N.se[f] \in EntType
  BY <1>2, InvFacts
<1>4. e \in Entities /\ (e # Q.curr => e \in T) /\ Q.curr \notin T
  BY Sets DEF Tree
<1>5. Good(C, T) /\ Flags(N, C)
  BY <1>3, <1>4, BuddiesCleared, FlagsKeep
<1> HIDE DEF C
<1>6. /\ Good(L, T) /\ Touch(C, L, e) /\ Stays(C.se[e], L.se[e])
      /\ L.se[e].vr = C.se[e].vr /\ L.se[e].dl = C.se[e].dl
      /\ L.se[e].slice = C.se[e].slice
  BY <1>4, <1>5, UpdateLagWorks
<1> HIDE DEF L
<1>7. /\ Good(S, T) /\ Touch(L, S, e) /\ Stays(L.se[e], S.se[e])
      /\ S.se[e].vr = L.se[e].vr /\ S.se[e].slice = L.se[e].slice
      /\ ~sleep => S.se[e].rel # NoTag
      /\ ~sleep /\ L.se[e].vr < L.se[e].dl =>
            S.se[e].rel = IF L.se[e].dl # 0 THEN L.se[e].dl - L.se[e].vr ELSE 0
  <2>1. CASE sleep
    BY <1>6, <2>1 DEF Touch, Frame, Stays, Good
  <2>2. CASE ~sleep
    <3>1. S = abk_eevdf_store_rel_deadline(L, e)
      BY <2>2
    <3> HIDE DEF S
    <3> QED
      BY <1>4, <1>6, <2>2, <3>1, StoreRelWorks
  <2> QED
    BY <2>1, <2>2
<1> HIDE DEF S
<1>8. Good(O, U) /\ O.se = S.se /\ O.curr = S.curr /\ e \notin U
  <2>1. CASE e = Q.curr
    BY <1>4, <1>7, <2>1
  <2>2. CASE e # Q.curr
    BY <1>4, <1>7, <2>2, SubWorks
  <2> QED
    BY <2>1, <2>2
<1> HIDE DEF O
<1>9. O \in RqType /\ O.se[e] \in EntType /\ O.min \in Int
  BY <1>4, <1>8, RqFields DEF Good
<1>10. PICK v \in Int : v = IF sleep THEN O.se[e].vr ELSE O.se[e].vr - O.min
  BY <1>9, EntFields
<1>11. PICK st \in {"off", "away"} : st = IF sleep THEN "off" ELSE "away"
  OBVIOUS
<1> DEFINE t == [O.se[e] EXCEPT !.st = st, !.vr = v]
<1>12. F = Put(O, e, t)
  <2>1. O.se \in [Entities -> EntType]
    BY <1>9, RqFields
  <2> QED
    BY <1>4, <1>9, <1>10, <1>11, <2>1 DEF Put
<1>13. /\ t \in EntType /\ t.st = st /\ t.w = O.se[e].w /\ t.rel = O.se[e].rel
       /\ t.slice = O.se[e].slice
  BY <1>9, <1>11, Zenon DEF EntType
<1> HIDE DEF t, F
<1>14. Touch(O, F, e) /\ F.se[e] = t
  BY <1>4, <1>9, <1>12, <1>13, PutWorks
<1>15. Good(F, U)
  BY <1>8, <1>14, TouchKeeps
<1>16. Good(R, U) /\ R.se = F.se /\ R.curr = F.curr
  BY <1>1, <1>15, UpdateMinWorks
<1>17. R.curr = Q.curr
  BY <1>2, <1>5, <1>6, <1>7, <1>8, <1>14, <1>16 DEF Touch, Flags, Frame
<1>18. \A f \in Entities \ {e} : R.se[f] = N.se[f]
  BY <1>5, <1>6, <1>7, <1>8, <1>14, <1>16 DEF Touch, Flags
<1>19. R.se[e].st = st /\ R.se[e].w = Q.se[e].w
  BY <1>2, <1>4, <1>5, <1>6, <1>7, <1>8, <1>13, <1>14, <1>16 DEF Stays, Flags
<1>20. ~sleep => R.se[e].rel # NoTag
  BY <1>7, <1>8, <1>13, <1>14, <1>16
<1>21. ~sleep /\ e # Q.curr => Saves(Q.se[e], R.se[e])
  BY <1>2, <1>4, <1>5, <1>6, <1>7, <1>8, <1>13, <1>14, <1>16, <1>19 DEF Saves, Flags
<1>22. Runnable(R) = Runnable(Q) \ {e}
  BY <1>2, <1>11, <1>18, <1>19 DEF Runnable, Stays
<1>23. Tree(R) = U
  BY <1>4, <1>17, <1>22 DEF Tree
<1>24. Within(R)
  <2>1. Keeps(R.se[e])
    BY <1>11, <1>19, <1>20 DEF Keeps
  <2> QED
    BY <1>3, <1>16, <1>18, <1>23, <2>1 DEF Within
<1>25. \A f \in Entities \ {e} : R.se[f].w = Q.se[f].w
  BY <1>2, <1>18 DEF Stays
<1> QED
  BY <1>11, <1>17, <1>19, <1>20, <1>21, <1>22, <1>24, <1>25 DEF R, Leaves

(* The current entity goes back to the tree, or has left already.          *)
LEMMA PutPrevWorks ==
    ASSUME NEW Q, Within(Q), NEW R, R = put_prev_entity(Q)
    PROVE  EevdfInv(R) /\ R.curr = None /\ R.se = Q.se /\ Runnable(R) = Runnable(Q)
<1>1. Good(Q, Tree(Q)) /\ Q \in RqType /\ \A e \in Entities : Keeps(Q.se[e])
  BY DEF Within, Good
<1>2. Runnable(Q) \in SUBSET Entities /\ None \notin Entities
  BY Sets
<1>3. ASSUME NEW A, Good(A, Runnable(Q)), A.se = Q.se, R = [A EXCEPT !.curr = None]
      PROVE  EevdfInv(R) /\ R.curr = None /\ R.se = Q.se /\ Runnable(R) = Runnable(Q)
  <2>1. A \in RqType /\ None \in Buddies
    BY <1>3 DEF Good, Buddies
  <2>2. Passed(A, R, None)
    BY <1>3, <2>1, CurrPut
  <2>3. /\ R \in RqType /\ R.se = Q.se /\ R.curr = None
        /\ R.min = A.min /\ R.sum = A.sum /\ R.load = A.load
    BY <1>3, <2>2 DEF Passed
  <2>4. Good(R, Runnable(Q))
    <3>1. Good(A, Runnable(Q)) /\ R.se = A.se
      BY <1>3, <2>3
    <3>2. \A f \in Runnable(Q) : R.se[f].vr = A.se[f].vr /\ R.se[f].w = A.se[f].w
      BY <3>1
    <3> QED
      BY <2>3, <3>1, <3>2, SumsKept
  <2>5. Runnable(R) = Runnable(Q) /\ Tree(R) = Runnable(Q)
    BY <1>2, <2>3 DEF Runnable, Tree
  <2> QED
    BY <1>1, <2>3, <2>4, <2>5 DEF EevdfInv, Within
<1>4. CASE Q.curr \in Runnable(Q)
  <2> DEFINE A == abk_avg_vruntime_add(Q, Q.curr)
  <2>1. Q.curr \in Entities \ Tree(Q) /\ Tree(Q) \cup {Q.curr} = Runnable(Q)
    BY <1>2, <1>4 DEF Tree
  <2>2. Good(A, Tree(Q) \cup {Q.curr}) /\ A.se = Q.se
    BY <1>1, <2>1, AddWorks
  <2>3. R = [A EXCEPT !.curr = None]
    BY <1>4 DEF put_prev_entity
  <2> HIDE DEF A
  <2> QED
    BY <1>3, <2>1, <2>2, <2>3
<1>5. CASE Q.curr \notin Runnable(Q)
  <2>1. Tree(Q) = Runnable(Q)
    BY <1>5 DEF Tree
  <2>2. R = [Q EXCEPT !.curr = None]
    BY <1>5 DEF put_prev_entity
  <2> QED
    BY <1>1, <1>3, <2>1, <2>2
<1> QED
  BY <1>4, <1>5

(* An entity becomes the current one.                                      *)
LEMMA SetNextWorks ==
    ASSUME NEW Q, Within(Q), Q.curr = None, NEW p \in Runnable(Q),
           NEW R, R = set_next_entity(Q, p)
    PROVE  EevdfInv(R) /\ R.curr = p /\ R.se = Q.se /\ Runnable(R) = Runnable(Q)
<1> DEFINE C == clear_buddies(Q, p)
           A == abk_avg_vruntime_sub(C, p)
           T == Tree(Q)
<1>1. Good(Q, T) /\ Q \in RqType /\ \A e \in Entities : Keeps(Q.se[e])
  BY DEF Within, Good
<1>2. p \in Entities /\ p \in T /\ T = Runnable(Q)
  BY Sets DEF Tree
<1>3. PICK d \in Int : d = Q.se[p].dl
  BY <1>1, <1>2, RqFields, EntFields
<1>4. R = [A EXCEPT !.pick = d, !.curr = p]
  BY <1>3, Zenon DEF set_next_entity
<1>5. Good(C, T) /\ C.se = Q.se
  BY <1>1, <1>2, BuddiesCleared, FlagsKeep DEF Flags
<1> HIDE DEF C
<1>6. Good(A, T \ {p}) /\ A.se = Q.se
  BY <1>2, <1>5, SubWorks
<1> HIDE DEF A
<1>7. A \in RqType /\ p \in Buddies
  BY <1>2, <1>6 DEF Good, Buddies
<1>8. Passed(A, R, p)
  BY <1>3, <1>4, <1>7, CurrPut
<1>9. /\ R \in RqType /\ R.se = Q.se /\ R.curr = p
      /\ R.min = A.min /\ R.sum = A.sum /\ R.load = A.load
  BY <1>6, <1>8 DEF Passed
<1>10. Good(R, T \ {p})
  BY <1>6, <1>9, SumsKept
<1>11. Runnable(R) = Runnable(Q) /\ Tree(R) = T \ {p}
  BY <1>2, <1>9 DEF Runnable, Tree
<1> QED
  BY <1>1, <1>9, <1>10, <1>11 DEF EevdfInv, Within

(* An entity that is not runnable changes its weight.                      *)
LEMMA ReweightOff ==
    ASSUME NEW Q, Within(Q), NEW e \in Entities \ Runnable(Q), NEW w \in Weights,
           Q.se[e].st \in {"off", "away"},
           NEW delta, NEW R, R = reweight_entity(Q, e, w, delta)
    PROVE  /\ Within(R) /\ R.curr = Q.curr /\ Runnable(R) = Runnable(Q)
           /\ R.se[e] = Reweighted(Q.se[e], w) /\ R.se[e].st = Q.se[e].st
           /\ \A f \in Entities \ {e} : R.se[f] = Q.se[f]
<1> DEFINE t == Reweighted(Q.se[e], w)
<1>1. Good(Q, Tree(Q)) /\ Q \in RqType /\ \A f \in Entities : Keeps(Q.se[f])
  BY DEF Within, Good
<1>2. Q.se[e] \in EntType /\ e \notin Tree(Q)
  BY <1>1, RqFields DEF Tree
<1>3. R = Put(Q, e, t)
  BY DEF reweight_entity
<1>4. t \in EntType /\ t.st = Q.se[e].st /\ (Q.se[e].rel # NoTag => t.rel # NoTag)
  BY <1>2, ReweightedWorks
<1> HIDE DEF t
<1>5. Touch(Q, R, e) /\ R.se[e] = t
  BY <1>1, <1>3, <1>4, PutWorks
<1>6. Good(R, Tree(Q))
  BY <1>1, <1>2, <1>5, TouchKeeps
<1>7. R.curr = Q.curr /\ \A f \in Entities \ {e} : R.se[f] = Q.se[f]
  BY <1>5 DEF Touch, Frame
<1>8. \A f \in Entities : R.se[f].st = Q.se[f].st
  BY <1>4, <1>5, <1>7
<1>9. Runnable(R) = Runnable(Q) /\ Tree(R) = Tree(Q)
  BY <1>7, <1>8, SameRunnable
<1>10. Keeps(R.se[e])
  BY <1>1, <1>4, <1>5 DEF Keeps
<1>11. Within(R)
  BY <1>1, <1>6, <1>7, <1>9, <1>10 DEF Within
<1> QED
  BY <1>4, <1>5, <1>7, <1>9, <1>11 DEF t

(* An entity whose weight has changed has what was left of its request, by *)
(* the new weight, or a new request if that is nothing.                    *)
Left(s, w) == ((s.dl - s.vr) * s.w) \div w
Scaled(s, t, w) ==
    /\ t \in EntType /\ t.w = w
    /\ s.vr < s.dl /\ s.dl # 0 =>
          t.dl - t.vr = IF Left(s, w) = 0 THEN abk_eevdf_vslice(t) ELSE Left(s, w)

(* That is what scaling the stored request by the weights makes of it.     *)
LEMMA ScaleWorks ==
    ASSUME NEW s \in EntType, NEW o \in EntType, NEW w \in Weights,
           o.w = s.w, s.vr < s.dl, s.dl # 0, o.rel = s.dl - s.vr
    PROVE  /\ abk_eevdf_scale_rel_deadline(o, w) = Left(s, w)
           /\ Left(s, w) \in Nat /\ Left(s, w) # NoTag
<1>1. /\ s.vr \in Int /\ s.dl \in Int /\ s.w \in Nat \ {0}
  BY EntFields
<1>2. PICK r \in Nat : r = s.dl - s.vr
  BY <1>1
<1>3. r # NoTag
  BY DEF NoTag
<1>4. abk_eevdf_scale_rel_deadline(o, w) = Left(s, w)
  BY <1>2, <1>3, Zenon DEF abk_eevdf_scale_rel_deadline, Left
<1>5. PICK k \in Nat : k = r * s.w
  BY <1>1
<1>6. w \in Nat \ {0}
  BY EevdfAssumption
<1>7. k \div w \in Nat
  BY <1>5, <1>6, Divided
<1>8. Left(s, w) = k \div w
  BY <1>2, <1>5, Zenon DEF Left
<1>9. \A n \in Nat : n # NoTag
  BY DEF NoTag
<1> QED
  BY <1>4, <1>7, <1>8, <1>9

(* A runnable one changes its weight where it is.                          *)
LEMMA ReweightOn ==
    ASSUME NEW Q, EevdfInv(Q), NEW e \in Runnable(Q), NEW w \in Weights,
           NEW delta \in Nat, NEW R, R = reweight_entity(Q, e, w, delta)
    PROVE  /\ EevdfInv(R) /\ R.curr = Q.curr /\ Runnable(R) = Runnable(Q)
           /\ \A f \in Entities \ {e} : R.se[f].w = Q.se[f].w
           /\ e # Q.curr => Scaled(Q.se[e], R.se[e], w)
<1> DEFINE N == IF e = Q.curr THEN update_curr(Q, delta) ELSE Q
           T == Tree(Q)
           U == T \ {e}
           L == abk_eevdf_update_lag(N, e)
           K == abk_eevdf_store_rel_deadline(L, e)
           O == IF e = Q.curr THEN K ELSE abk_avg_vruntime_sub(K, e)
           t == Reweighted(O.se[e], w)
           W == Put(O, e, t)
           P == place_entity(W, e, FALSE, FALSE)
<1>1. R = IF e = Q.curr THEN P ELSE abk_avg_vruntime_add(P, e)
  BY DEF reweight_entity
<1>2. /\ EevdfInv(N) /\ N.curr = Q.curr /\ Runnable(N) = Runnable(Q) /\ Tree(N) = T
      /\ \A f \in Entities : N.se[f].w = Q.se[f].w
      /\ e # Q.curr => N.se[e] = Q.se[e]
  BY CurrWorks DEF Stays
<1> HIDE DEF N
<1>3. /\ Good(N, T) /\ N \in RqType
      /\ \A f \in Entities : Keeps(N.se[f]) /\ N.se[f] \in EntType
  BY <1>2, InvFacts
<1>4. e \in Entities /\ (e # Q.curr => e \in T) /\ Q.curr \notin T /\ e \notin U
  BY Sets DEF Tree
<1>5. /\ Good(L, T) /\ Touch(N, L, e) /\ Stays(N.se[e], L.se[e])
      /\ L.se[e].vr = N.se[e].vr /\ L.se[e].dl = N.se[e].dl
  BY <1>3, <1>4, UpdateLagWorks
<1> HIDE DEF L
<1>6. /\ Good(K, T) /\ Touch(L, K, e) /\ Stays(L.se[e], K.se[e])
      /\ L.se[e].vr < L.se[e].dl =>
            K.se[e].rel = IF L.se[e].dl # 0 THEN L.se[e].dl - L.se[e].vr ELSE 0
  BY <1>4, <1>5, StoreRelWorks
<1> HIDE DEF K
<1>7. Good(O, U) /\ O.se = K.se /\ O.curr = K.curr
  <2>1. CASE e = Q.curr
    BY <1>4, <1>6, <2>1
  <2>2. CASE e # Q.curr
    BY <1>4, <1>6, <2>2, SubWorks
  <2> QED
    BY <2>1, <2>2
<1> HIDE DEF O
<1>8. O \in RqType /\ O.se[e] \in EntType
  BY <1>4, <1>7, RqFields DEF Good
<1>9. /\ t \in EntType /\ t.st = O.se[e].st /\ t.w = w
      /\ t.rel = abk_eevdf_scale_rel_deadline(O.se[e], w)
  BY <1>8, ReweightedWorks
<1> HIDE DEF t
<1>10. Touch(O, W, e) /\ W.se[e] = t
  BY <1>4, <1>8, <1>9, PutWorks
<1>11. Good(W, U)
  BY <1>4, <1>7, <1>10, TouchKeeps
<1> HIDE DEF W
<1>12. Good(P, U) /\ Touch(W, P, e) /\ Placed(W.se[e], P.se[e], FALSE)
  BY <1>4, <1>11, PlaceWorks
<1> HIDE DEF P
<1>13. Good(R, T) /\ R.se = P.se /\ R.curr = P.curr
  <2>1. CASE e = Q.curr
    BY <1>1, <1>4, <1>12, <2>1
  <2>2. CASE e # Q.curr
    <3>1. U \cup {e} = T /\ e \in Entities \ U
      BY <1>4, <2>2
    <3> QED
      BY <1>1, <1>12, <2>2, <3>1, AddWorks
  <2> QED
    BY <2>1, <2>2
<1>14. R.curr = Q.curr
  BY <1>2, <1>5, <1>6, <1>7, <1>10, <1>12, <1>13 DEF Touch, Frame
<1>15. \A f \in Entities \ {e} : R.se[f] = N.se[f]
  BY <1>5, <1>6, <1>7, <1>10, <1>12, <1>13 DEF Touch
<1>16. R.se[e].st = "rq" /\ Settled(R.se[e])
  <2>1. N.se[e].st = "rq"
    BY <1>2, <1>4 DEF Runnable
  <2>2. W.se[e].st = "rq"
    BY <1>5, <1>6, <1>7, <1>9, <1>10, <2>1 DEF Stays
  <2> QED
    BY <1>12, <1>13, <2>2 DEF Placed, Stays, Settled, Carried
<1>17. \A f \in Entities : R.se[f].st = N.se[f].st
  BY <1>2, <1>4, <1>15, <1>16 DEF Runnable
<1>18. Runnable(R) = Runnable(Q) /\ Tree(R) = T
  BY <1>2, <1>14, <1>17, SameRunnable
<1>19. Within(R)
  <2>1. Keeps(R.se[e])
    BY <1>16 DEF Keeps
  <2> QED
    BY <1>3, <1>13, <1>15, <1>18, <2>1 DEF Within
<1>20. \A f \in Entities \ {e} : R.se[f].w = Q.se[f].w
  BY <1>2, <1>15
<1>21. ASSUME e # Q.curr PROVE Scaled(Q.se[e], R.se[e], w)
  <2> DEFINE s == Q.se[e]
             p == R.se[e]
  <2>1. p \in EntType /\ p.w = w /\ Placed(t, p, FALSE)
    BY <1>9, <1>10, <1>12, <1>13 DEF Placed, Stays
  <2>2. s \in EntType /\ s.w = O.se[e].w
    BY <1>2, <1>3, <1>4, <1>5, <1>6, <1>7, <1>21 DEF Stays
  <2>3. ASSUME s.vr < s.dl, s.dl # 0
        PROVE  p.dl - p.vr = IF Left(s, w) = 0 THEN abk_eevdf_vslice(p) ELSE Left(s, w)
    <3>1. O.se[e].rel = s.dl - s.vr
      BY <1>2, <1>5, <1>6, <1>7, <1>21, <2>3
    <3>2. t.rel = Left(s, w) /\ Left(s, w) # NoTag
      BY <1>8, <1>9, <2>2, <2>3, <3>1, ScaleWorks
    <3> QED
      BY <2>1, <3>2 DEF Placed
  <2> QED
    BY <2>1, <2>3 DEF Scaled
<1> QED
  BY <1>14, <1>18, <1>19, <1>20, <1>21 DEF EevdfInv

(* Only runnable entities are picked.                                      *)
LEMMA PickSubset ==
    ASSUME NEW Q
    PROVE  abk_pick_eevdf(Q) \subseteq Runnable(Q)
<1>1. Tree(Q) \subseteq Runnable(Q)
  BY DEF Tree
<1> QED
  BY <1>1, Zenon DEF abk_pick_eevdf

(* A wakeup asks for a reschedule, or does not.                            *)
LEMMA CheckPreempt ==
    ASSUME NEW Q, EevdfInv(Q), NEW e \in Entities, NEW R \in check_preempt_wakeup(Q, e)
    PROVE  EevdfInv(R) /\ R.se = Q.se /\ R.curr = Q.curr
<1> DEFINE A == [Q EXCEPT !.next = e, !.resched = TRUE]
<1>1. Q \in RqType /\ e \in Buddies
  BY InvFacts DEF Buddies
<1>2. Flags(Q, A)
  BY <1>1, FlagsPut
<1>3. EevdfInv(A) /\ A.se = Q.se /\ A.curr = Q.curr
  BY <1>2, FlagsInv DEF Flags, Frame
<1>4. R \in {Q, A}
  BY Zenon DEF check_preempt_wakeup
<1> QED
  BY <1>3, <1>4

-----------------------------------------------------------------------------
(* The selector                                                            *)

(* DivS64() of a negative number that is moved left by all but one of the  *)
(* divisor is the quotient rounded to the left.                            *)
LEMMA RoundsLeft ==
    ASSUME NEW a \in Int, NEW l \in Nat \ {0}
    PROVE  DivS64(IF a < 0 THEN a - (l - 1) ELSE a, l) = a \div l
<1>1. CASE a >= 0
  BY <1>1 DEF DivS64
<1>2. CASE a < 0
  <2>1. a - (l - 1) < 0 /\ -(a - (l - 1)) = l - 1 - a
    BY <1>2
  <2>2. DivS64(a - (l - 1), l) = -((l - 1 - a) \div l)
    BY <1>2, <2>1 DEF DivS64
  <2>3. -((l - 1 - a) \div l) = a \div l
    BY <1>2
  <2> QED
    BY <1>2, <2>2, <2>3
<1> QED
  BY <1>1, <1>2

(* A number is not to the right of a quotient that is rounded to the left  *)
(* if it is not to the right of the quotient itself.                       *)
LEMMA FloorReaches ==
    ASSUME NEW a \in Int, NEW l \in Nat \ {0}, NEW k \in Int
    PROVE  a \div l >= k <=> a - k * l >= 0
<1>1. PICK x \in Int : x = a \div l /\ x * l <= a /\ a < x * l + l
  <2>1. PICK x \in Int : x = a \div l
    OBVIOUS
  <2>2. l * x <= a /\ a < l * x + l
    BY <2>1
  <2>3. \A m, n \in Int : m * n = n * m
    OBVIOUS
  <2> QED
    BY <2>1, <2>2, <2>3
<1>2. CASE x >= k
  <2>1. PICK n \in Nat : x = k + n
    BY <1>2
  <2>2. (k + n) * l = k * l + n * l /\ n * l >= 0 /\ n * l \in Int /\ k * l \in Int
    OBVIOUS
  <2> QED
    BY <1>1, <1>2, <2>1, <2>2
<1>3. CASE ~(x >= k)
  <2>1. PICK n \in Nat : k = x + 1 + n
    BY <1>3
  <2>2. (x + 1 + n) * l = x * l + l + n * l /\ n * l >= 0 /\ n * l \in Int /\ x * l \in Int
    OBVIOUS
  <2> QED
    BY <1>1, <1>3, <2>1, <2>2
<1> QED
  BY <1>2, <1>3

(* With somebody runnable, the sums that avg_vruntime() divides are those  *)
(* over everybody who is.                                                  *)
LEMMA AvgIs ==
    ASSUME NEW Q, EevdfInv(Q), Runnable(Q) # {}
    PROVE  /\ SumFunctionOnSet(Keys(Q, Q.min), Runnable(Q)) \in Int
           /\ SumFunctionOnSet(Loads(Q), Runnable(Q)) \in Nat \ {0}
           /\ avg_vruntime(Q) = Q.min + SumFunctionOnSet(Keys(Q, Q.min), Runnable(Q))
                                          \div SumFunctionOnSet(Loads(Q), Runnable(Q))
<1> DEFINE A == SumFunctionOnSet(Keys(Q, Q.min), Runnable(Q))
           L == SumFunctionOnSet(Loads(Q), Runnable(Q))
           T == Tree(Q)
<1>1. /\ Q \in RqType /\ Q.min \in Int /\ T \in SUBSET Entities
      /\ Q.sum = SumFunctionOnSet(Keys(Q, Q.min), T)
      /\ Q.load = SumFunctionOnSet(Loads(Q), T)
  BY InvFacts, RqFields DEF Good, Sums
<1>2. /\ Runnable(Q) \in SUBSET Entities /\ IsFiniteSet(Runnable(Q)) /\ IsFiniteSet(T)
  BY <1>1, Sets
<1>3. \A f \in Entities : Keys(Q, Q.min)[f] \in Int /\ Loads(Q)[f] \in Int
  BY <1>1, Summands
<1>4. A \in Int
  BY <1>2, <1>3, SumType
<1>5. L \in Nat \ {0}
  BY <1>1, <1>2, LoadWorks
<1>6. /\ A = Q.sum + (IF Q.curr \in Runnable(Q)
                      THEN abk_entity_key(Q, Q.curr) * Q.se[Q.curr].w ELSE 0)
      /\ L = Q.load + (IF Q.curr \in Runnable(Q) THEN Q.se[Q.curr].w ELSE 0)
  <2>1. CASE Q.curr \in Runnable(Q)
    <3> DEFINE c == Q.curr
    <3>1. c \in Entities /\ c \notin T /\ Runnable(Q) = T \cup {c}
      BY <1>2, <2>1 DEF Tree
    <3>2. \A f \in T \cup {c} : Keys(Q, Q.min)[f] \in Int
      BY <1>1, <1>3, <3>1
    <3>3. \A f \in T \cup {c} : Loads(Q)[f] \in Int
      BY <1>1, <1>3, <3>1
    <3>4. /\ A = SumFunctionOnSet(Keys(Q, Q.min), T) + Keys(Q, Q.min)[c]
      BY <1>2, <3>1, <3>2, SumJoin
    <3>5. L = SumFunctionOnSet(Loads(Q), T) + Loads(Q)[c]
      BY <1>2, <3>1, <3>3, SumJoin
    <3>6. Keys(Q, Q.min)[c] = abk_entity_key(Q, c) * Q.se[c].w /\ Loads(Q)[c] = Q.se[c].w
      BY <3>1 DEF Keys, Loads, abk_entity_key
    <3> QED
      BY <1>1, <2>1, <3>4, <3>5, <3>6
  <2>2. CASE Q.curr \notin Runnable(Q)
    <3>1. T = Runnable(Q)
      BY <2>2 DEF Tree
    <3>2. Q.sum + 0 = Q.sum /\ Q.load + 0 = Q.load
      BY <1>1, RqFields
    <3> QED
      BY <1>1, <2>2, <3>1, <3>2
  <2> QED
    BY <2>1, <2>2
<1>7. avg_vruntime(Q)
        = Q.min + (IF L = 0 THEN A ELSE DivS64(IF A < 0 THEN A - (L - 1) ELSE A, L))
  BY <1>6, Zenon DEF avg_vruntime
<1> HIDE DEF A, L
<1>8. avg_vruntime(Q) = Q.min + A \div L
  BY <1>4, <1>5, <1>7, RoundsLeft
<1> QED
  BY <1>4, <1>5, <1>8 DEF A, L

(* How far everybody is from a place, in terms of the sums.                *)
LEMMA OwedIs ==
    ASSUME EevdfInv(q), NEW e \in Entities
    PROVE  Owed(e) <=>
              SumFunctionOnSet(Keys(q, q.min), Runnable(q))
                 - (q.se[e].vr - q.min) * SumFunctionOnSet(Loads(q), Runnable(q)) >= 0
<1>1. q \in RqType /\ q.min \in Int /\ q.se[e].vr \in Int
  BY InvFacts, RqFields, EntFields
<1>2. Runnable(q) \in SUBSET Entities /\ IsFiniteSet(Runnable(q))
  BY Sets
<1>3. PICK d \in Int : d = q.se[e].vr - q.min
  BY <1>1
<1>4. PICK v \in Int : v = q.se[e].vr
  BY <1>1
<1>5. \A f \in Runnable(q) :
         /\ Keys(q, q.min)[f] \in Int /\ Loads(q)[f] \in Int
         /\ Keys(q, v)[f] = Keys(q, q.min)[f] - d * Loads(q)[f]
  <2>1. TAKE f \in Runnable(q)
  <2>2. f \in Entities
    BY <1>2
  <2> DEFINE m == q.min
  <2>3. /\ Keys(q, m)[f] = (q.se[f].vr - m) * q.se[f].w /\ Keys(q, m)[f] \in Int
        /\ Loads(q)[f] = q.se[f].w /\ Loads(q)[f] \in Int
    <3>1. q \in RqType /\ m \in Int
      BY <1>1
    <3> HIDE DEF m
    <3> QED
      BY <2>2, <3>1, Summands
  <2>4. Keys(q, v)[f] = (q.se[f].vr - v) * q.se[f].w
    BY <1>1, <1>4, <2>2, Summands
  <2>5. q.se[f].vr \in Int /\ q.se[f].w \in Int
    BY <1>1, <2>2, RqFields, EntFields
  <2>6. \A x, y, w \in Int : (x - (y + d)) * w = (x - y) * w - d * w
    BY <1>3
  <2>7. v = m + d /\ m \in Int
    BY <1>1, <1>3, <1>4
  <2> HIDE DEF m
  <2>8. Keys(q, v)[f] = Keys(q, m)[f] - d * Loads(q)[f]
    BY <2>3, <2>4, <2>5, <2>6, <2>7
  <2> QED
    BY <2>3, <2>8 DEF m
<1>6. SumFunctionOnSet(Keys(q, v), Runnable(q))
        = SumFunctionOnSet(Keys(q, q.min), Runnable(q))
             - d * SumFunctionOnSet(Loads(q), Runnable(q))
  BY <1>2, <1>3, <1>5, SumShift
<1> QED
  BY <1>3, <1>4, <1>6, Zenon DEF Owed

(* The test of abk_eevdf_eligible() against the rounded average is exact.  *)
LEMMA EligibleIsOwed ==
    ASSUME EevdfInv(q), Runnable(q) # {}, NEW e \in Entities
    PROVE  abk_eevdf_eligible(q, e, avg_vruntime(q)) <=> Owed(e)
<1>1. PICK A \in Int : A = SumFunctionOnSet(Keys(q, q.min), Runnable(q))
  BY AvgIs
<1>2. PICK L \in Nat \ {0} : L = SumFunctionOnSet(Loads(q), Runnable(q))
  BY AvgIs
<1>3. PICK V : V = avg_vruntime(q)
  OBVIOUS
<1>4. V = q.min + A \div L
  BY <1>1, <1>2, <1>3, AvgIs
<1>5. q.min \in Int /\ q.se[e].vr \in Int /\ A \div L \in Int
  BY InvFacts, RqFields, EntFields
<1>6. PICK d \in Int : d = q.se[e].vr - q.min
  BY <1>5
<1>7. abk_eevdf_eligible(q, e, V) <=> A \div L >= d
  <2>1. abk_eevdf_eligible(q, e, V) <=> V - q.se[e].vr >= 0
    BY DEF abk_eevdf_eligible
  <2> QED
    BY <1>4, <1>5, <1>6, <2>1
<1>8. A \div L >= d <=> A - d * L >= 0
  BY FloorReaches
<1>9. Owed(e) <=> A - d * L >= 0
  BY <1>1, <1>2, <1>6, OwedIs, Zenon
<1> QED
  BY <1>3, <1>7, <1>8, <1>9

(* The leftmost runnable entity is owed service.                           *)
LEMMA SomebodyIsOwed ==
    ASSUME EevdfInv(q), Runnable(q) # {}
    PROVE  \E e \in Runnable(q) : Owed(e)
<1> DEFINE S == {q.se[f].vr : f \in Runnable(q)}
<1>1. /\ q \in RqType /\ Runnable(q) \in SUBSET Entities /\ IsFiniteSet(Runnable(q))
      /\ \A f \in Entities : q.se[f].vr \in Int /\ q.se[f].w \in Nat
  BY InvFacts, Sets, EntFields
<1>2. PICK e \in Runnable(q) : \A f \in Runnable(q) : q.se[e].vr <= q.se[f].vr
  <2>1. IsFiniteSet(S)
    <3> DEFINE g == [f \in Runnable(q) |-> q.se[f].vr]
    <3>1. g \in Surjection(Runnable(q), S)
      BY DEF Surjection
    <3> QED
      BY <1>1, <3>1, FS_Surjection DEF ExistsSurjection
  <2>2. S \in SUBSET Int /\ S # {}
    BY <1>1
  <2>3. Min(S) \in S /\ \A y \in S : Min(S) <= y
    BY <2>1, <2>2, MinWorks
  <2> QED
    BY <2>3
<1>3. PICK v \in Int : v = q.se[e].vr
  BY <1>1
<1>4. \A f \in Runnable(q) : Keys(q, v)[f] \in Nat
  <2>1. TAKE f \in Runnable(q)
  <2>2. Keys(q, v)[f] = (q.se[f].vr - v) * q.se[f].w
    BY <1>1, <1>3, Summands
  <2>3. q.se[f].vr - v \in Nat /\ q.se[f].w \in Nat
    BY <1>1, <1>2, <1>3
  <2>4. \A x, y \in Nat : x * y \in Nat
    OBVIOUS
  <2> QED
    BY <2>2, <2>3, <2>4
<1>5. SumFunctionOnSet(Keys(q, v), Runnable(q)) \in Nat
  BY <1>1, <1>4, SumBounds
<1>6. SumFunctionOnSet(Keys(q, v), Runnable(q)) >= 0
  BY <1>5
<1>7. Owed(e)
  BY <1>3, <1>6, Zenon DEF Owed
<1> QED
  BY <1>7

(* abk_eevdf_entity_before() orders: among some, one is before no other.   *)
LEMMA BestExists ==
    ASSUME EevdfInv(q), NEW S \in SUBSET Entities, S # {}
    PROVE  \E e \in S : \A f \in S : ~abk_eevdf_entity_before(q, f, e)
<1> DEFINE B(f, e) == abk_eevdf_entity_before(q, f, e)
           G == {T \in SUBSET S : T = {} \/ \E x \in T : \A y \in T : ~B(y, x)}
<1>1. IsFiniteSet(S) /\ \A e \in Entities : q.se[e].vr \in Int /\ q.se[e].dl \in Int
  BY Sets, InvFacts, EntFields
<1>2. /\ \A x \in S : ~B(x, x)
      /\ \A x, y \in S : ~B(x, y) \/ ~B(y, x)
      /\ \A x, y, z \in S : ~B(y, x) /\ ~B(z, y) => ~B(z, x)
  <2>1. \A x, y \in S : B(x, y) <=> \/ q.se[x].dl < q.se[y].dl
                                    \/ q.se[x].dl = q.se[y].dl /\ q.se[x].vr < q.se[y].vr
    <3>1. TAKE x, y \in S
    <3>2. /\ q.se[x].dl \in Int /\ q.se[y].dl \in Int
          /\ q.se[x].vr \in Int /\ q.se[y].vr \in Int
      BY <1>1
    <3> QED
      BY <3>2 DEF abk_eevdf_entity_before
  <2> HIDE DEF B
  <2> QED
    BY <1>1, <2>1
<1> HIDE DEF B
<1>3. {} \in G
  OBVIOUS
<1>4. ASSUME NEW T \in SUBSET S, T \in G, NEW x \in S \ T
      PROVE  T \cup {x} \in G
  <2>1. CASE T = {}
    <3>1. \A y \in T \cup {x} : ~B(y, x)
      BY <1>2, <2>1
    <3> QED
      BY <3>1
  <2>2. CASE T # {}
    <3>1. PICK m \in T : \A y \in T : ~B(y, m)
      BY <1>4, <2>2
    <3>2. CASE B(x, m)
      <4>1. \A y \in T \cup {x} : ~B(y, x)
        BY <1>2, <3>1, <3>2
      <4> QED
        BY <4>1
    <3>3. CASE ~B(x, m)
      <4>1. \A y \in T \cup {x} : ~B(y, m)
        BY <3>1, <3>3
      <4> QED
        BY <4>1
    <3> QED
      BY <3>2, <3>3
  <2> QED
    BY <2>1, <2>2
<1> HIDE DEF G
<1>5. SUBSET S \subseteq G
  BY <1>1, <1>3, <1>4, SetsReached
<1>6. S \in G
  BY <1>5
<1> QED
  BY <1>6 DEF G, B

(* What abk_pick_eevdf() returns, in terms of who is owed service.         *)
LEMMA PickWorks == EevdfInv(q) => EarliestEligibleRuns
<1> SUFFICES ASSUME EevdfInv(q), Runnable(q) # {} PROVE EarliestEligibleRuns
  BY DEF EarliestEligibleRuns
<1> DEFINE B(f, e) == abk_eevdf_entity_before(q, f, e)
           R == Runnable(q)
           T == Tree(q)
           owed == {e \in R : Owed(e) /\ e # q.skip}
           running == {e \in {q.curr} \cap R : Owed(e)}
           buddy == {e \in {q.next} \cap R : Owed(e)}
           cand == running \cup buddy \cup ({e \in T : Owed(e)} \ {q.skip})
           best == {e \in cand : \A f \in cand : ~B(f, e)}
           first == {e \in T : \A f \in T : q.se[e].vr <= q.se[f].vr}
           parity == running # {} /\ q.se[q.curr].dl # 0 /\ q.pick = q.se[q.curr].dl
           picked == IF parity THEN running
                     ELSE IF cand = {} THEN first
                     ELSE IF running \cap best # {} THEN running
                     ELSE IF buddy \cap best # {} THEN buddy ELSE best
<1>1. /\ R \in SUBSET Entities /\ T \in SUBSET R /\ R \subseteq T \cup {q.curr}
      /\ q.curr \notin T /\ IsFiniteSet(T)
      /\ \A e \in Entities : q.se[e].vr \in Int
  BY Sets, InvFacts, EntFields DEF Tree
<1>2. abk_pick_eevdf(q) = picked
  <2> DEFINE V == avg_vruntime(q)
             ok(S) == {e \in S : abk_eevdf_eligible(q, e, V)}
  <2>1. \A S \in SUBSET R : ok(S) = {e \in S : Owed(e)}
    BY <1>1, EligibleIsOwed
  <2>2. /\ ok({q.curr} \cap R) = running /\ ok({q.next} \cap R) = buddy
        /\ ok(T) = {e \in T : Owed(e)}
    BY <1>1, <2>1
  <2> HIDE DEF ok
  <2> QED
    BY <2>2, Zenon DEF abk_pick_eevdf, ok
<1>3. owed \subseteq cand /\ cand \subseteq R /\ \A e \in cand : Owed(e)
  BY <1>1
<1>4. cand = {} => first # {} /\ owed = {}
  <2> SUFFICES ASSUME cand = {} PROVE first # {}
    BY <1>3
  <2>1. PICK e \in R : Owed(e)
    BY SomebodyIsOwed
  <2>2. T # {}
    BY <1>1, <2>1
  <2> DEFINE S == {q.se[f].vr : f \in T}
  <2>3. IsFiniteSet(S)
    <3> DEFINE g == [f \in T |-> q.se[f].vr]
    <3>1. g \in Surjection(T, S)
      BY DEF Surjection
    <3> QED
      BY <1>1, <3>1, FS_Surjection DEF ExistsSurjection
  <2>4. S \in SUBSET Int /\ S # {}
    BY <1>1, <2>2
  <2>5. Min(S) \in S /\ \A y \in S : Min(S) <= y
    BY <2>3, <2>4, MinWorks
  <2>6. PICK f \in T : \A y \in S : q.se[f].vr <= y
    BY <2>5
  <2>7. f \in first
    BY <2>6
  <2> QED
    BY <2>7
<1>5. cand # {} => best # {}
  <2> SUFFICES ASSUME cand # {} PROVE best # {}
    OBVIOUS
  <2>1. cand \in SUBSET Entities
    BY <1>1, <1>3
  <2> HIDE DEF cand
  <2> QED
    BY <2>1, BestExists
<1> HIDE DEF B
<1>6. picked # {}
  BY <1>4, <1>5
<1>7. ASSUME NEW p \in picked
      PROVE  /\ p \in R /\ (owed # {} => Owed(p))
             /\ \/ p = q.curr /\ q.pick = q.se[p].dl
                \/ \A e \in owed : ~B(e, p)
  <2>1. CASE parity
    <3>1. p = q.curr /\ p \in R /\ Owed(p)
      BY <2>1
    <3> QED
      BY <2>1, <3>1
  <2>2. CASE ~parity /\ cand = {}
    <3>1. p \in T /\ owed = {}
      BY <1>4, <2>2
    <3> QED
      BY <1>1, <3>1
  <2>3. CASE ~parity /\ cand # {}
    <3>1. p \in best
      BY <2>3
    <3>2. p \in cand /\ \A f \in cand : ~B(f, p)
      BY <3>1
    <3> QED
      BY <1>3, <3>2
  <2> QED
    BY <2>1, <2>2, <2>3
<1> QED
  BY <1>2, <1>6, <1>7, Zenon DEF EarliestEligibleRuns, B

-----------------------------------------------------------------------------
(* The invariant                                                           *)

(* A request is set.                                                       *)
LEMMA SliceWorks ==
    ASSUME NEW Q, Within(Q), NEW e \in Entities, NEW r \in AllRequests,
           NEW R, R = [Q EXCEPT !.se[e].slice = r]
    PROVE  /\ Within(R) /\ R.curr = Q.curr /\ Runnable(R) = Runnable(Q)
           /\ R.se[e].st = Q.se[e].st /\ R.se[e].w = Q.se[e].w
           /\ R.se[e].rel = Q.se[e].rel /\ R.se[e].slice = r
           /\ \A f \in Entities \ {e} : R.se[f] = Q.se[f]
<1> DEFINE t == [Q.se[e] EXCEPT !.slice = r]
<1>1. Good(Q, Tree(Q)) /\ Q \in RqType /\ \A f \in Entities : Keeps(Q.se[f])
  BY DEF Within, Good
<1>2. Q.se[e] \in EntType
  BY <1>1, RqFields
<1>3. R = Put(Q, e, t)
  BY Zenon DEF Put
<1>4. /\ t \in EntType /\ t.st = Q.se[e].st /\ t.w = Q.se[e].w /\ t.rel = Q.se[e].rel
      /\ t.slice = r /\ t.vr = Q.se[e].vr /\ t.dl = Q.se[e].dl /\ t.vlag = Q.se[e].vlag
      /\ t.fresh = Q.se[e].fresh
  BY <1>2, Zenon DEF EntType
<1> HIDE DEF t
<1>5. Touch(Q, R, e) /\ R.se[e] = t
  <2>1. Touch(Q, Put(Q, e, t), e) /\ Put(Q, e, t).se[e] = t
    BY <1>1, <1>4, PutWorks
  <2> QED
    BY <1>3, <2>1, Zenon
<1>6. Good(R, Tree(Q))
  BY <1>1, <1>4, <1>5, TouchKeeps
<1>7. R.curr = Q.curr /\ \A f \in Entities \ {e} : R.se[f] = Q.se[f]
  BY <1>5 DEF Touch, Frame
<1>8. \A f \in Entities : R.se[f].st = Q.se[f].st
  BY <1>4, <1>5, <1>7
<1>9. Runnable(R) = Runnable(Q) /\ Tree(R) = Tree(Q)
  BY <1>7, <1>8, SameRunnable
<1>10. Keeps(R.se[e])
  BY <1>1, <1>4, <1>5 DEF Keeps, Settled, Carried
<1>11. Within(R)
  BY <1>1, <1>6, <1>7, <1>9, <1>10 DEF Within
<1> QED
  BY <1>4, <1>5, <1>7, <1>9, <1>11

(* A change of a flag of the run queue.                                    *)
LEMMA ReschedInv ==
    ASSUME NEW Q, EevdfInv(Q), NEW r \in BOOLEAN
    PROVE  EevdfInv([Q EXCEPT !.resched = r]) /\ [Q EXCEPT !.resched = r].se = Q.se
<1>1. Flags(Q, [Q EXCEPT !.resched = r])
  BY InvFacts, FlagsPut
<1> QED
  BY <1>1, FlagsInv DEF Flags

(* The initial run queue.                                                  *)
LEMMA InitWorks == Init => EevdfInv(q)
<1> SUFFICES ASSUME Init PROVE EevdfInv(q)
  OBVIOUS
<1>1. PICK m \in Int : m = -Below
  BY EevdfAssumption
<1>2. q = [se |-> [e \in Entities |-> Unborn], min |-> m, sum |-> 0, load |-> 0,
           pick |-> 0, curr |-> None, next |-> None, skip |-> None, resched |-> FALSE]
  BY <1>1, Zenon DEF Init
<1>3. Unborn \in EntType
  <2>1. Nice0 \in Wts /\ 0 \in Int /\ 0 \in AllRequests /\ NoTag \in Nat \cup {NoTag}
    BY DEF Wts, AllRequests
  <2>2. "unborn" \in {"unborn", "new", "rq", "off", "away"} /\ FALSE \in BOOLEAN
    OBVIOUS
  <2> QED
    BY <2>1, <2>2, Zenon DEF Unborn, EntType
<1>4. Unborn.st = "unborn" /\ Keeps(Unborn)
  BY DEF Unborn, Keeps
<1>5. q \in RqType
  <2>1. 0 \in Int /\ None \in Buddies /\ FALSE \in BOOLEAN
    BY DEF Buddies
  <2>2. [e \in Entities |-> Unborn] \in [Entities -> EntType]
    BY <1>3
  <2> DEFINE F == [e \in Entities |-> Unborn]
  <2> HIDE DEF F
  <2>3. q = [se |-> F, min |-> m, sum |-> 0, load |-> 0, pick |-> 0, curr |-> None,
             next |-> None, skip |-> None, resched |-> FALSE] /\ F \in [Entities -> EntType]
    BY <1>2, <2>2 DEF F
  <2> QED
    BY <2>1, <2>3, Zenon DEF RqType
<1>6. /\ q.sum = 0 /\ q.load = 0 /\ q.curr = None
      /\ \A e \in Entities : q.se[e] = Unborn
  BY <1>2
<1>7. Runnable(q) = {} /\ Tree(q) = {}
  BY <1>4, <1>6 DEF Runnable, Tree
<1>8. Good(q, Tree(q))
  BY <1>5, <1>6, <1>7, SumEmpty DEF Good, Sums
<1> QED
  BY <1>4, <1>6, <1>8 DEF EevdfInv, Within

-----------------------------------------------------------------------------
(* The critical sections                                                   *)

(* Who waits keeps its weight, or its request is scaled with it.           *)
SameWeights(Q, R) == \A f \in Entities : R.se[f].w = Q.se[f].w
Honours(Q, R) ==
    \A f \in Tree(Q) : \/ R.se[f].w = Q.se[f].w
                      \/ \E w \in Weights : Scaled(Q.se[f], R.se[f], w)

(* Nothing is to be scaled if no weight changes.                           *)
LEMMA SameHonours ==
    ASSUME NEW Q, NEW R, SameWeights(Q, R)
    PROVE  Honours(Q, R)
  BY Sets DEF SameWeights, Honours

(* What Follow, Step and Move do to the run queue.                         *)
LEMMA Steps ==
    ASSUME NEW Q, Step(Q) \/ Move(Q)
    PROVE  q' = Q
  BY DEF Step, Move, Follow

(* A task is forked.                                                       *)
LEMMA ForkWorks ==
    ASSUME EevdfInv(q), NEW e \in Entities, Fork(e)
    PROVE  EevdfInv(q') /\ Honours(q, q')
<1>1. q.se[e].st = "unborn"
  BY DEF Fork
<1>2. PICK delta \in Deltas :
          LET now == update_curr(q, delta)
              copy == IF q.curr = None THEN [Unborn EXCEPT !.st = "new"]
                      ELSE [now.se[q.curr] EXCEPT !.st = "new"]
              placed == place_entity(Put(now, e, copy), e, TRUE, FALSE)
          IN Step([placed EXCEPT !.se[e].vr = @ - placed.min])
  BY DEF Fork
<1> DEFINE N == update_curr(q, delta)
           c == IF q.curr = None THEN [Unborn EXCEPT !.st = "new"]
                ELSE [N.se[q.curr] EXCEPT !.st = "new"]
           C == Put(N, e, c)
           P == place_entity(C, e, TRUE, FALSE)
           T == Tree(q)
<1>3. q' = [P EXCEPT !.se[e].vr = @ - P.min]
  BY <1>2, Steps
<1>4. delta \in Nat
  BY EevdfAssumption
<1>5. /\ EevdfInv(N) /\ N.curr = q.curr /\ Runnable(N) = Runnable(q) /\ Tree(N) = T
      /\ \A f \in Entities : Stays(q.se[f], N.se[f])
  BY <1>4, CurrWorks
<1> HIDE DEF N
<1>6. /\ Good(N, T) /\ N \in RqType
      /\ \A f \in Entities : Keeps(N.se[f]) /\ N.se[f] \in EntType
      /\ q.curr # None => q.curr \in Runnable(N) /\ q.curr \in Entities
  BY <1>5, InvFacts
<1>7. e \notin Runnable(q) /\ e \notin T
  BY <1>1 DEF Runnable, Tree
<1>8. c \in EntType /\ c.st = "new"
  <2>1. "new" \in {"unborn", "new", "rq", "off", "away"}
    OBVIOUS
  <2>2. CASE q.curr = None
    <3>1. Unborn \in EntType
      <4>1. Nice0 \in Wts /\ 0 \in Int /\ 0 \in AllRequests /\ NoTag \in Nat \cup {NoTag}
        BY DEF Wts, AllRequests
      <4>2. "unborn" \in {"unborn", "new", "rq", "off", "away"} /\ FALSE \in BOOLEAN
        OBVIOUS
      <4> QED
        BY <4>1, <4>2, Zenon DEF Unborn, EntType
    <3>2. c = [Unborn EXCEPT !.st = "new"]
      BY <2>2
    <3> HIDE DEF c
    <3> QED
      BY <2>1, <3>1, <3>2, Zenon DEF EntType
  <2>3. CASE q.curr # None
    <3>1. N.se[q.curr] \in EntType
      BY <1>6, <2>3
    <3>2. c = [N.se[q.curr] EXCEPT !.st = "new"]
      BY <2>3
    <3> HIDE DEF c
    <3> QED
      BY <2>1, <3>1, <3>2, Zenon DEF EntType
  <2> QED
    BY <2>2, <2>3
<1> HIDE DEF c
<1>9. Touch(N, C, e) /\ C.se[e] = c
  BY <1>6, <1>8, PutWorks
<1>10. Good(C, T)
  BY <1>6, <1>7, <1>9, TouchKeeps
<1> HIDE DEF C
<1>11. Good(P, T) /\ Touch(C, P, e) /\ Placed(C.se[e], P.se[e], TRUE)
  BY <1>7, <1>10, PlaceWorks
<1> HIDE DEF P
<1>12. P \in RqType /\ P.se[e] \in EntType
  BY <1>11, RqFields DEF Good
<1>13. PICK v \in Int : v = P.se[e].vr - P.min
  BY <1>12, RqFields, EntFields
<1> DEFINE t == [P.se[e] EXCEPT !.vr = v]
<1>14. q' = Put(P, e, t)
  BY <1>3, <1>13, Zenon DEF Put
<1>15. /\ t \in EntType /\ t.st = P.se[e].st /\ t.vlag = P.se[e].vlag
       /\ t.rel = P.se[e].rel /\ t.fresh = P.se[e].fresh
  BY <1>12, <1>13, Zenon DEF EntType
<1> HIDE DEF t
<1>16. Touch(P, q', e) /\ q'.se[e] = t
  BY <1>12, <1>14, <1>15, PutWorks
<1>17. Good(q', T)
  BY <1>7, <1>11, <1>16, TouchKeeps
<1>18. q'.curr = q.curr
  BY <1>5, <1>9, <1>11, <1>16 DEF Touch, Frame
<1>19. \A f \in Entities \ {e} : q'.se[f] = N.se[f]
  BY <1>9, <1>11, <1>16 DEF Touch
<1>20. Keeps(q'.se[e]) /\ q'.se[e].st = "new"
  BY <1>8, <1>9, <1>11, <1>15, <1>16 DEF Keeps, Placed, Stays, Carried
<1>21. Runnable(q') = Runnable(q)
  BY <1>5, <1>7, <1>19, <1>20 DEF Runnable, Stays
<1>22. Tree(q') = T
  BY <1>18, <1>21 DEF Tree
<1>23. Within(q')
  BY <1>6, <1>17, <1>19, <1>20, <1>22 DEF Within
<1>24. Honours(q, q')
  <2>1. \A f \in Entities \ {e} : q'.se[f].w = q.se[f].w
    BY <1>5, <1>19 DEF Stays
  <2> QED
    BY <1>7, <2>1, Sets DEF Honours
<1> QED
  BY <1>18, <1>21, <1>23, <1>24 DEF EevdfInv

(* A task comes to the run queue.                                          *)
LEMMA ActivateWorks ==
    ASSUME EevdfInv(q), NEW e \in Entities, NEW state \in {"new", "away", "off"},
           NEW wakeup \in BOOLEAN, wakeup <=> state = "off", Activate(e, state, wakeup)
    PROVE  EevdfInv(q') /\ Honours(q, q')
<1>1. PICK delta \in Deltas, long \in BOOLEAN :
          \E Q \in check_preempt_wakeup(enqueue_entity(q, e, wakeup, long, delta), e) :
              Step(Q) \/ Move(Q)
  BY Zenon DEF Activate
<1>2. PICK Q \in check_preempt_wakeup(enqueue_entity(q, e, wakeup, long, delta), e) : q' = Q
  BY <1>1, Steps
<1>3. q.se[e].st = state /\ delta \in Nat
  BY EevdfAssumption DEF Activate
<1>4. e \in Entities \ Runnable(q) /\ (wakeup \/ q.se[e].st \in {"new", "away"})
  BY <1>3 DEF Runnable
<1> DEFINE N == enqueue_entity(q, e, wakeup, long, delta)
<1>5. Joins(q, N, e)
  BY <1>3, <1>4, EnqueueWorks
<1> HIDE DEF N
<1>6. EevdfInv(N) /\ SameWeights(q, N)
  BY <1>5 DEF Joins, Resumes, SameWeights
<1>7. EevdfInv(q') /\ q'.se = N.se
  BY <1>2, <1>6, CheckPreempt DEF N
<1>8. SameWeights(q, q')
  BY <1>6, <1>7 DEF SameWeights
<1> QED
  BY <1>7, <1>8, SameHonours

(* The load balancer takes an entity away.                                 *)
LEMMA DetachWorks ==
    ASSUME EevdfInv(q), NEW e \in Entities, Detach(e)
    PROVE  EevdfInv(q') /\ Honours(q, q')
<1>1. PICK delta \in Deltas : q' = dequeue_entity(q, e, FALSE, FALSE, delta)
  BY Steps DEF Detach
<1>2. e \in Runnable(q) /\ e # q.curr /\ delta \in Nat
  BY EevdfAssumption DEF Detach, Tree
<1>3. Leaves(q, q', e, FALSE)
  BY <1>1, <1>2, DequeueWorks
<1>4. SameWeights(q, q')
  BY <1>3 DEF Leaves, SameWeights
<1> QED
  BY <1>2, <1>3, <1>4, SameHonours DEF EevdfInv, Leaves

(* The tick.                                                               *)
LEMMA TickWorks ==
    ASSUME EevdfInv(q), Tick
    PROVE  EevdfInv(q') /\ Honours(q, q')
<1>1. PICK delta \in Deltas :
       LET now == update_curr(q, delta)
           forced == [now EXCEPT !.resched = TRUE]
           chosen == {p \in abk_pick_eevdf(now) :
                         p # q.curr /\ abk_eevdf_entity_before(now, p, q.curr)}
       IN IF Tree(q) = {} THEN Step(now)
          ELSE \/ Step(clear_buddies(forced, q.curr))
               \/ Step(now)
               \/ Step(IF chosen # {} THEN forced ELSE now)
               \/ /\ \E e \in Tree(q) : now.se[e].vr < now.se[q.curr].vr
                  /\ Step(forced)
  BY DEF Tick
<1> DEFINE N == update_curr(q, delta)
           F == [N EXCEPT !.resched = TRUE]
<1>2. q' \in {N, F, clear_buddies(F, q.curr)}
  BY <1>1, Steps
<1>3. delta \in Nat /\ q.curr # None
  BY EevdfAssumption DEF Tick
<1>4. EevdfInv(N) /\ EevdfInv(F) /\ SameWeights(q, N) /\ F.se = N.se
  <2>1. EevdfInv(N) /\ SameWeights(q, N)
    BY <1>3, CurrWorks DEF SameWeights, Stays
  <2> HIDE DEF N
  <2> QED
    BY <2>1, ReschedInv
<1> HIDE DEF F
<1>5. F \in RqType /\ q.curr \in Entities
  BY <1>3, <1>4, InvFacts
<1>6. EevdfInv(clear_buddies(F, q.curr)) /\ clear_buddies(F, q.curr).se = F.se
  BY <1>4, <1>5, BuddiesCleared, FlagsInv DEF Flags
<1>7. SameWeights(q, q')
  BY <1>2, <1>4, <1>6 DEF SameWeights
<1> QED
  BY <1>2, <1>4, <1>6, <1>7, SameHonours

(* The current entity is put back and another one is taken.                *)
LEMMA NextWorks ==
    ASSUME NEW Q, Within(Q), NEW p \in Runnable(Q)
    PROVE  /\ EevdfInv(set_next_entity(put_prev_entity(Q), p))
           /\ set_next_entity(put_prev_entity(Q), p).se = Q.se
<1>1. /\ EevdfInv(put_prev_entity(Q)) /\ put_prev_entity(Q).curr = None
      /\ put_prev_entity(Q).se = Q.se
      /\ Runnable(put_prev_entity(Q)) = Runnable(Q)
  BY PutPrevWorks
<1>2. Within(put_prev_entity(Q))
  BY <1>1 DEF EevdfInv
<1> QED
  BY <1>1, <1>2, SetNextWorks

(* The next entity is picked.                                              *)
LEMMA ScheduleWorks ==
    ASSUME EevdfInv(q), Schedule
    PROVE  EevdfInv(q') /\ Honours(q, q')
<1>1. PICK delta \in Deltas : \E p \in abk_pick_eevdf(update_curr(q, delta)) :
          Step([IF p = q.curr THEN update_curr(q, delta)
                ELSE set_next_entity(put_prev_entity(update_curr(q, delta)), p)
                    EXCEPT !.resched = FALSE])
  BY DEF Schedule
<1> DEFINE N == update_curr(q, delta)
<1>2. PICK p \in abk_pick_eevdf(N) :
          q' = [IF p = q.curr THEN N ELSE set_next_entity(put_prev_entity(N), p)
                    EXCEPT !.resched = FALSE]
  BY <1>1, Steps
<1>3. EevdfInv(N) /\ SameWeights(q, N)
  BY CurrWorks, EevdfAssumption DEF SameWeights, Stays
<1> HIDE DEF N
<1>4. p \in Runnable(N)
  BY PickSubset
<1> DEFINE X == IF p = q.curr THEN N ELSE set_next_entity(put_prev_entity(N), p)
<1>5. EevdfInv(X) /\ X.se = N.se
  BY <1>3, <1>4, NextWorks DEF EevdfInv
<1>6. q' = [X EXCEPT !.resched = FALSE]
  BY <1>2
<1> HIDE DEF X
<1>7. EevdfInv(q') /\ q'.se = X.se
  BY <1>5, <1>6, ReschedInv
<1>8. SameWeights(q, q')
  BY <1>3, <1>5, <1>7 DEF SameWeights
<1> QED
  BY <1>7, <1>8, SameHonours

(* The current entity sleeps.                                              *)
LEMMA BlockWorks ==
    ASSUME EevdfInv(q), Block
    PROVE  EevdfInv(q') /\ Honours(q, q')
<1>1. PICK delta \in Deltas :
       LET out == [dequeue_entity(q, q.curr, TRUE, FALSE, delta) EXCEPT !.resched = FALSE]
       IN IF Runnable(out) = {} THEN Step(put_prev_entity(out))
          ELSE \E p \in abk_pick_eevdf(out) :
                  Step(set_next_entity(put_prev_entity(out), p))
  BY DEF Block
<1> DEFINE D == dequeue_entity(q, q.curr, TRUE, FALSE, delta)
           O == [D EXCEPT !.resched = FALSE]
<1>2. \/ q' = put_prev_entity(O)
      \/ \E p \in abk_pick_eevdf(O) : q' = set_next_entity(put_prev_entity(O), p)
  BY <1>1, Steps
<1>3. q.curr \in Runnable(q) /\ delta \in Nat
  BY EevdfAssumption DEF Block, EevdfInv
<1>4. Within(D) /\ SameWeights(q, D)
  <2>1. Leaves(q, D, q.curr, TRUE)
    BY <1>3, DequeueWorks
  <2> QED
    BY <2>1 DEF Leaves, SameWeights
<1> HIDE DEF D
<1>5. Within(O) /\ O.se = D.se
  <2>1. D \in RqType
    BY <1>4 DEF Within, Good
  <2>2. Flags(D, O)
    BY <2>1, FlagsPut
  <2> QED
    BY <1>4, <2>2, FlagsInv DEF Flags
<1> HIDE DEF O
<1>6. ASSUME q' = put_prev_entity(O)
      PROVE  EevdfInv(q') /\ q'.se = O.se
  BY <1>5, <1>6, PutPrevWorks
<1>7. ASSUME NEW p \in abk_pick_eevdf(O), q' = set_next_entity(put_prev_entity(O), p)
      PROVE  EevdfInv(q') /\ q'.se = O.se
  BY <1>5, <1>7, PickSubset, NextWorks
<1>8. EevdfInv(q') /\ q'.se = O.se
  BY <1>2, <1>6, <1>7
<1>9. SameWeights(q, q')
  BY <1>4, <1>5, <1>8 DEF SameWeights
<1> QED
  BY <1>8, <1>9, SameHonours

(* A higher class takes the CPU.                                           *)
LEMMA PreemptedWorks ==
    ASSUME EevdfInv(q), Preempted
    PROVE  EevdfInv(q') /\ Honours(q, q')
<1>1. PICK delta \in Deltas :
          q' = [put_prev_entity(update_curr(q, delta)) EXCEPT !.resched = FALSE]
  BY Steps DEF Preempted
<1> DEFINE N == update_curr(q, delta)
           P == put_prev_entity(N)
<1>2. Within(N) /\ SameWeights(q, N)
  BY CurrWorks, EevdfAssumption DEF EevdfInv, SameWeights, Stays
<1> HIDE DEF N
<1>3. EevdfInv(P) /\ P.se = N.se
  BY <1>2, PutPrevWorks
<1>4. EevdfInv(q') /\ q'.se = P.se
  <2>1. q' = [P EXCEPT !.resched = FALSE]
    BY <1>1 DEF N
  <2> HIDE DEF P
  <2> QED
    BY <1>3, <2>1, ReschedInv
<1>5. SameWeights(q, q')
  BY <1>2, <1>3, <1>4 DEF SameWeights
<1> QED
  BY <1>4, <1>5, SameHonours

(* The current entity yields.                                              *)
LEMMA YieldWorks ==
    ASSUME EevdfInv(q), yield_task_fair
    PROVE  EevdfInv(q') /\ Honours(q, q')
<1> DEFINE c == q.curr
           B == clear_buddies(q, c)
<1>1. PICK delta \in Deltas :
       LET now == update_curr(B, delta)
           s == now.se[c]
           given == Put(now, c, [s EXCEPT !.vr = s.dl, !.dl = s.dl + abk_eevdf_vslice(s)])
           next == IF abk_eevdf_eligible(now, c, avg_vruntime(now))
                   THEN update_min_vruntime(given) ELSE now
       IN Step([next EXCEPT !.skip = c])
  BY DEF yield_task_fair
<1> DEFINE N == update_curr(B, delta)
           s == N.se[c]
           u == [s EXCEPT !.vr = s.dl, !.dl = s.dl + abk_eevdf_vslice(s)]
           G == Put(N, c, u)
           X == IF abk_eevdf_eligible(N, c, avg_vruntime(N))
                THEN update_min_vruntime(G) ELSE N
<1>2. q' = [X EXCEPT !.skip = c]
  BY <1>1, Steps
<1>3. c \in Entities /\ c # None /\ c \in Runnable(q) /\ c \notin Tree(q) /\ q \in RqType
  BY InvFacts DEF yield_task_fair
<1>4. /\ EevdfInv(B) /\ B.curr = c /\ Runnable(B) = Runnable(q) /\ Tree(B) = Tree(q)
      /\ B.se = q.se
  BY <1>3, BuddiesCleared, FlagsInv DEF Flags, Frame
<1> HIDE DEF B
<1>5. /\ EevdfInv(N) /\ N.curr = c /\ Runnable(N) = Runnable(q) /\ Tree(N) = Tree(q)
      /\ SameWeights(q, N)
  BY <1>4, CurrWorks, EevdfAssumption DEF SameWeights, Stays
<1> HIDE DEF N
<1>6. /\ Good(N, Tree(q)) /\ N \in RqType
      /\ \A f \in Entities : Keeps(N.se[f]) /\ N.se[f] \in EntType
  BY <1>5, InvFacts
<1>7. s \in EntType /\ s.st = "rq" /\ Settled(s)
  BY <1>3, <1>5, <1>6 DEF Runnable, Keeps
<1>8. PICK d \in Int : d = s.dl /\ s.vr \in Int
  BY <1>7, EntFields
<1>9. PICK k \in Int : k = s.dl + abk_eevdf_vslice(s) /\ d < k
  BY <1>7, <1>8, Slices
<1>10. u = [s EXCEPT !.vr = d, !.dl = k]
  BY <1>8, <1>9, Zenon
<1>11. /\ Stays(s, u) /\ u.vr = d /\ u.dl = k /\ u.rel = s.rel /\ u.vlag = s.vlag
  BY <1>7, <1>10, Zenon DEF EntType, Stays
<1> HIDE DEF u
<1>12. Settled(u) /\ u.st = "rq"
  BY <1>7, <1>9, <1>11 DEF Settled, Carried, Stays
<1>13. Touch(N, G, c) /\ G.se[c] = u
  BY <1>3, <1>6, <1>11, PutWorks DEF Stays
<1>14. Good(G, Tree(q))
  BY <1>3, <1>6, <1>13, TouchKeeps
<1> HIDE DEF G
<1>15. EevdfInv(X) /\ SameWeights(q, X)
  <2>1. CASE ~abk_eevdf_eligible(N, c, avg_vruntime(N))
    BY <1>5, <2>1
  <2>2. CASE abk_eevdf_eligible(N, c, avg_vruntime(N))
    <3>1. X = update_min_vruntime(G)
      BY <2>2
    <3> HIDE DEF X
    <3>2. Good(X, Tree(q)) /\ X.se = G.se /\ X.curr = G.curr
      BY <1>14, <3>1, UpdateMinWorks
    <3>3. X.curr = c /\ X.se[c] = u /\ \A f \in Entities \ {c} : X.se[f] = N.se[f]
      BY <1>5, <1>13, <3>2 DEF Touch, Frame
    <3>4. \A f \in Entities : X.se[f].st = N.se[f].st
      BY <1>7, <1>12, <3>3
    <3>5. Runnable(X) = Runnable(q) /\ Tree(X) = Tree(q)
      BY <1>5, <3>3, <3>4, SameRunnable
    <3>6. Keeps(u)
      BY <1>12 DEF Keeps
    <3>7. SameWeights(q, X)
      BY <1>5, <1>11, <3>3 DEF SameWeights, Stays
    <3> QED
      BY <1>3, <1>6, <3>2, <3>3, <3>5, <3>6, <3>7 DEF EevdfInv, Within
  <2> QED
    BY <2>1, <2>2
<1> HIDE DEF X
<1>16. Flags(X, [X EXCEPT !.skip = c])
  BY <1>3, <1>15, InvFacts, FlagsPut DEF Buddies
<1>17. SameWeights(q, q')
  BY <1>2, <1>15, <1>16 DEF Flags, SameWeights
<1> QED
  BY <1>2, <1>15, <1>16, <1>17, FlagsInv, SameHonours

(* Weight and request of a task are set.                                   *)
LEMMA SetAttrWorks ==
    ASSUME EevdfInv(q), NEW e \in Entities, NEW w \in Weights, NEW r \in Requests,
           SetAttr(e, w, r)
    PROVE  EevdfInv(q') /\ Honours(q, q')
<1> DEFINE Sliced(Q) == [Q EXCEPT !.se[e].slice = r]
           Set(Q) == reweight_entity(Sliced(Q), e, w, 0)
<1>1. r \in AllRequests /\ Within(q)
  BY DEF EevdfInv, AllRequests
<1> DEFINE SetTo(Q, S) ==
             /\ Within(S) /\ S.curr = Q.curr /\ Runnable(S) = Runnable(Q)
             /\ S.se[e].st = Q.se[e].st /\ S.se[e].w = w
             /\ \E o \in EntType : /\ o.w = Q.se[e].w /\ o.rel = Q.se[e].rel
                                  /\ S.se[e].rel = abk_eevdf_scale_rel_deadline(o, w)
             /\ \A f \in Entities \ {e} : S.se[f] = Q.se[f]
<1>2. ASSUME NEW Q, Within(Q), Q.se[e].st \in {"off", "away"}
      PROVE  SetTo(Q, Set(Q))
  <2> DEFINE S == Sliced(Q)
  <2>1. /\ Within(S) /\ S.curr = Q.curr /\ Runnable(S) = Runnable(Q)
        /\ S.se[e].st = Q.se[e].st /\ S.se[e].w = Q.se[e].w /\ S.se[e].rel = Q.se[e].rel
        /\ \A f \in Entities \ {e} : S.se[f] = Q.se[f]
    BY <1>1, <1>2, SliceWorks
  <2> HIDE DEF S
  <2>2. e \in Entities \ Runnable(S)
    BY <1>2, <2>1 DEF Runnable
  <2>3. /\ Within(reweight_entity(S, e, w, 0))
        /\ reweight_entity(S, e, w, 0).curr = S.curr
        /\ Runnable(reweight_entity(S, e, w, 0)) = Runnable(S)
        /\ reweight_entity(S, e, w, 0).se[e].st = S.se[e].st
        /\ reweight_entity(S, e, w, 0).se[e] = Reweighted(S.se[e], w)
        /\ \A f \in Entities \ {e} : reweight_entity(S, e, w, 0).se[f] = S.se[f]
    BY <1>2, <2>1, <2>2, ReweightOff
  <2>4. S.se[e] \in EntType
    BY <2>1, RqFields DEF Within, Good
  <2>5. /\ Reweighted(S.se[e], w).w = w
        /\ Reweighted(S.se[e], w).rel = abk_eevdf_scale_rel_deadline(S.se[e], w)
    BY <2>4, ReweightedWorks
  <2>6. Set(Q) = reweight_entity(S, e, w, 0)
    BY DEF S
  <2> HIDE DEF Set
  <2> QED
    BY <2>1, <2>3, <2>4, <2>5, <2>6
<1> HIDE DEF Set
<1>3. ASSUME q.se[e].st = "off", Move(Set(q))
      PROVE  EevdfInv(q') /\ Honours(q, q')
  <2>1. SetTo(q, Set(q)) /\ q' = Set(q)
    BY <1>1, <1>2, <1>3, Steps
  <2>2. EevdfInv(q')
    BY <2>1 DEF EevdfInv
  <2>3. e \notin Tree(q)
    BY <1>3 DEF Tree, Runnable
  <2>4. Honours(q, q')
    BY <2>1, <2>3, Sets DEF Honours
  <2> QED
    BY <2>2, <2>4
<1>4. ASSUME e \in Runnable(q), NEW delta \in Deltas, NEW save \in BOOLEAN,
             NEW out, NEW back, out = dequeue_entity(q, e, FALSE, save, delta),
             back = enqueue_entity(Set(IF e = q.curr THEN put_prev_entity(out) ELSE out),
                                   e, FALSE, FALSE, 0),
             \/ /\ e = q.curr
                /\ \E b \in BOOLEAN :
                      Move([set_next_entity(back, e) EXCEPT !.resched = b])
             \/ e # q.curr /\ Move(back)
             \/ e # q.curr /\ \E Q \in check_preempt_wakeup(back, e) : Move(Q)
      PROVE  EevdfInv(q') /\ Honours(q, q')
  <2> DEFINE P == IF e = q.curr THEN put_prev_entity(out) ELSE out
             S == Set(P)
  <2>1. /\ Within(out) /\ out.curr = q.curr /\ Runnable(out) = Runnable(q) \ {e}
        /\ out.se[e].st = "away" /\ (e # q.curr => Saves(q.se[e], out.se[e]))
        /\ \A f \in Entities \ {e} : out.se[f].w = q.se[f].w
    <3>1. Leaves(q, out, e, FALSE)
      BY <1>4, EevdfAssumption, DequeueWorks
    <3> QED
      BY <3>1 DEF Leaves
  <2>2. EevdfInv(P) /\ P.se = out.se /\ (e = q.curr => P.curr = None)
    <3>1. CASE e = q.curr
      BY <2>1, <3>1, PutPrevWorks
    <3>2. CASE e # q.curr
      BY <2>1, <3>2 DEF EevdfInv
    <3> QED
      BY <3>1, <3>2
  <2> HIDE DEF P
  <2>3. EevdfInv(S) /\ SetTo(P, S) /\ S.se[e].st = "away" /\ (e = q.curr => S.curr = None)
    <3>1. SetTo(P, S)
      BY <1>2, <2>1, <2>2 DEF EevdfInv
    <3> QED
      BY <2>1, <2>2, <3>1 DEF EevdfInv
  <2>4. back = enqueue_entity(S, e, FALSE, FALSE, 0)
    BY <1>4 DEF P
  <2> HIDE DEF S
  <2>5. /\ EevdfInv(back) /\ back.curr = S.curr /\ Runnable(back) = Runnable(S) \cup {e}
        /\ Resumes(S.se[e], back.se[e])
        /\ \A f \in Entities \ {e} : back.se[f].w = S.se[f].w
    <3>1. e \in Entities \ Runnable(S)
      BY <2>3 DEF Runnable
    <3>2. Joins(S, back, e)
      BY <2>3, <2>4, <3>1, EnqueueWorks
    <3> QED
      BY <3>2 DEF Joins
  <2>6. ASSUME e = q.curr, NEW b \in BOOLEAN,
               Move([set_next_entity(back, e) EXCEPT !.resched = b])
        PROVE  EevdfInv(q') /\ q'.se = back.se
    <3> DEFINE X == set_next_entity(back, e)
    <3>1. EevdfInv(X) /\ X.se = back.se
      BY <2>3, <2>5, <2>6, SetNextWorks DEF EevdfInv
    <3>2. q' = [X EXCEPT !.resched = b]
      BY <2>6, Steps
    <3> HIDE DEF X
    <3> QED
      BY <3>1, <3>2, ReschedInv
  <2>7. ASSUME Move(back)
        PROVE  EevdfInv(q') /\ q'.se = back.se
    BY <2>5, <2>7, Steps
  <2>8. ASSUME NEW Q \in check_preempt_wakeup(back, e), Move(Q)
        PROVE  EevdfInv(q') /\ q'.se = back.se
    BY <2>5, <2>8, CheckPreempt, Steps
  <2>9. EevdfInv(q') /\ q'.se = back.se
    BY <1>4, <2>6, <2>7, <2>8
  <2>10. \A f \in Entities \ {e} : q'.se[f].w = q.se[f].w
    BY <2>1, <2>2, <2>3, <2>5, <2>9
  <2>11. ASSUME e # q.curr PROVE Scaled(q.se[e], q'.se[e], w)
    <3> DEFINE s == q.se[e]
               t == back.se[e]
    <3>1. s \in EntType /\ t \in EntType /\ t.w = w
      BY <2>3, <2>5, InvFacts DEF Resumes
    <3>2. ASSUME s.vr < s.dl, s.dl # 0
          PROVE  t.dl - t.vr = IF Left(s, w) = 0 THEN abk_eevdf_vslice(t) ELSE Left(s, w)
      <4>1. out.se[e].w = s.w /\ out.se[e].rel = s.dl - s.vr
        BY <2>1, <2>11, <3>2 DEF Saves
      <4>2. PICK o \in EntType : /\ o.w = s.w /\ o.rel = s.dl - s.vr
                                 /\ S.se[e].rel = abk_eevdf_scale_rel_deadline(o, w)
        BY <2>2, <2>3, <4>1
      <4>3. S.se[e].rel = Left(s, w) /\ Left(s, w) # NoTag
        BY <3>1, <3>2, <4>2, ScaleWorks
      <4> QED
        BY <2>5, <4>3 DEF Resumes
    <3> QED
      BY <2>9, <3>1, <3>2 DEF Scaled
  <2>12. Honours(q, q')
    <3>1. SUFFICES ASSUME NEW f \in Tree(q), q'.se[f].w # q.se[f].w
                   PROVE  Scaled(q.se[f], q'.se[f], w)
      BY DEF Honours
    <3>2. f = e /\ f # q.curr
      BY <2>10, <3>1, Sets DEF Tree
    <3> QED
      BY <2>11, <3>2
  <2> QED
    BY <2>9, <2>12
<1> DEFINE Out(delta) == dequeue_entity(q, e, FALSE, w = q.se[e].w, delta)
           Back(out) == enqueue_entity(Set(IF e = q.curr THEN put_prev_entity(out) ELSE out),
                                       e, FALSE, FALSE, 0)
           Ends(back) ==
               IF e = q.curr
               THEN Move([set_next_entity(back, e)
                             EXCEPT !.resched = @ \/ (w < q.se[e].w /\ Tree(q) # {})])
               ELSE IF w = q.se[e].w THEN Move(back)
               ELSE \E Q \in check_preempt_wakeup(back, e) : Move(Q)
<1>5. \/ q.se[e].st = "off" /\ Move(Set(q))
      \/ /\ e \in Runnable(q)
         /\ \E out \in {Out(delta) : delta \in Deltas} : \E back \in {Back(out)} : Ends(back)
  BY DEF SetAttr, Set
<1>6. CASE q.se[e].st = "off" /\ Move(Set(q))
  BY <1>3, <1>6
<1>7. ASSUME e \in Runnable(q), NEW delta \in Deltas, NEW out, NEW back,
             out = dequeue_entity(q, e, FALSE, w = q.se[e].w, delta),
             back = enqueue_entity(Set(IF e = q.curr THEN put_prev_entity(out) ELSE out),
                                   e, FALSE, FALSE, 0),
             \/ /\ e = q.curr
                /\ Move([set_next_entity(back, e)
                            EXCEPT !.resched = @ \/ (w < q.se[e].w /\ Tree(q) # {})])
             \/ e # q.curr /\ Move(back)
             \/ e # q.curr /\ \E Q \in check_preempt_wakeup(back, e) : Move(Q)
      PROVE  EevdfInv(q') /\ Honours(q, q')
  <2> DEFINE b == set_next_entity(back, e).resched \/ (w < q.se[e].w /\ Tree(q) # {})
  <2>1. b \in BOOLEAN
    OBVIOUS
  <2>2. [set_next_entity(back, e) EXCEPT !.resched = @ \/ (w < q.se[e].w /\ Tree(q) # {})]
          = [set_next_entity(back, e) EXCEPT !.resched = b]
    BY Zenon
  <2> HIDE DEF b
  <2> QED
    BY <1>4, <1>7, <2>1, <2>2, Zenon
<1>8. ASSUME e \in Runnable(q), NEW delta \in Deltas, Ends(Back(Out(delta)))
      PROVE  EevdfInv(q') /\ Honours(q, q')
  <2>1. PICK out : out = Out(delta)
    OBVIOUS
  <2>2. PICK back : back = Back(out)
    OBVIOUS
  <2>3. Ends(back)
    BY <1>8, <2>1, <2>2
  <2> QED
    BY <1>7, <1>8, <2>1, <2>2, <2>3
<1> HIDE DEF Out, Back, Ends
<1> QED
  BY <1>5, <1>6, <1>8

(* A group changes its weight.                                             *)
LEMMA ReweightWorks ==
    ASSUME EevdfInv(q), NEW e \in Entities, NEW w \in Weights, Reweight(e, w)
    PROVE  EevdfInv(q') /\ Honours(q, q')
<1>1. PICK delta \in Deltas : q' = reweight_entity(q, e, w, delta)
  BY Steps DEF Reweight
<1>2. e \in Runnable(q) /\ delta \in Nat
  BY EevdfAssumption DEF Reweight
<1>3. /\ EevdfInv(q') /\ \A f \in Entities \ {e} : q'.se[f].w = q.se[f].w
      /\ e # q.curr => Scaled(q.se[e], q'.se[e], w)
  BY <1>1, <1>2, ReweightOn
<1>4. Honours(q, q')
  <2>1. SUFFICES ASSUME NEW f \in Tree(q), q'.se[f].w # q.se[f].w
                 PROVE  Scaled(q.se[f], q'.se[f], w)
    BY DEF Honours
  <2>2. f = e /\ f # q.curr
    BY <1>3, <2>1, Sets DEF Tree
  <2> QED
    BY <1>3, <2>2
<1> QED
  BY <1>3, <1>4

(* Whatever happens.                                                       *)
LEMMA StepWorks ==
    ASSUME EevdfInv(q), [Next]_vars
    PROVE  EevdfInv(q') /\ Honours(q, q')
<1> DEFINE G == EevdfInv(q') /\ Honours(q, q')
<1>1. ASSUME UNCHANGED vars PROVE G
  BY <1>1, SameHonours DEF vars, SameWeights
<1>2. ASSUME NEW e \in Entities, Fork(e) PROVE G
  BY <1>2, ForkWorks
<1>3. ASSUME NEW e \in Entities, WakeNew(e) \/ Attach(e) \/ Wake(e) PROVE G
  BY <1>3, ActivateWorks DEF WakeNew, Attach, Wake
<1>4. ASSUME NEW e \in Entities, Detach(e) PROVE G
  BY <1>4, DetachWorks
<1>5. ASSUME NEW e \in Entities, NEW w \in Weights, Reweight(e, w) PROVE G
  BY <1>5, ReweightWorks
<1>6. ASSUME NEW e \in Entities, NEW w \in Weights, NEW r \in Requests, SetAttr(e, w, r)
      PROVE  G
  BY <1>6, SetAttrWorks
<1>7. ASSUME Tick PROVE G
  BY <1>7, TickWorks
<1>8. ASSUME Schedule PROVE G
  BY <1>8, ScheduleWorks
<1>9. ASSUME Block PROVE G
  BY <1>9, BlockWorks
<1>10. ASSUME Preempted PROVE G
  BY <1>10, PreemptedWorks
<1>11. ASSUME yield_task_fair PROVE G
  BY <1>11, YieldWorks
<1> QED
  BY <1>1, <1>2, <1>3, <1>4, <1>5, <1>6, <1>7, <1>8, <1>9, <1>10, <1>11, Zenon DEF Next

-----------------------------------------------------------------------------
(* The theorems                                                            *)

(* The invariant is inductive: the sums are those over the tree, the       *)
(* current entity is runnable, and every entity carries what it may.       *)
THEOREM RunQueueCorrect == Spec => []EevdfInv(q)
<1>1. EevdfInv(q) /\ [Next]_vars => EevdfInv(q)'
  BY StepWorks
<1> QED
  BY <1>1, InitWorks, PTL DEF Spec

(* The incremental sums of batch15_perf_eevdf.py:166-173 are the sums over *)
(* the tree in every reachable state.                                      *)
THEOREM SumsCorrect == Spec => []SumsExact
<1>1. EevdfInv(q) => SumsExact
  BY DEF EevdfInv, Within, Good, Sums, SumsExact
<1> QED
  BY <1>1, RunQueueCorrect, PTL

(* No runnable entity still carries lag or a relative deadline, and none   *)
(* but a new task stands with a consumed request                           *)
(* (batch15_perf_eevdf.py:692-710).                                        *)
THEOREM NothingAppliedTwice == Spec => []CarriedOnce
<1>1. EevdfInv(q) => CarriedOnce
  <2> SUFFICES ASSUME EevdfInv(q), NEW e \in Runnable(q)
               PROVE  ~Carried(q.se[e]) /\ (q.se[e].fresh \/ q.se[e].vr < q.se[e].dl)
    BY DEF CarriedOnce
  <2>1. e \in Entities /\ q.se[e].st = "rq" /\ Keeps(q.se[e])
    BY InvFacts DEF Runnable
  <2> QED
    BY <2>1 DEF Keeps, Settled
<1> QED
  BY <1>1, RunQueueCorrect, PTL

(* abk_pick_eevdf() picks, of those that are owed service by the weighted  *)
(* average, one with the earliest deadline, and never nobody               *)
(* (batch15_perf_eevdf.py:715-716): the rounded average and the sums it is *)
(* made from do not change the choice.                                     *)
THEOREM EarliestRuns == Spec => []EarliestEligibleRuns
  BY PickWorks, RunQueueCorrect, PTL

(* A request is at least a nanosecond of virtual time at every weight: the *)
(* clamp of sched_setattr() and the granularity leave it far more.         *)
WeightsFit ==
    \A w \in Weights : /\ w <= Nice0 * MinGran
                       /\ \A r \in Requests \ {0} : w <= Nice0 * r

(* A request in virtual time, by the weight, is the request, rounded.      *)
LEMMA VirtualRequest ==
    ASSUME WeightsFit, NEW t \in EntType, t.w \in Weights
    PROVE  /\ abk_eevdf_vslice(t) * t.w \in Nat
           /\ abk_eevdf_vslice(t) * t.w >= t.w
           /\ abk_eevdf_vslice(t) * t.w <= Nice0 * abk_eevdf_slice(t)
<1>1. PICK n \in Nat \ {0} : n = abk_eevdf_slice(t)
  BY Slices
<1>2. PICK w \in Nat \ {0} : w = t.w /\ w \in Weights
  BY EevdfAssumption
<1>3. PICK N \in Nat \ {0} : N = Nice0
  BY EevdfAssumption
<1>4. w <= N * n
  BY <1>1, <1>2, <1>3, Slices DEF WeightsFit, AllRequests
<1>5. PICK m \in Nat : m = n * N /\ m = N * n
  <2>1. n * N \in Nat /\ n * N = N * n
    BY <1>1, <1>3
  <2> QED
    BY <2>1
<1>6. PICK d \in Nat : d = m \div w /\ d * w <= m
  <2>1. PICK x \in Nat : x = m \div w
    BY <1>2, <1>5
  <2>2. w * x <= m
    BY <1>2, <1>5, <2>1
  <2>3. \A i, j \in Nat : i * j = j * i
    OBVIOUS
  <2> QED
    BY <1>2, <2>1, <2>2, <2>3
<1>7. 1 \in Int /\ d \in Int
  BY <1>6
<1>8. PICK v \in Int : v = Max({d, 1}) /\ v \in {d, 1} /\ v >= 1
  <2>1. /\ Max({d, 1}) \in {d, 1} /\ Max({d, 1}) \in Int
        /\ Max({d, 1}) >= 1
    BY <1>7, MaxTwo, Zenon
  <2> QED
    BY <2>1, Zenon
<1>9. abk_eevdf_vslice(t) = v
  BY <1>1, <1>2, <1>3, <1>5, <1>6, <1>8, Zenon DEF abk_eevdf_vslice, calc_delta_fair
<1>10. v * w \in Nat /\ v * w <= m
  <2>1. CASE v = d
    BY <1>6, <2>1
  <2>2. CASE v = 1
    BY <1>2, <1>4, <1>5, <2>2
  <2> QED
    BY <1>8, <2>1, <2>2
<1>11. v * w >= w
  <2>1. PICK k \in Nat : v = 1 + k
    BY <1>8
  <2>2. \A i, j \in Nat : (1 + i) * j = j + i * j /\ i * j \in Nat
    OBVIOUS
  <2> QED
    BY <1>2, <2>1, <2>2
<1> QED
  BY <1>1, <1>2, <1>3, <1>5, <1>9, <1>10, <1>11

(* What is left of a scaled request, in execution time.                    *)
LEMMA ScaledKeeps ==
    ASSUME WeightsFit, NEW s \in EntType, NEW w \in Weights, NEW t, Scaled(s, t, w),
           s.vr < s.dl, s.dl # 0
    PROVE  LET left == (t.dl - t.vr) * t.w - (s.dl - s.vr) * s.w
           IN left > -t.w /\ left <= Nice0 * abk_eevdf_slice(t)
<1>1. /\ t \in EntType /\ t.w = w /\ w \in Nat \ {0}
      /\ t.dl - t.vr = IF Left(s, w) = 0 THEN abk_eevdf_vslice(t) ELSE Left(s, w)
  BY EevdfAssumption DEF Scaled
<1>2. PICK k \in Nat : k = (s.dl - s.vr) * s.w
  <2>1. s.dl - s.vr \in Nat /\ s.w \in Nat
    BY EntFields
  <2>2. \A x, y \in Nat : x * y \in Nat
    OBVIOUS
  <2> QED
    BY <2>1, <2>2
<1>3. PICK l \in Nat : l = Left(s, w) /\ l * w <= k /\ k < l * w + w
  <2>1. PICK l \in Nat : l = k \div w
    BY <1>1
  <2>2. w * l <= k /\ k < w * l + w
    BY <1>1, <2>1
  <2>3. \A i, j \in Nat : i * j = j * i
    OBVIOUS
  <2>4. l = Left(s, w)
    BY <1>2, <2>1, Zenon DEF Left
  <2> QED
    BY <1>1, <2>1, <2>2, <2>3, <2>4
<1>4. PICK n \in Nat : n = Nice0 * abk_eevdf_slice(t)
  <2>1. Nice0 \in Nat /\ abk_eevdf_slice(t) \in Nat
    BY <1>1, Slices, EevdfAssumption
  <2>2. \A x, y \in Nat : x * y \in Nat
    OBVIOUS
  <2> QED
    BY <2>1, <2>2
<1>5. PICK v \in Nat : v = abk_eevdf_vslice(t) * w /\ v >= w /\ v <= n
  BY <1>1, <1>4, VirtualRequest
<1>6. PICK x : x = (t.dl - t.vr) * t.w
  OBVIOUS
<1>7. x \in Int /\ x - k > -w /\ x - k <= n
  <2>1. CASE l = 0
    <3>1. x = v
      BY <1>1, <1>3, <1>5, <1>6, <2>1
    <3>2. k < w
      BY <1>1, <1>3, <2>1
    <3> QED
      BY <1>1, <1>2, <1>5, <3>1, <3>2
  <2>2. CASE l # 0
    <3>1. x = l * w
      BY <1>1, <1>3, <1>6, <2>2
    <3>2. PICK y \in Nat : y = l * w
      <4>1. \A i, j \in Nat : i * j \in Nat
        OBVIOUS
      <4> QED
        BY <1>1, <4>1
    <3>3. y <= k /\ k < y + w
      BY <1>3, <3>2
    <3> QED
      BY <1>1, <1>2, <1>4, <3>1, <3>2, <3>3
  <2> QED
    BY <2>1, <2>2
<1> QED
  BY <1>1, <1>2, <1>4, <1>6, <1>7, Zenon

(* A waiting entity whose weight changes keeps what is left of its request *)
(* in execution time, up to rounding (batch15_perf_eevdf.py:872-880).      *)
THEOREM RequestIsKept == ASSUME WeightsFit PROVE Spec => RequestKept
<1> DEFINE Kept == \A e \in Tree(q) \cap Tree(q)' :
               LET s == q.se[e]
                   t == q'.se[e]
                   left == (t.dl - t.vr) * t.w - (s.dl - s.vr) * s.w
               IN s.w # t.w /\ s.vr < s.dl /\ s.dl # 0
                     => left > -t.w /\ left <= Nice0 * abk_eevdf_slice(t)
<1>1. ASSUME EevdfInv(q), [Next]_vars PROVE Kept
  <2>1. TAKE e \in Tree(q) \cap Tree(q)'
  <2> DEFINE s == q.se[e]
             t == q'.se[e]
  <2>2. SUFFICES ASSUME s.w # t.w, s.vr < s.dl, s.dl # 0
                 PROVE  LET left == (t.dl - t.vr) * t.w - (s.dl - s.vr) * s.w
                        IN left > -t.w /\ left <= Nice0 * abk_eevdf_slice(t)
    OBVIOUS
  <2>3. PICK w \in Weights : Scaled(s, t, w)
    BY <1>1, <2>2, StepWorks DEF Honours
  <2>4. s \in EntType
    BY <1>1, InvFacts, Sets
  <2> QED
    BY <1>1, <2>2, <2>3, <2>4, ScaledKeeps, Zenon
<1>2. EevdfInv(q) /\ [Next]_vars => [Kept]_vars
  BY <1>1
<1> QED
  BY <1>2, RunQueueCorrect, PTL DEF Spec, RequestKept
=============================================================================
