-------------------------- MODULE IngestionProofs --------------------------
(***************************************************************************)
(* Proofs about Ingestion, for any set of events, sources, limits and      *)
(* bounds: type correctness, that the deduplicator only knows published    *)
(* events, and the two bounds on duplicates.                               *)
(***************************************************************************)
EXTENDS Ingestion, TLAPS

(* The whole next-state relation, unfolded: one disjunct per action.       *)
LEMMA Steps ==
    ASSUME [Next]_vars
    PROVE  \/ Start \/ FetchAll \/ EndCycle \/ Wake \/ Shutdown \/ Crash
           \/ RedisFails \/ RedisRecovers
           \/ \E e \in Event : SkipDuplicate(e)
           \/ \E e \in Event : Admit(e)
           \/ \E e \in Event : ProduceAcked(e)
           \/ \E e \in Event : ProduceFailed(e)
           \/ \E e \in Event : MarkSeen(e)
           \/ \E e \in Event : Reject(e)
           \/ \E e \in Event : Appear(e)
           \/ \E e \in Event : LeaveWindow(e)
           \/ \E e \in Event : LoseKey(e)
           \/ UNCHANGED vars
  BY DEF Next, PollLoop, Environment

(* A fetch answers with events.                                            *)
LEMMA FetchIsEvents == \A S \in SUBSET Source : UNION {Fetch(s) : s \in S} \subseteq Event
  BY DEF Fetch, Page, Visible

(* What marking does to the LRU: it still is a sequence of events, and it  *)
(* gains at most the marked event.                                         *)
LEMMA MarkedLru ==
    ASSUME TypeOK, NEW e \in Event, MarkSeen(e)
    PROVE  /\ lru' \in Seq(Event)
           /\ Cached' \subseteq Cached \cup {e}
           /\ e \in Cached'
           /\ evictions' = evictions => Cached \subseteq Cached'
  <1>1. LruCapacity \in Nat \ {0}
    BY IngestionAssumption
  <1>2. CASE Len(lru) < LruCapacity /\ lru' = Append(lru, e)
    <2>1. lru \in Seq(Event)
      BY DEF TypeOK
    <2>2. lru' \in Seq(Event) /\ Len(lru') = Len(lru) + 1 /\ lru'[Len(lru) + 1] = e
      BY <1>2, <2>1
    <2>3. \A i \in 1..Len(lru) : lru'[i] = lru[i]
      BY <1>2, <2>1
    <2>4. DOMAIN lru = 1..Len(lru) /\ DOMAIN lru' = 1..(Len(lru) + 1)
      BY <2>1, <2>2
    <2>5. \A i \in DOMAIN lru' : lru'[i] \in Cached \cup {e}
      BY <2>1, <2>2, <2>3, <2>4 DEF Cached
    <2>6. Len(lru) + 1 \in DOMAIN lru'
      BY <2>1, <2>4
    <2>7. \A i \in DOMAIN lru : i \in DOMAIN lru' /\ lru'[i] = lru[i]
      BY <2>1, <2>3, <2>4
    <2> QED BY <2>2, <2>5, <2>6, <2>7 DEF Cached
  <1>3. CASE ~(Len(lru) < LruCapacity) /\ lru' = Append(Tail(lru), e)
    <2>1. lru \in Seq(Event) /\ lru # <<>> /\ Tail(lru) \in Seq(Event)
      BY <1>1, <1>3 DEF TypeOK
    <2>2. lru' \in Seq(Event) /\ Len(lru') = Len(lru) /\ lru'[Len(lru)] = e
      BY <1>3, <2>1
    <2>3. \A i \in 1..(Len(lru) - 1) : lru'[i] = lru[i + 1]
      BY <1>3, <2>1
    <2>4. DOMAIN lru = 1..Len(lru) /\ DOMAIN lru' = 1..Len(lru)
      BY <2>1, <2>2
    <2>5. \A i \in DOMAIN lru' : lru'[i] \in Cached \cup {e}
      <3> SUFFICES ASSUME NEW i \in DOMAIN lru' PROVE lru'[i] \in Cached \cup {e}
        OBVIOUS
      <3>1. CASE i = Len(lru)
        BY <3>1, <2>2
      <3>2. CASE i # Len(lru)
        <4>1. i \in 1..(Len(lru) - 1) /\ i + 1 \in DOMAIN lru
          BY <3>2, <2>4, <2>1
        <4> QED BY <4>1, <2>3 DEF Cached
      <3> QED BY <3>1, <3>2
    <2>6. Len(lru) \in DOMAIN lru'
      BY <2>1, <2>4
    <2>7. evictions' # evictions
      BY <1>3 DEF MarkSeen, TypeOK
    <2> QED BY <2>2, <2>5, <2>6, <2>7 DEF Cached
  <1> QED BY <1>2, <1>3 DEF MarkSeen

-----------------------------------------------------------------------------

(* The flags stay Boolean.                                                 *)
LEMMA FlagsStep ==
    ASSUME FlagsOK, [Next]_vars
    PROVE  FlagsOK'
  <1> USE DEF FlagsOK
  <1>1. CASE Start
    BY <1>1, Zenon DEF Start, outside
  <1>2. CASE FetchAll \/ EndCycle \/ Wake
    BY <1>2, Zenon DEF FetchAll, EndCycle, Wake, outside
  <1>3. CASE Shutdown \/ Crash \/ RedisFails \/ RedisRecovers
    BY <1>3, Zenon DEF Shutdown, Crash, RedisFails, RedisRecovers, process, outside
  <1>4. ASSUME NEW e \in Event, SkipDuplicate(e) \/ Admit(e) \/ ProduceAcked(e) PROVE FlagsOK'
    BY <1>4, Zenon DEF SkipDuplicate, Admit, ProduceAcked, outside
  <1>5. ASSUME NEW e \in Event, ProduceFailed(e) \/ MarkSeen(e) \/ Reject(e) PROVE FlagsOK'
    BY <1>5, Zenon DEF ProduceFailed, MarkSeen, Reject
  <1>6. ASSUME NEW e \in Event, Appear(e) \/ LeaveWindow(e) \/ LoseKey(e) PROVE FlagsOK'
    BY <1>6, Zenon DEF Appear, LeaveWindow, LoseKey, process
  <1>7. CASE UNCHANGED vars
    BY <1>7, Zenon DEF vars, process, outside
  <1> QED BY Steps, <1>1, <1>2, <1>3, <1>4, <1>5, <1>6, <1>7

(* Every step keeps the types.                                             *)
LEMMA TypeStep ==
    ASSUME TypeOK, [Next]_vars
    PROVE  TypeOK'
  <1> USE DEF TypeOK
  <1>f. FlagsOK'
    BY FlagsStep
  <1>a. MaxAttempts \in Nat \ {0} /\ LruCapacity \in Nat \ {0}
    BY IngestionAssumption
  <1>1. CASE Start
    BY <1>1, <1>f, <1>a DEF Start, outside, counters
  <1>2. CASE FetchAll
    BY <1>2, <1>f, FetchIsEvents DEF FetchAll, outside
  <1>3. CASE EndCycle
    BY <1>3, <1>f DEF EndCycle, outside, counters
  <1>4. CASE Wake
    BY <1>4, <1>f DEF Wake, outside, counters
  <1>5. CASE Shutdown
    BY <1>5, <1>f DEF Shutdown, outside
  <1>6. CASE Crash
    <2>1. unmarked' \in [Event -> Nat]
      BY <1>6, <1>f DEF Crash
    <2> QED BY <1>6, <1>f, <1>a, <2>1 DEF Crash, outside
  <1>7. CASE RedisFails
    BY <1>7, <1>f DEF RedisFails, process
  <1>8. CASE RedisRecovers
    BY <1>8, <1>f DEF RedisRecovers, process, counters
  <1>9. ASSUME NEW e \in Event, SkipDuplicate(e) PROVE TypeOK'
    BY <1>9, <1>f DEF SkipDuplicate, outside, counters
  <1>10. ASSUME NEW e \in Event, Admit(e) PROVE TypeOK'
    BY <1>10, <1>f, <1>a DEF Admit, outside, counters
  <1>11. ASSUME NEW e \in Event, ProduceAcked(e) PROVE TypeOK'
    BY <1>11, <1>f DEF ProduceAcked, counters
  <1>12. ASSUME NEW e \in Event, ProduceFailed(e) PROVE TypeOK'
    BY <1>12, <1>f, <1>a DEF ProduceFailed
  <1>13. ASSUME NEW e \in Event, MarkSeen(e) PROVE TypeOK'
    <2>1. lru' \in Seq(Event)
      BY <1>13, MarkedLru
    <2>2. evictions' \in Nat
      BY <1>13 DEF MarkSeen
    <2>3. redis' \subseteq Event
      BY <1>13 DEF MarkSeen
    <2>4. /\ pc' = "process" /\ current' = {} /\ attempt' = 0
          /\ UNCHANGED <<batch, upstream, copies, dlq, restarts, faults, redisFaults, ambiguous, unmarked>>
      BY <1>13, Zenon DEF MarkSeen
    <2> QED BY <2>1, <2>2, <2>3, <2>4, <1>f, <1>a
  <1>14. ASSUME NEW e \in Event, Reject(e) PROVE TypeOK'
    BY <1>14, <1>f DEF Reject
  <1>15. ASSUME NEW e \in Event, Appear(e) PROVE TypeOK'
    BY <1>15, <1>f DEF Appear, process, counters
  <1>16. ASSUME NEW e \in Event, LeaveWindow(e) PROVE TypeOK'
    BY <1>16, <1>f DEF LeaveWindow, process, counters
  <1>17. ASSUME NEW e \in Event, LoseKey(e) PROVE TypeOK'
    BY <1>17, <1>f DEF LoseKey, process
  <1>18. CASE UNCHANGED vars
    BY <1>18, <1>f DEF vars, process, outside, counters
  <1> QED
    BY Steps, <1>1, <1>2, <1>3, <1>4, <1>5, <1>6, <1>7, <1>8, <1>9, <1>10,
       <1>11, <1>12, <1>13, <1>14, <1>15, <1>16, <1>17, <1>18

LEMMA InitType == Init => TypeOK
  <1> SUFFICES ASSUME Init PROVE TypeOK
    OBVIOUS
  <1>1. FlagsOK
    BY Zenon DEF Init, FlagsOK
  <1>2. redisFaults \in Nat
    BY DEF Init
  <1> QED BY <1>1, <1>2, IngestionAssumption DEF Init, TypeOK

(* Every variable of the service keeps its type.                           *)
THEOREM TypeCorrect == Spec => []TypeOK
  <1>1. Init => TypeOK
    BY InitType
  <1>2. TypeOK /\ [Next]_vars => TypeOK'
    BY TypeStep
  <1> QED BY <1>1, <1>2, PTL DEF Spec
-----------------------------------------------------------------------------

(* A copy never disappears.                                                *)
LEMMA CopiesGrow ==
    ASSUME TypeOK, [Next]_vars
    PROVE  \A e \in Event : copies'[e] >= copies[e]
  <1> USE DEF TypeOK
  <1>1. CASE copies' = copies
    BY <1>1
  <1>2. ASSUME NEW e \in Event, ProduceAcked(e) PROVE \A f \in Event : copies'[f] >= copies[f]
    BY <1>2 DEF ProduceAcked
  <1>3. ASSUME NEW e \in Event, ProduceFailed(e) PROVE \A f \in Event : copies'[f] >= copies[f]
    BY <1>3 DEF ProduceFailed
  <1> QED
    BY Steps, <1>1, <1>2, <1>3
    DEF Start, FetchAll, EndCycle, Wake, Shutdown, Crash, RedisFails, RedisRecovers, SkipDuplicate,
        Admit, MarkSeen, Reject, Appear, LeaveWindow, LoseKey, vars, outside

(* An event waiting to be marked has been published: this makes            *)
(* SeenIsPublished inductive.                                              *)
MarkIsPublished == pc = "mark" => \A e \in current : copies[e] > 0

SeenInv == TypeOK /\ MarkIsPublished /\ SeenIsPublished

LEMMA SeenStep ==
    ASSUME SeenInv, [Next]_vars
    PROVE  MarkIsPublished' /\ SeenIsPublished'
  <1> USE DEF SeenInv
  <1>t. TypeOK /\ TypeOK' /\ \A e \in Event : copies'[e] >= copies[e]
    BY TypeStep, CopiesGrow
  <1>n. \A e \in Event : copies[e] \in Nat /\ copies'[e] \in Nat
    BY <1>t DEF TypeOK
  <1>e. Cached \subseteq Event /\ redis \subseteq Event /\ current \subseteq Event
    BY <1>t DEF TypeOK, Cached
  <1>k. ASSUME Cached' \subseteq Cached, redis' \subseteq redis
        PROVE  SeenIsPublished'
    BY <1>k, <1>t, <1>n, <1>e DEF SeenIsPublished
  <1>m. ASSUME UNCHANGED <<pc, current>> PROVE MarkIsPublished'
    BY <1>m, <1>t, <1>n, <1>e DEF MarkIsPublished
  <1>1. CASE Start
    BY <1>1, <1>k DEF Start, MarkIsPublished, outside, Cached
  <1>2. CASE FetchAll \/ EndCycle \/ Wake \/ Crash
    <2>1. lru' = lru /\ redis' = redis /\ pc' # "mark"
      BY <1>2 DEF FetchAll, EndCycle, Wake, Crash, outside
    <2> QED BY <2>1, <1>k DEF MarkIsPublished, Cached
  <1>3. CASE Shutdown \/ RedisFails \/ RedisRecovers
    BY <1>3, <1>k, <1>m DEF Shutdown, RedisFails, RedisRecovers, process, outside, Cached
  <1>4. ASSUME NEW e \in Event, SkipDuplicate(e) \/ Admit(e) \/ ProduceFailed(e) \/ Reject(e)
        PROVE  MarkIsPublished' /\ SeenIsPublished'
    <2>1. lru' = lru /\ redis' = redis /\ pc' # "mark"
      BY <1>4, <1>t DEF SkipDuplicate, Admit, ProduceFailed, Reject, outside
    <2> QED BY <2>1, <1>k DEF MarkIsPublished, Cached
  <1>5. ASSUME NEW e \in Event, ProduceAcked(e) PROVE MarkIsPublished' /\ SeenIsPublished'
    <2>1. copies'[e] > 0 /\ current' = {e} /\ lru' = lru /\ redis' = redis
      BY <1>5, <1>n, <1>t DEF ProduceAcked, TypeOK
    <2> QED BY <2>1, <1>k DEF MarkIsPublished, Cached
  <1>6. ASSUME NEW e \in Event, MarkSeen(e) PROVE MarkIsPublished' /\ SeenIsPublished'
    <2>1. copies' = copies /\ copies[e] > 0 /\ pc' = "process" /\ redis' \subseteq redis \cup {e}
      BY <1>6 DEF MarkSeen, MarkIsPublished
    <2>2. Cached' \subseteq Cached \cup {e}
      BY <1>6, <1>t, MarkedLru
    <2> QED BY <2>1, <2>2 DEF MarkIsPublished, SeenIsPublished
  <1>7. ASSUME NEW e \in Event, Appear(e) \/ LeaveWindow(e) \/ LoseKey(e)
        PROVE  MarkIsPublished' /\ SeenIsPublished'
    BY <1>7, <1>k, <1>m DEF Appear, LeaveWindow, LoseKey, process, Cached
  <1>8. CASE UNCHANGED vars
    BY <1>8, <1>k, <1>m DEF vars, process, outside, Cached
  <1> QED BY Steps, <1>1, <1>2, <1>3, <1>4, <1>5, <1>6, <1>7, <1>8

(* Only published events are in the LRU or in Redis.                       *)
THEOREM SeenIsPublishedCorrect == Spec => []SeenIsPublished
  <1>1. Init => SeenInv
    <2> SUFFICES ASSUME Init PROVE SeenInv
      OBVIOUS
    <2>1. MarkIsPublished /\ SeenIsPublished
      BY DEF Init, MarkIsPublished, SeenIsPublished, Cached
    <2>2. TypeOK
      BY InitType
    <2> QED BY <2>1, <2>2 DEF SeenInv
  <1>2. SeenInv /\ [Next]_vars => SeenInv'
    BY SeenStep, TypeStep DEF SeenInv
  <1>3. SeenInv => SeenIsPublished
    BY DEF SeenInv
  <1> QED BY <1>1, <1>2, <1>3, PTL DEF Spec
-----------------------------------------------------------------------------

(* Why duplicates are paid for.  An event is Owned while this run of the   *)
(* process will not publish it again: it is cached, or about to be.  Only  *)
(* an owned event may have used up the whole budget; losing the ownership  *)
(* is an eviction or a restart, and both enlarge the budget.  A shutdown   *)
(* request is counted when it is made, before the LRU is lost.             *)
Owned(e) ==
    \/ pc = "stopped"
    \/ Running /\ (e \in Cached \/ (pc = "mark" /\ e \in current))

Credit(e) == IF Owned(e) THEN 1 ELSE 0

Debt == IF stopping THEN 1 ELSE 0

Budget(e) == ambiguous[e] + restarts + evictions

PaidInv ==
    /\ TypeOK
    /\ pc = "stopped" => stopping
    /\ pc = "mark" => \E e \in Event : current = {e}
    /\ pc = "produce" => current \cap Cached = {}
    /\ \A e \in Event : copies[e] + Debt <= Budget(e) + Credit(e)

(* The control part of PaidInv.                                            *)
LEMMA PaidControl ==
    ASSUME PaidInv, [Next]_vars
    PROVE  /\ pc' = "stopped" => stopping'
           /\ pc' = "mark" => \E e \in Event : current' = {e}
           /\ pc' = "produce" => current' \cap Cached' = {}
  <1> USE DEF PaidInv, TypeOK
  <1>1. CASE Start \/ FetchAll \/ EndCycle \/ Wake \/ Crash
    BY <1>1, Zenon DEF Start, FetchAll, EndCycle, Wake, Crash
  <1>2. CASE Shutdown \/ RedisFails \/ RedisRecovers \/ UNCHANGED vars
    BY <1>2, Zenon DEF Shutdown, RedisFails, RedisRecovers, vars, process, Cached
  <1>3. ASSUME NEW e \in Event, SkipDuplicate(e) \/ Appear(e) \/ LeaveWindow(e) \/ LoseKey(e)
        PROVE  /\ pc' = "stopped" => stopping'
               /\ pc' = "mark" => \E f \in Event : current' = {f}
               /\ pc' = "produce" => current' \cap Cached' = {}
    BY <1>3, Zenon DEF SkipDuplicate, Appear, LeaveWindow, LoseKey, process, Cached
  <1>4. ASSUME NEW e \in Event, Admit(e)
        PROVE  /\ pc' \notin {"stopped", "mark"}
               /\ current' \cap Cached' = {}
    BY <1>4 DEF Admit, IsDuplicate, Cached
  <1>5. ASSUME NEW e \in Event, ProduceAcked(e)
        PROVE  pc' = "mark" /\ current' = {e}
    BY <1>5 DEF ProduceAcked
  <1>6. ASSUME NEW e \in Event, ProduceFailed(e)
        PROVE  /\ pc' \notin {"stopped", "mark"}
               /\ pc' = "produce" => pc = "produce" /\ current' = current /\ Cached' = Cached
    BY <1>6 DEF ProduceFailed, Cached
  <1>7. ASSUME NEW e \in Event, MarkSeen(e) \/ Reject(e)
        PROVE  pc' = "process"
    BY <1>7 DEF MarkSeen, Reject
  <1> QED
    BY Steps, <1>1, <1>2, <1>3, <1>4, <1>5, <1>6, <1>7

(* The accounting part, for one event f.                                   *)
LEMMA PaidAccount ==
    ASSUME PaidInv, [Next]_vars, NEW f \in Event
    PROVE  copies'[f] + Debt' <= Budget(f)' + Credit(f)'
  <1>t. TypeOK /\ TypeOK' /\ FlagsOK /\ FlagsOK'
    BY TypeStep DEF PaidInv, TypeOK
  <1>i. copies[f] + Debt <= Budget(f) + Credit(f)
    BY DEF PaidInv
  <1>n. /\ copies[f] \in Nat /\ ambiguous[f] \in Nat /\ restarts \in Nat /\ evictions \in Nat
        /\ copies'[f] \in Nat /\ ambiguous'[f] \in Nat /\ restarts' \in Nat /\ evictions' \in Nat
    BY <1>t DEF TypeOK
  <1>d. Debt \in {0, 1} /\ Debt' \in {0, 1} /\ Credit(f) \in {0, 1} /\ Credit(f)' \in {0, 1}
    BY DEF Debt, Credit
  <1>c. Owned(f) => Credit(f) = 1
    BY DEF Credit
  <1>o. ~Owned(f) => Credit(f) = 0
    BY DEF Credit
  <1>c2. Owned(f)' => Credit(f)' = 1
    BY DEF Credit
  <1>k. ASSUME UNCHANGED <<copies, ambiguous, restarts, evictions, stopping>>,
               Owned(f) => Owned(f)'
        PROVE  copies'[f] + Debt' <= Budget(f)' + Credit(f)'
    <2>1. Debt' = Debt
      BY <1>k DEF Debt
    <2>2. Credit(f) <= Credit(f)'
      BY <1>k, <1>o, <1>c2, <1>d
    <2> QED BY <2>1, <2>2, <1>k, <1>i, <1>n, <1>d DEF Budget
  <1>1. CASE Start
    <2>1. Debt' = 0 /\ UNCHANGED <<copies, ambiguous, restarts, evictions>>
      BY <1>1 DEF Start, Debt, outside, counters
    <2>2. CASE pc = "stopped"
      <3>1. Debt = 1
        BY <2>2 DEF PaidInv, Debt
      <3> QED BY <3>1, <2>1, <1>i, <1>n, <1>d DEF Budget
    <2>3. CASE pc # "stopped"
      <3>1. Credit(f) = 0
        BY <2>3, <1>1, <1>o DEF Start, Owned
      <3> QED BY <3>1, <2>1, <1>i, <1>n, <1>d DEF Budget
    <2> QED BY <2>2, <2>3
  <1>2. CASE FetchAll \/ EndCycle \/ Wake
    <2>1. Owned(f) => Owned(f)'
      BY <1>2 DEF FetchAll, EndCycle, Wake, Owned, Running, Cached
    <2> QED BY <1>2, <2>1, <1>k DEF FetchAll, EndCycle, Wake, outside, counters
  <1>3. CASE Shutdown
    <2>1. Owned(f) <=> Owned(f)'
      BY <1>3 DEF Shutdown, Owned, Running, Cached
    <2>2. Credit(f)' = Credit(f) /\ Debt = 0 /\ Debt' = 1
      BY <1>3, <2>1 DEF Shutdown, Credit, Debt
    <2>3. UNCHANGED <<copies, ambiguous, evictions>> /\ restarts' = restarts + 1
      BY <1>3 DEF Shutdown, outside
    <2> QED BY <2>2, <2>3, <1>i, <1>n, <1>d DEF Budget
  <1>4. CASE Crash
    <2>1. UNCHANGED <<copies, ambiguous, evictions, stopping>> /\ restarts' = restarts + 1
      BY <1>4 DEF Crash, outside
    <2>2. Debt' = Debt
      BY <2>1 DEF Debt
    <2> QED BY <2>1, <2>2, <1>i, <1>n, <1>d DEF Budget
  <1>5. CASE RedisFails \/ RedisRecovers \/ UNCHANGED vars
    <2>1. Owned(f) => Owned(f)'
      BY <1>5 DEF RedisFails, RedisRecovers, vars, process, Owned, Running, Cached
    <2> QED BY <1>5, <2>1, <1>k DEF RedisFails, RedisRecovers, vars, process, outside, counters
  <1>6. ASSUME NEW e \in Event,
               SkipDuplicate(e) \/ Admit(e) \/ Reject(e) \/ Appear(e) \/ LeaveWindow(e) \/ LoseKey(e)
        PROVE  copies'[f] + Debt' <= Budget(f)' + Credit(f)'
    <2>1. Owned(f) => Owned(f)'
      BY <1>6 DEF SkipDuplicate, Admit, Reject, Appear, LeaveWindow, LoseKey, process, Owned, Running, Cached
    <2> QED BY <1>6, <2>1, <1>k
        DEF SkipDuplicate, Admit, Reject, Appear, LeaveWindow, LoseKey, process, outside, counters
  <1>7. ASSUME NEW e \in Event, ProduceAcked(e)
        PROVE  copies'[f] + Debt' <= Budget(f)' + Credit(f)'
    <2>1. UNCHANGED <<ambiguous, restarts, evictions, stopping>>
      BY <1>7 DEF ProduceAcked, counters
    <2>2. Debt' = Debt
      BY <2>1 DEF Debt
    <2>3. CASE f = e
      <3>1. ~Owned(f) /\ Owned(f)'
        BY <1>7, <2>3 DEF ProduceAcked, PaidInv, Owned, Running, Cached
      <3>2. copies'[f] = copies[f] + 1
        BY <1>7, <2>3, <1>t DEF ProduceAcked, TypeOK
      <3> QED BY <3>1, <3>2, <2>1, <2>2, <1>i, <1>n, <1>d, <1>o, <1>c2 DEF Budget
    <2>4. CASE f # e
      <3>1. Owned(f) => Owned(f)'
        BY <1>7 DEF ProduceAcked, Owned, Running, Cached
      <3>2. copies'[f] = copies[f]
        BY <1>7, <2>4, <1>t DEF ProduceAcked, TypeOK
      <3> QED BY <3>1, <3>2, <2>1, <2>2, <1>i, <1>n, <1>d, <1>o, <1>c2 DEF Budget
    <2> QED BY <2>3, <2>4
  <1>8. ASSUME NEW e \in Event, ProduceFailed(e)
        PROVE  copies'[f] + Debt' <= Budget(f)' + Credit(f)'
    <2>1. UNCHANGED <<restarts, evictions, stopping>>
      BY <1>8 DEF ProduceFailed
    <2>2. Debt' = Debt
      BY <2>1 DEF Debt
    <2>3. PICK stored \in {0, 1} : /\ copies' = [copies EXCEPT ![e] = @ + stored]
                                   /\ ambiguous' = [ambiguous EXCEPT ![e] = @ + stored]
      BY <1>8 DEF ProduceFailed
    <2>4. copies'[f] - copies[f] = ambiguous'[f] - ambiguous[f]
      BY <2>3, <1>t, <1>n DEF TypeOK
    <2>5. Owned(f) => Owned(f)'
      BY <1>8 DEF ProduceFailed, Owned, Running, Cached
    <2> QED BY <2>1, <2>2, <2>4, <2>5, <1>i, <1>n, <1>d, <1>o, <1>c2 DEF Budget
  <1>9. ASSUME NEW e \in Event, MarkSeen(e)
        PROVE  copies'[f] + Debt' <= Budget(f)' + Credit(f)'
    <2>1. UNCHANGED <<copies, ambiguous, restarts, stopping>> /\ pc' = "process" /\ current = {e} /\ pc = "mark"
      BY <1>9 DEF MarkSeen
    <2>2. Debt' = Debt
      BY <2>1 DEF Debt
    <2>3. CASE evictions' = evictions
      <3>1. Cached \subseteq Cached' /\ e \in Cached'
        BY <1>9, <2>3, <1>t, MarkedLru
      <3>2. Owned(f) => Owned(f)'
        BY <2>1, <3>1 DEF Owned, Running
      <3> QED BY <3>2, <2>1, <2>3, <1>k
    <2>4. CASE evictions' = evictions + 1
      BY <2>4, <2>1, <2>2, <1>i, <1>n, <1>d DEF Budget
    <2> QED BY <2>3, <2>4, <1>9 DEF MarkSeen
  <1> QED
    BY Steps, <1>1, <1>2, <1>3, <1>4, <1>5, <1>6, <1>7, <1>8, <1>9

(* Without a stored failure, a restart or an LRU overflow there is at most *)
(* one copy of an event on earthquakes.raw, whatever Redis does.           *)
THEOREM DuplicatesArePaidForCorrect == Spec => []DuplicatesArePaidFor
  <1>1. Init => PaidInv
    <2> SUFFICES ASSUME Init PROVE PaidInv
      OBVIOUS
    <2>1. \A e \in Event : copies[e] + Debt <= Budget(e) + Credit(e)
      BY DEF Init, Debt, Budget, Credit
    <2>2. pc = "down"
      BY DEF Init
    <2> QED BY <2>1, <2>2, InitType DEF PaidInv
  <1>2. PaidInv /\ [Next]_vars => PaidInv'
    <2> SUFFICES ASSUME PaidInv, [Next]_vars PROVE PaidInv'
      OBVIOUS
    <2>1. \A e \in Event : copies'[e] + Debt' <= Budget(e)' + Credit(e)'
      BY PaidAccount
    <2>2. TypeOK'
      BY TypeStep DEF PaidInv
    <2> QED BY <2>1, <2>2, PaidControl DEF PaidInv
  <1>3. PaidInv => DuplicatesArePaidFor
    <2> SUFFICES ASSUME PaidInv, NEW e \in Event
                 PROVE  copies[e] <= 1 + ambiguous[e] + restarts + evictions
      BY DEF DuplicatesArePaidFor
    <2>1. copies[e] + Debt <= Budget(e) + Credit(e) /\ Debt \in {0, 1} /\ Credit(e) \in {0, 1}
      BY DEF PaidInv, Debt, Credit
    <2>2. copies[e] \in Nat /\ ambiguous[e] \in Nat /\ restarts \in Nat /\ evictions \in Nat
      BY DEF PaidInv, TypeOK
    <2> QED BY <2>1, <2>2 DEF Budget
  <1> QED BY <1>1, <1>2, <1>3, PTL DEF Spec
-----------------------------------------------------------------------------

(* Why Redis deduplicates while it works.  An event is Known while Redis   *)
(* holds its key or its mark is the next step; only a known event may have *)
(* used up its budget, and only a crash before the mark ends the           *)
(* knowledge, which unmarked counts.                                       *)
Known(e) == e \in redis \/ (pc = "mark" /\ e \in current)

KnownCredit(e) == IF Known(e) THEN 1 ELSE 0

(* No Redis fault: it is up, the process is connected to it, and an event  *)
(* under way was not in it.                                                *)
Healthy ==
    /\ redisUp
    /\ Running => conn
    /\ pc = "produce" => current \cap redis = {}

Accounted(e) == copies[e] <= ambiguous[e] + unmarked[e] + KnownCredit(e)

HealthyInv ==
    /\ TypeOK
    /\ redisFaults = 0 => Healthy /\ \A e \in Event : Accounted(e)

(* Redis faults are never forgotten.                                       *)
LEMMA FaultsStay ==
    ASSUME TypeOK, [Next]_vars, redisFaults' = 0
    PROVE  redisFaults = 0
  <1>1. redisFaults \in Nat
    BY DEF TypeOK
  <1>2. CASE RedisFails \/ \E e \in Event : LoseKey(e)
    BY <1>1, <1>2 DEF RedisFails, LoseKey
  <1>3. CASE Start \/ FetchAll \/ EndCycle \/ Wake \/ Shutdown \/ Crash \/ RedisRecovers \/ UNCHANGED vars
    BY <1>3 DEF Start, FetchAll, EndCycle, Wake, Shutdown, Crash, RedisRecovers, vars, counters
  <1>4. ASSUME NEW e \in Event,
               SkipDuplicate(e) \/ Admit(e) \/ ProduceAcked(e) \/ Appear(e) \/ LeaveWindow(e)
        PROVE  redisFaults = 0
    BY <1>4 DEF SkipDuplicate, Admit, ProduceAcked, Appear, LeaveWindow, counters
  <1>5. ASSUME NEW e \in Event, ProduceFailed(e) \/ MarkSeen(e) \/ Reject(e) PROVE redisFaults = 0
    BY <1>5 DEF ProduceFailed, MarkSeen, Reject
  <1> QED BY Steps, <1>2, <1>3, <1>4, <1>5

(* Both failures of Redis are counted.                                     *)
LEMMA NoFault ==
    ASSUME TypeOK, redisFaults' = 0
    PROVE  ~RedisFails /\ \A e \in Event : ~LoseKey(e)
  <1>n. redisFaults \in Nat
    BY DEF TypeOK
  <1>1. ~RedisFails
    BY <1>n DEF RedisFails
  <1>2. ASSUME NEW e \in Event PROVE ~LoseKey(e)
    BY <1>n DEF LoseKey
  <1> QED BY <1>1, <1>2

(* Without a fault Redis stays up, connected and asked.                    *)
LEMMA HealthyStep ==
    ASSUME TypeOK, Healthy, [Next]_vars, redisFaults' = 0
    PROVE  Healthy'
  <1> USE DEF Healthy, Running
  <1>f. ~RedisFails /\ \A e \in Event : ~LoseKey(e)
    BY NoFault
  <1>1. CASE Start
    BY <1>1, Zenon DEF Start, outside
  <1>2. CASE FetchAll \/ EndCycle \/ Wake \/ Crash
    BY <1>2, Zenon DEF FetchAll, EndCycle, Wake, Crash, outside
  <1>3. CASE Shutdown \/ RedisRecovers \/ UNCHANGED vars
    BY <1>3, Zenon DEF Shutdown, RedisRecovers, vars, process, outside
  <1>4. ASSUME NEW e \in Event, SkipDuplicate(e) \/ Appear(e) \/ LeaveWindow(e) PROVE Healthy'
    BY <1>4, Zenon DEF SkipDuplicate, Appear, LeaveWindow, process, outside
  <1>5. ASSUME NEW e \in Event, Admit(e) PROVE Healthy'
    <2>1. redisUp' /\ conn'
      BY <1>5, Zenon DEF Admit, outside
    <2>2. e \notin redis
      BY <1>5, Zenon DEF Admit, IsDuplicate
    <2>3. current' \cap redis' = {}
      BY <1>5, <2>2 DEF Admit, outside
    <2> QED BY <2>1, <2>3
  <1>6. ASSUME NEW e \in Event, ProduceAcked(e) \/ Reject(e) PROVE Healthy'
    BY <1>6, Zenon DEF ProduceAcked, Reject
  <1>7. ASSUME NEW e \in Event, ProduceFailed(e) PROVE Healthy'
    BY <1>7, Zenon DEF ProduceFailed
  <1>8. ASSUME NEW e \in Event, MarkSeen(e) PROVE Healthy'
    BY <1>8, Zenon DEF MarkSeen
  <1> QED BY Steps, <1>f, <1>1, <1>2, <1>3, <1>4, <1>5, <1>6, <1>7, <1>8

(* The accounting of one event f.                                          *)
LEMMA AccountStep ==
    ASSUME TypeOK, Healthy, [Next]_vars, redisFaults' = 0, NEW f \in Event, Accounted(f)
    PROVE  Accounted(f)'
  <1>t. TypeOK /\ TypeOK'
    BY TypeStep
  <1>n. /\ copies[f] \in Nat /\ ambiguous[f] \in Nat /\ unmarked[f] \in Nat /\ redisFaults \in Nat
        /\ copies'[f] \in Nat /\ ambiguous'[f] \in Nat /\ unmarked'[f] \in Nat
    BY <1>t DEF TypeOK
  <1>f. ~RedisFails /\ \A e \in Event : ~LoseKey(e)
    BY NoFault
  <1>d. KnownCredit(f) \in {0, 1} /\ KnownCredit(f)' \in {0, 1}
    BY DEF KnownCredit
  <1>c. Known(f)' => KnownCredit(f)' = 1
    BY DEF KnownCredit
  <1>o. ~Known(f) => KnownCredit(f) = 0
    BY DEF KnownCredit
  <1>k. ASSUME UNCHANGED <<copies, ambiguous, unmarked>>, Known(f) => Known(f)'
        PROVE  Accounted(f)'
    <2>1. KnownCredit(f) <= KnownCredit(f)'
      BY <1>k, <1>d, <1>c, <1>o
    <2> QED BY <2>1, <1>k, <1>n, <1>d DEF Accounted
  <1>1. CASE Start \/ FetchAll \/ EndCycle \/ Wake \/ Shutdown \/ RedisRecovers \/ UNCHANGED vars
    BY <1>1, <1>k
    DEF Start, FetchAll, EndCycle, Wake, Shutdown, RedisRecovers, vars, process, outside, counters,
        Known, Running
  <1>2. CASE Crash
    <2>1. UNCHANGED <<copies, ambiguous, redis>>
      BY <1>2 DEF Crash, outside
    <2>2. CASE pc = "mark" /\ f \in current
      <3>1. unmarked'[f] = unmarked[f] + 1
        BY <1>2, <2>2 DEF Crash
      <3> QED BY <3>1, <2>1, <1>n, <1>d DEF Accounted
    <2>3. CASE ~(pc = "mark" /\ f \in current)
      <3>1. unmarked'[f] = unmarked[f]
        BY <1>2, <2>3, <1>n DEF Crash
      <3>2. Known(f) => Known(f)'
        BY <2>1, <2>3 DEF Known
      <3> QED BY <3>1, <3>2, <2>1, <1>n, <1>d, <1>c, <1>o DEF Accounted
    <2> QED BY <2>2, <2>3
  <1>3. ASSUME NEW e \in Event, SkipDuplicate(e) \/ Admit(e) \/ Reject(e) \/ Appear(e) \/ LeaveWindow(e)
        PROVE  Accounted(f)'
    BY <1>3, <1>k
    DEF SkipDuplicate, Admit, Reject, Appear, LeaveWindow, process, outside, counters, Known
  <1>4. ASSUME NEW e \in Event, ProduceAcked(e) PROVE Accounted(f)'
    <2>1. UNCHANGED <<ambiguous, unmarked, redis, current>>
      BY <1>4 DEF ProduceAcked, counters
    <2>2. CASE f = e
      <3>1. ~Known(f) /\ Known(f)'
        BY <1>4, <2>2 DEF ProduceAcked, Known, Healthy
      <3>2. copies'[f] = copies[f] + 1
        BY <1>4, <2>2, <1>t DEF ProduceAcked, TypeOK
      <3> QED BY <3>1, <3>2, <2>1, <1>n, <1>d, <1>c, <1>o DEF Accounted
    <2>3. CASE f # e
      <3>1. Known(f) => Known(f)'
        BY <1>4 DEF ProduceAcked, Known
      <3>2. copies'[f] = copies[f]
        BY <1>4, <2>3, <1>t DEF ProduceAcked, TypeOK
      <3> QED BY <3>1, <3>2, <2>1, <1>n, <1>d, <1>c, <1>o DEF Accounted
    <2> QED BY <2>2, <2>3
  <1>5. ASSUME NEW e \in Event, ProduceFailed(e) PROVE Accounted(f)'
    <2>1. PICK stored \in {0, 1} : /\ copies' = [copies EXCEPT ![e] = @ + stored]
                                   /\ ambiguous' = [ambiguous EXCEPT ![e] = @ + stored]
      BY <1>5 DEF ProduceFailed
    <2>2. copies'[f] - copies[f] = ambiguous'[f] - ambiguous[f]
      BY <2>1, <1>t, <1>n DEF TypeOK
    <2>3. unmarked' = unmarked /\ (Known(f) => Known(f)')
      BY <1>5 DEF ProduceFailed, Known
    <2> QED BY <2>2, <2>3, <1>n, <1>d, <1>c, <1>o DEF Accounted
  <1>6. ASSUME NEW e \in Event, MarkSeen(e) PROVE Accounted(f)'
    <2>1. UNCHANGED <<copies, ambiguous, unmarked>> /\ current = {e}
      BY <1>6 DEF MarkSeen
    <2>2. conn /\ redisUp
      BY <1>6, Zenon DEF MarkSeen, Healthy, Running
    <2>3. redis' = redis \cup {e}
      BY <1>6, <2>2 DEF MarkSeen
    <2>4. Known(f) => Known(f)'
      BY <2>1, <2>3 DEF Known
    <2> QED BY <2>1, <2>4, <1>k
  <1> QED BY Steps, <1>f, <1>1, <1>2, <1>3, <1>4, <1>5, <1>6

(* While Redis works, a second copy of an event is a stored failure or a   *)
(* crash between the acknowledgement and the mark, whatever restarts and   *)
(* the size of the LRU.                                                    *)
THEOREM HealthyRedisDeduplicatesCorrect == Spec => []HealthyRedisDeduplicates
  <1>1. Init => HealthyInv
    <2> SUFFICES ASSUME Init PROVE HealthyInv
      OBVIOUS
    <2>1. redisFaults = 0 => redisUp
      BY DEF Init
    <2>2. pc = "down"
      BY DEF Init
    <2>3. \A e \in Event : Accounted(e)
      BY DEF Init, Accounted, KnownCredit, Known
    <2> QED BY <2>1, <2>2, <2>3, InitType DEF HealthyInv, Healthy, Running
  <1>2. HealthyInv /\ [Next]_vars => HealthyInv'
    <2> SUFFICES ASSUME HealthyInv, [Next]_vars PROVE HealthyInv'
      OBVIOUS
    <2>1. TypeOK /\ TypeOK'
      BY TypeStep DEF HealthyInv
    <2>2. ASSUME redisFaults' = 0 PROVE Healthy' /\ \A e \in Event : Accounted(e)'
      <3>1. Healthy /\ \A e \in Event : Accounted(e)
        BY <2>1, <2>2, FaultsStay DEF HealthyInv
      <3>2. Healthy'
        BY <3>1, <2>1, <2>2, HealthyStep
      <3>3. ASSUME NEW e \in Event PROVE Accounted(e)'
        BY <3>1, <2>1, <2>2, AccountStep
      <3> QED BY <3>2, <3>3
    <2> QED BY <2>1, <2>2 DEF HealthyInv
  <1>3. HealthyInv => HealthyRedisDeduplicates
    <2> SUFFICES ASSUME HealthyInv, redisFaults = 0, NEW e \in Event
                 PROVE  copies[e] <= 1 + ambiguous[e] + unmarked[e]
      BY DEF HealthyRedisDeduplicates
    <2>1. Accounted(e) /\ KnownCredit(e) \in {0, 1}
      BY DEF HealthyInv, KnownCredit
    <2>2. copies[e] \in Nat /\ ambiguous[e] \in Nat /\ unmarked[e] \in Nat
      BY DEF HealthyInv, TypeOK
    <2> QED BY <2>1, <2>2 DEF Accounted
  <1> QED BY <1>1, <1>2, <1>3, PTL DEF Spec
=============================================================================
