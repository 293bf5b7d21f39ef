--------------------------- MODULE AnalysisProofs ---------------------------
(***************************************************************************)
(* What holds of the analysis consumer for all partitions, messages and    *)
(* bounds: a message in hand is the one after the committed offset, so     *)
(* nothing published or written is ahead of it, and what is committed is   *)
(* settled.  Then, what holds of the enrichment itself: the alert of a     *)
(* stronger report is no lower, for all magnitudes, depths and thresholds  *)
(* outside the gap.                                                        *)
(***************************************************************************)
EXTENDS MCAnalysisConsumer, TLAPS

(* The whole next-state relation, unfolded.                                *)
LEMMA Steps ==
    ASSUME [Next]_vars
    PROVE  \/ Start \/ Stop \/ Signal \/ Crash
           \/ \E p \in Partition : Poll(p)
           \/ \E p \in Partition : \E o \in Offsets(p) : Decode(p, o) \/ Lookup(p, o)
           \/ \E p \in Partition : \E o \in Offsets(p) : Produce(p, o)
           \/ \E p \in Partition : \E o \in Offsets(p) : ProduceUnanswered(p, o)
           \/ \E p \in Partition : \E o \in Offsets(p) : ProduceFails(p, o)
           \/ \E p \in Partition : \E o \in Offsets(p) : Alert(p, o)
           \/ \E p \in Partition : \E o \in Offsets(p) : Upsert(p, o)
           \/ \E p \in Partition : \E o \in Offsets(p) : Shakemap(p, o)
           \/ \E p \in Partition : \E o \in Offsets(p) : CacheSet(p, o)
           \/ \E p \in Partition : \E o \in Offsets(p) : DeadLetter(p, o)
           \/ \E p \in Partition : \E o \in Offsets(p) : Commit(p, o)
           \/ \E p \in Partition : \E o \in Offsets(p) : CommitFails(p, o)
           \/ \E m \in Message : Publish(m)
           \/ \E p \in Partition : \E o \in Offsets(p) : StorageInserts(p, o)
           \/ UNCHANGED vars
  BY DEF Next, Consumer, ProcessMessage, Environment

(* What the steps between a poll and its commit have in common.            *)
Busy == {"decode", "lookup", "produce", "alert", "upsert", "shakemap", "cache", "deadletter"}

Works(p, o) ==
    /\ InHand(p, o) /\ pc \in Busy /\ pc' \in Busy \cup {"commit"}
    /\ UNCHANGED <<log, committed, position, cur, stopping, restarts>>

Stage(p, o) ==
    \/ Decode(p, o) \/ Lookup(p, o) \/ Produce(p, o) \/ ProduceUnanswered(p, o)
    \/ ProduceFails(p, o) \/ Alert(p, o) \/ Upsert(p, o) \/ Shakemap(p, o)
    \/ CacheSet(p, o) \/ DeadLetter(p, o)

LEMMA WorkSteps ==
    ASSUME NEW p, NEW o, Stage(p, o)
    PROVE  Works(p, o)
  <1> USE DEF Works, Busy, Goto, DeadLetterWith, InHand
  <1>1. CASE Decode(p, o) \/ Lookup(p, o)
    BY <1>1 DEF Decode, Lookup
  <1>2. CASE Produce(p, o) \/ ProduceUnanswered(p, o) \/ ProduceFails(p, o)
    BY <1>2 DEF Produce, ProduceUnanswered, ProduceFails
  <1>3. CASE Alert(p, o) \/ Upsert(p, o)
    BY <1>3 DEF Alert, Upsert
  <1>4. CASE Shakemap(p, o) \/ CacheSet(p, o) \/ DeadLetter(p, o)
    BY <1>4 DEF Shakemap, CacheSet, DeadLetter
  <1> QED BY <1>1, <1>2, <1>3, <1>4 DEF Stage

LEMMA LoopSteps ==
    ASSUME [Next]_vars
    PROVE  \/ Start \/ Stop \/ Signal \/ Crash
           \/ \E p \in Partition : Poll(p)
           \/ \E p \in Partition : \E o \in Offsets(p) : Works(p, o)
           \/ \E p \in Partition : \E o \in Offsets(p) : Commit(p, o)
           \/ \E p \in Partition : \E o \in Offsets(p) : CommitFails(p, o)
           \/ \E m \in Message : Publish(m)
           \/ UNCHANGED <<log, committed, position, pc, cur, stopping, restarts>>
  <1>1. \A p, o : Stage(p, o) => Works(p, o)
    BY WorkSteps
  <1> QED BY Steps, <1>1, Zenon DEF Stage, StorageInserts, vars, process

LEMMA ProducedIs ==
    ASSUME NEW p, NEW o
    PROVE  <<p, o>> \in Produced <=> p \in Partition /\ o \in Offsets(p)
  BY DEF Produced

(* The log only grows, and keeps its messages, each in its partition.      *)
LogOK == \A p \in Partition : \A o \in Offsets(p) : PartitionOf[At(p, o).id] = p

LEMMA LogStep ==
    ASSUME log \in [Partition -> Seq(Message)], LogOK, [Next]_vars
    PROVE  /\ log' \in [Partition -> Seq(Message)]
           /\ \A p \in Partition : Len(log[p]) <= Len(log'[p])
           /\ \A p \in Partition : \A o \in Offsets(p) : o \in Offsets(p)' /\ At(p, o)' = At(p, o)
           /\ Produced \subseteq Produced'
           /\ LogOK'
  <1>1. CASE log' = log
    BY <1>1 DEF Offsets, At, Produced, LogOK
  <1>2. ASSUME NEW m \in Message, Publish(m)
        PROVE  /\ log' \in [Partition -> Seq(Message)]
               /\ \A p \in Partition : Len(log[p]) <= Len(log'[p])
               /\ \A p \in Partition : \A o \in Offsets(p) : o \in Offsets(p)' /\ At(p, o)' = At(p, o)
               /\ LogOK'
    <2> DEFINE q == PartitionOf[m.id]
    <2>1. q \in Partition
      BY AnalysisAssumption DEF AnalysisAssumption
    <2>2. log' = [log EXCEPT ![q] = Append(@, m)]
      BY <1>2, Zenon DEF Publish
    <2>3. log[q] \in Seq(Message)
      BY <2>1
    <2>4. /\ Append(log[q], m) \in Seq(Message)
          /\ Len(Append(log[q], m)) = Len(log[q]) + 1
          /\ \A i \in 1..Len(log[q]) : Append(log[q], m)[i] = log[q][i]
          /\ Append(log[q], m)[Len(log[q]) + 1] = m
      BY <2>3
    <2>5. \A p \in Partition : log'[p] = IF p = q THEN Append(log[q], m) ELSE log[p]
      BY <2>2
    <2>6. log' \in [Partition -> Seq(Message)]
      BY <2>2, <2>4
    <2>q. q = PartitionOf[m.id]
      OBVIOUS
    <2> HIDE DEF q
    <2> SUFFICES ASSUME NEW p \in Partition
                 PROVE  /\ Len(log[p]) <= Len(log'[p])
                        /\ \A o \in Offsets(p) : o \in Offsets(p)' /\ At(p, o)' = At(p, o)
                        /\ \A o \in Offsets(p)' : PartitionOf[At(p, o)'.id] = p
      BY <2>6 DEF LogOK
    <2>7. Len(log[p]) \in Nat
      OBVIOUS
    <2>8. CASE p = q
      <3>1. log'[p] = Append(log[p], m)
        BY <2>8, <2>5, <2>1
      <3>2. Len(log'[p]) = Len(log[p]) + 1
        BY <3>1, <2>4, <2>8
      <3>3. ASSUME NEW o \in Offsets(p) PROVE o \in Offsets(p)' /\ At(p, o)' = At(p, o)
        <4>1. o + 1 \in 1..Len(log[p]) /\ o \in 0..(Len(log[p]) + 1 - 1)
          BY <3>3, <2>7 DEF Offsets
        <4>2. log'[p][o + 1] = log[p][o + 1]
          BY <4>1, <3>1, <2>4, <2>8
        <4> QED BY <4>1, <4>2, <3>2 DEF Offsets, At
      <3>4. ASSUME NEW o \in Offsets(p)' PROVE PartitionOf[At(p, o)'.id] = p
        <4>1. o \in Offsets(p) \/ o = Len(log[p])
          BY <3>2, <2>7 DEF Offsets
        <4>2. o = Len(log[p]) => At(p, o)' = m
          BY <3>1, <2>4, <2>8 DEF At
        <4> QED BY <4>1, <4>2, <3>3, <2>8, <2>q DEF LogOK
      <3> QED BY <3>2, <3>3, <3>4, <2>7
    <2>9. CASE p # q
      BY <2>9, <2>7, <2>5 DEF Offsets, At, LogOK
    <2> QED BY <2>8, <2>9
  <1>3. \/ log' = log
        \/ \E m \in Message : Publish(m)
    BY LoopSteps DEF Start, Stop, Signal, Crash, Poll, Works, Commit, CommitFails
  <1>4. /\ log' \in [Partition -> Seq(Message)]
        /\ \A p \in Partition : Len(log[p]) <= Len(log'[p])
        /\ \A p \in Partition : \A o \in Offsets(p) : o \in Offsets(p)' /\ At(p, o)' = At(p, o)
        /\ LogOK'
    BY <1>1, <1>2, <1>3
  <1> QED BY <1>4 DEF Produced

(* The message in hand is the one after the committed offset, and every    *)
(* other partition is committed up to its position.                        *)
HandOK ==
    /\ \A p \in Partition : \A o \in Offsets(p) : InHand(p, o) => committed[p] = o /\ position[p] = o + 1
    /\ Running => \A p \in Partition :
                    position[p] = committed[p] \/ \E o \in Offsets(p) : InHand(p, o)

LoopInv == TypeOK /\ LogOK /\ HandOK

LEMMA Messages ==
    ASSUME LoopInv, NEW p \in Partition, NEW o \in Offsets(p)
    PROVE  /\ At(p, o) \in Message /\ At(p, o).id \in Id /\ PartitionOf[At(p, o).id] = p
           /\ o \in Nat /\ o + 1 <= Len(log[p]) /\ Len(log[p]) \in Nat
  <1>1. log[p] \in Seq(Message)
    BY DEF LoopInv, TypeOK
  <1>2. Len(log[p]) \in Nat
    BY <1>1
  <1>3. o \in Nat /\ o + 1 \in 1..Len(log[p])
    BY <1>2 DEF Offsets
  <1>4. At(p, o) \in Message
    BY <1>1, <1>3 DEF At
  <1> QED BY <1>2, <1>3, <1>4, AnalysisAssumption DEF LoopInv, LogOK

LEMMA LogGrows ==
    ASSUME LoopInv, [Next]_vars
    PROVE  /\ log' \in [Partition -> Seq(Message)]
           /\ \A p \in Partition : Len(log[p]) <= Len(log'[p]) /\ Len(log[p]) \in Nat /\ Len(log'[p]) \in Nat
           /\ \A p \in Partition : \A o \in Offsets(p) : o \in Offsets(p)' /\ At(p, o)' = At(p, o)
           /\ Produced \subseteq Produced'
           /\ LogOK'
  BY LogStep DEF LoopInv, TypeOK

LEMMA OffsetsStep ==
    ASSUME LoopInv, [Next]_vars
    PROVE  /\ committed' \in [Partition -> Nat] /\ position' \in [Partition -> Nat]
           /\ \A p \in Partition : committed'[p] <= position'[p] /\ position'[p] <= Len(log'[p])
           /\ HandOK'
  <1>t. /\ committed \in [Partition -> Nat] /\ position \in [Partition -> Nat]
        /\ \A p \in Partition : committed[p] <= position[p] /\ position[p] <= Len(log[p])
        /\ \A p \in Partition : Len(log[p]) \in Nat /\ Len(log'[p]) \in Nat /\ Len(log[p]) <= Len(log'[p])
        /\ \A p \in Partition : \A o \in Offsets(p) : o \in Offsets(p)' /\ o \in Nat
        /\ cur = NoMessage <=> pc \in {"down", "stopped", "poll"}
    BY LogGrows, Messages DEF LoopInv, TypeOK
  <1>h. HandOK
    BY DEF LoopInv
  <1>n. \A p, o : <<p, o>> # NoMessage
    BY DEF NoMessage
  <1> DEFINE Goal == /\ committed' \in [Partition -> Nat] /\ position' \in [Partition -> Nat]
                     /\ \A p \in Partition : committed'[p] <= position'[p] /\ position'[p] <= Len(log'[p])
                     /\ HandOK'
  <1>1. CASE Start
    BY <1>1, <1>t, <1>n DEF Start, HandOK, InHand, Running
  <1>2. CASE Stop \/ Crash
    BY <1>2, <1>t, <1>n, <1>h DEF Stop, Crash, HandOK, InHand, Running, Goto
  <1>3. ASSUME NEW p \in Partition, Poll(p)
        PROVE  Goal
    <2>1. /\ pc = "poll" /\ cur = NoMessage /\ position[p] \in Offsets(p)
          /\ position' = [position EXCEPT ![p] = @ + 1] /\ cur' = <<p, position[p]>>
          /\ UNCHANGED <<log, committed>> /\ pc' = "decode"
      BY <1>3, <1>t DEF Poll, Offsets
    <2>2. \A q \in Partition : position[q] = committed[q]
      BY <2>1, <1>h, <1>n DEF HandOK, Running, InHand
    <2>3. HandOK'
      <3>1. ASSUME NEW q \in Partition, NEW o \in Offsets(q)', InHand(q, o)'
            PROVE  committed'[q] = o /\ position'[q] = o + 1
        <4>1. q = p /\ o = position[p]
          BY <3>1, <2>1 DEF InHand
        <4> QED BY <4>1, <2>1, <2>2, <1>t
      <3>2. ASSUME NEW q \in Partition
            PROVE  position'[q] = committed'[q] \/ \E o \in Offsets(q)' : InHand(q, o)'
        <4>1. CASE q = p
          BY <4>1, <2>1, <1>t DEF InHand
        <4>2. CASE q # p
          BY <4>2, <2>1, <2>2, <1>t
        <4> QED BY <4>1, <4>2
      <3> QED BY <3>1, <3>2 DEF HandOK
    <2>4. position[p] < Len(log[p])
      BY <2>1, <1>t DEF Offsets
    <2> QED BY <2>1, <2>2, <2>3, <2>4, <1>t
  <1>4. ASSUME NEW p \in Partition, NEW o \in Offsets(p), Works(p, o)
        PROVE  Goal
    <2>1. UNCHANGED <<log, committed, position, cur>> /\ Running
      BY <1>4 DEF Works, Busy, Running
    <2>2. HandOK'
      BY <2>1, <1>h DEF HandOK, InHand, Offsets
    <2> QED BY <2>1, <2>2, <1>t
  <1>5. ASSUME NEW p \in Partition, NEW o \in Offsets(p), Commit(p, o)
        PROVE  Goal
    <2>1. /\ InHand(p, o) /\ Running /\ cur' = NoMessage
          /\ committed' = [committed EXCEPT ![p] = o + 1] /\ UNCHANGED <<log, position>>
      BY <1>5 DEF Commit, Running
    <2>2. /\ position[p] = o + 1
          /\ \A q \in Partition : q # p => position[q] = committed[q]
      BY <2>1, <1>h DEF HandOK, InHand
    <2>3. HandOK'
      BY <2>1, <2>2, <1>t, <1>n DEF HandOK, InHand
    <2> QED BY <2>1, <2>2, <2>3, <1>t
  <1>6. ASSUME NEW p \in Partition, NEW o \in Offsets(p), CommitFails(p, o)
        PROVE  Goal
    <2>1. /\ InHand(p, o) /\ cur' = NoMessage /\ ~Running' /\ UNCHANGED <<log, position>>
          /\ committed' = committed \/ committed' = [committed EXCEPT ![p] = o + 1]
      BY <1>6 DEF CommitFails, Running
    <2>2. position[p] = o + 1
      BY <2>1, <1>h DEF HandOK
    <2>3. HandOK'
      BY <2>1, <1>n DEF HandOK, InHand
    <2> QED BY <2>1, <2>2, <2>3, <1>t
  <1>7. ASSUME UNCHANGED <<committed, position, pc, cur>>
        PROVE  Goal
    <2>1. HandOK'
      <3>1. ASSUME NEW q \in Partition, NEW o \in Offsets(q)', InHand(q, o)'
            PROVE  committed'[q] = o /\ position'[q] = o + 1
        <4>1. cur = <<q, o>> /\ cur \in Produced
          BY <3>1, <1>7, <1>n DEF InHand, LoopInv, TypeOK
        <4>2. o \in Offsets(q) /\ InHand(q, o)
          BY <4>1, ProducedIs DEF InHand
        <4> QED BY <4>2, <1>7, <1>h DEF HandOK
      <3>2. ASSUME Running', NEW q \in Partition
            PROVE  position'[q] = committed'[q] \/ \E o \in Offsets(q)' : InHand(q, o)'
        BY <3>2, <1>7, <1>h, <1>t DEF HandOK, Running, InHand
      <3> QED BY <3>1, <3>2 DEF HandOK
    <2> QED BY <2>1, <1>7, <1>t
  <1> QED
    BY LoopSteps, <1>1, <1>2, <1>3, <1>4, <1>5, <1>6, <1>7 DEF Signal, Publish, process

LEMMA CurStep ==
    ASSUME LoopInv, [Next]_vars
    PROVE  /\ pc' \in {"down", "stopped", "poll", "decode", "lookup", "produce", "alert", "upsert",
                       "shakemap", "cache", "deadletter", "commit"}
           /\ cur' \in {NoMessage} \cup Produced'
           /\ cur' = NoMessage <=> pc' \in {"down", "stopped", "poll"}
           /\ restarts' \in Nat
  <1>0. /\ pc \in {"down", "stopped", "poll", "decode", "lookup", "produce", "alert", "upsert",
                   "shakemap", "cache", "deadletter", "commit"}
        /\ cur \in {NoMessage} \cup Produced'
        /\ cur = NoMessage <=> pc \in {"down", "stopped", "poll"}
        /\ restarts \in Nat
    BY LogGrows DEF LoopInv, TypeOK
  <1>1. CASE Start
    BY <1>1, <1>0 DEF Start
  <1>2. CASE Stop \/ Crash \/ Signal
    BY <1>2, <1>0 DEF Stop, Crash, Signal, Goto
  <1>3. ASSUME NEW p \in Partition, Poll(p)
        PROVE  cur' \in Produced' /\ cur' # NoMessage /\ pc' = "decode" /\ restarts' = restarts
    <2>1. /\ position[p] \in Offsets(p) /\ cur' = <<p, position[p]>> /\ pc' = "decode"
          /\ restarts' = restarts
      BY <1>3 DEF Poll, Offsets, LoopInv, TypeOK
    <2>2. cur' \in Produced
      BY <2>1, ProducedIs
    <2> QED BY <2>1, <2>2, LogGrows DEF NoMessage
  <1>4. ASSUME NEW p \in Partition, NEW o \in Offsets(p), Works(p, o)
        PROVE  /\ pc' \in Busy \cup {"commit"} /\ cur' = cur /\ cur # NoMessage /\ restarts' = restarts
    BY <1>4 DEF Works, InHand, NoMessage
  <1>5. ASSUME NEW p \in Partition, NEW o \in Offsets(p), Commit(p, o) \/ CommitFails(p, o)
        PROVE  pc' \in {"poll", "down"} /\ cur' = NoMessage /\ restarts' = restarts
    BY <1>5 DEF Commit, CommitFails
  <1>6. ASSUME UNCHANGED <<pc, cur, restarts>>
        PROVE  /\ pc' = pc /\ cur' = cur /\ restarts' = restarts
    BY <1>6
  <1> QED BY LoopSteps, <1>0, <1>1, <1>2, <1>3, <1>4, <1>5, <1>6 DEF Busy, Publish, process

(* What a step may do to the topics.                                       *)
LEMMA TopicSteps ==
    ASSUME [Next]_vars
    PROVE  \/ UNCHANGED topics
           \/ \E p \in Partition : \E o \in Offsets(p) :
                \/ Produce(p, o) \/ ProduceUnanswered(p, o) \/ ProduceFails(p, o)
                \/ Alert(p, o) \/ DeadLetter(p, o)
  <1>1. ASSUME NEW p \in Partition, NEW o \in Offsets(p),
               Decode(p, o) \/ Lookup(p, o) \/ Upsert(p, o) \/ Shakemap(p, o) \/ CacheSet(p, o)
        PROVE  UNCHANGED topics
    BY <1>1, Zenon DEF Decode, Lookup, Upsert, Shakemap, CacheSet
  <1>2. ASSUME NEW p \in Partition, NEW o \in Offsets(p), Commit(p, o) \/ CommitFails(p, o)
        PROVE  UNCHANGED topics
    BY <1>2, Zenon DEF Commit, CommitFails
  <1>3. ASSUME Start \/ Stop \/ Signal \/ Crash PROVE UNCHANGED topics
    BY <1>3, Zenon DEF Start, Stop, Signal, Crash
  <1>4. ASSUME NEW p \in Partition, Poll(p) PROVE UNCHANGED topics
    BY <1>4, Zenon DEF Poll
  <1>5. ASSUME NEW m \in Message, Publish(m) PROVE UNCHANGED topics
    BY <1>5, Zenon DEF Publish
  <1>6. ASSUME NEW p \in Partition, NEW o \in Offsets(p), StorageInserts(p, o) PROVE UNCHANGED topics
    BY <1>6, Zenon DEF StorageInserts
  <1>7. ASSUME UNCHANGED vars PROVE UNCHANGED topics
    BY <1>7, Zenon DEF vars
  <1> QED BY Steps, <1>1, <1>2, <1>3, <1>4, <1>5, <1>6, <1>7

(* earthquakes.enriched is appended to, with the message in hand.          *)
LEMMA EnrichedGrows ==
    ASSUME TypeOK, NEW p \in Partition, NEW o \in Nat, OnEnriched(p, o)
    PROVE  /\ enriched' \in [Partition -> Seq(Nat)]
           /\ \A q \in Partition : q # p => enriched'[q] = enriched[q]
           /\ Len(enriched[p]) \in Nat
           /\ DOMAIN enriched[p] = 1..Len(enriched[p])
           /\ DOMAIN enriched'[p] = 1..(Len(enriched[p]) + 1)
           /\ \A k \in DOMAIN enriched[p] : enriched'[p][k] = enriched[p][k] /\ enriched[p][k] \in Nat
           /\ enriched'[p][Len(enriched[p]) + 1] = o
           /\ OnTopic(p, o)'
           /\ \A q \in Partition : \A r : OnTopic(q, r) => OnTopic(q, r)'
  <1>1. enriched \in [Partition -> Seq(Nat)] /\ enriched[p] \in Seq(Nat)
    BY DEF TypeOK
  <1>2. enriched' = [enriched EXCEPT ![p] = Append(@, o)]
    BY Zenon DEF OnEnriched
  <1>3. enriched'[p] = Append(enriched[p], o) /\ enriched' \in [Partition -> Seq(Nat)]
    BY <1>1, <1>2
  <1>4. /\ Len(enriched[p]) \in Nat
        /\ DOMAIN enriched[p] = 1..Len(enriched[p])
        /\ DOMAIN enriched'[p] = 1..(Len(enriched[p]) + 1)
        /\ \A k \in DOMAIN enriched[p] : enriched'[p][k] = enriched[p][k] /\ enriched[p][k] \in Nat
        /\ enriched'[p][Len(enriched[p]) + 1] = o
    BY <1>1, <1>3
  <1>5. \A q \in Partition : q # p => enriched'[q] = enriched[q]
    BY <1>1, <1>2
  <1>6. OnTopic(p, o)'
    BY <1>4 DEF OnTopic
  <1>7. ASSUME NEW q \in Partition, NEW r, OnTopic(q, r) PROVE OnTopic(q, r)'
    <2>1. PICK k \in DOMAIN enriched[q] : enriched[q][k] = r
      BY <1>7 DEF OnTopic
    <2>2. CASE q = p
      <3>1. k \in DOMAIN enriched'[q] /\ enriched'[q][k] = r
        BY <2>1, <2>2, <1>4
      <3> QED BY <3>1 DEF OnTopic
    <2>3. CASE q # p
      BY <2>1, <2>3, <1>5 DEF OnTopic
    <2> QED BY <2>2, <2>3
  <1> QED BY <1>3, <1>4, <1>5, <1>6, <1>7

\* What the topics hold stays there.
Keeps ==
    /\ \A q \in Partition : \A r : OnTopic(q, r) => OnTopic(q, r)'
    /\ alerts \subseteq alerts' /\ dlq \subseteq dlq'
    /\ unanswered \subseteq unanswered' /\ lostLetters \subseteq lostLetters'

LEMMA TopicsStep ==
    ASSUME LoopInv, [Next]_vars
    PROVE  /\ enriched' \in [Partition -> Seq(Nat)]
           /\ {alerts', unanswered', lostLetters'} \subseteq SUBSET Produced'
           /\ dlq' \subseteq Produced' \X Reason
           /\ reason' \in Reason
           /\ faults' \in Nat
           /\ Keeps
  <1>0. /\ TypeOK
        /\ enriched \in [Partition -> Seq(Nat)]
        /\ alerts \subseteq Produced' /\ unanswered \subseteq Produced' /\ lostLetters \subseteq Produced'
        /\ dlq \subseteq Produced' \X Reason
        /\ reason \in Reason /\ faults \in Nat
    BY LogGrows DEF LoopInv, TypeOK
  <1>r. reason' \in Reason
    <2>1. ASSUME NEW p \in Partition, NEW o \in Offsets(p), Decode(p, o) \/ Lookup(p, o)
          PROVE  reason' \in Reason
      BY <2>1, <1>0 DEF Decode, Lookup, Goto, DeadLetterWith, Reason
    <2>2. ASSUME NEW p \in Partition, NEW o \in Offsets(p), ProduceFails(p, o) \/ Shakemap(p, o)
          PROVE  reason' \in Reason
      BY <2>2, <1>0 DEF ProduceFails, Shakemap, Goto, DeadLetterWith, Reason
    <2>3. ASSUME NEW p \in Partition, NEW o \in Offsets(p),
                 \/ Produce(p, o) \/ ProduceUnanswered(p, o) \/ Alert(p, o) \/ Upsert(p, o)
                 \/ CacheSet(p, o) \/ DeadLetter(p, o) \/ Commit(p, o) \/ CommitFails(p, o)
                 \/ StorageInserts(p, o)
          PROVE  reason' = reason
      BY <2>3 DEF Produce, ProduceUnanswered, Alert, Upsert, CacheSet, DeadLetter, Commit, CommitFails,
                  StorageInserts, Goto, process
    <2>4. ASSUME Start \/ Stop \/ Signal \/ Crash \/ UNCHANGED vars
          PROVE  reason' = reason
      BY <2>4 DEF Start, Stop, Signal, Crash, Goto, vars, process
    <2>5. ASSUME NEW p \in Partition, Poll(p) PROVE reason' = reason
      BY <2>5 DEF Poll
    <2>6. ASSUME NEW m \in Message, Publish(m) PROVE reason' = reason
      BY <2>6 DEF Publish, process
    <2> QED BY Steps, <1>0, <2>1, <2>2, <2>3, <2>4, <2>5, <2>6
  <1>f. faults' \in Nat
    <2>1. faults' = faults \/ faults' = faults + 1
      BY Steps DEF Start, Stop, Signal, Crash, Poll, Decode, Lookup, Produce, ProduceUnanswered, ProduceFails,
                   Alert, Upsert, Shakemap, CacheSet, DeadLetter, Commit, CommitFails, Publish,
                   StorageInserts, vars, Fault
    <2> QED BY <2>1, <1>0
  <1> DEFINE Goal == /\ enriched' \in [Partition -> Seq(Nat)]
                     /\ alerts' \subseteq Produced' /\ unanswered' \subseteq Produced'
                     /\ lostLetters' \subseteq Produced' /\ dlq' \subseteq Produced' \X Reason
                     /\ Keeps
  <1>1. CASE UNCHANGED topics
    <2>1. UNCHANGED <<enriched, alerts, dlq, unanswered, lostLetters>>
      BY <1>1, Zenon DEF topics
    <2>2. Keeps
      BY <2>1, Zenon DEF Keeps, OnTopic
    <2> QED BY <2>1, <2>2, <1>0, <1>r, <1>f
  <1>2. ASSUME NEW p \in Partition, NEW o \in Offsets(p),
               Produce(p, o) \/ ProduceUnanswered(p, o) \/ ProduceFails(p, o)
        PROVE  Goal
    <2>1. OnEnriched(p, o) \/ enriched' = enriched
      BY <1>2, Zenon DEF Produce, ProduceUnanswered, ProduceFails
    <2>2. enriched' \in [Partition -> Seq(Nat)] /\ \A q \in Partition : \A r : OnTopic(q, r) => OnTopic(q, r)'
      <3>1. CASE OnEnriched(p, o)
        BY <3>1, <1>0, Messages, EnrichedGrows
      <3>2. CASE enriched' = enriched
        BY <3>2, <1>0 DEF OnTopic
      <3> QED BY <2>1, <3>1, <3>2
    <2>3. cur \in Produced'
      BY <1>2, ProducedIs, LogGrows DEF Produce, ProduceUnanswered, ProduceFails, InHand
    <2>4. /\ UNCHANGED <<alerts, dlq, lostLetters>>
          /\ unanswered' = unanswered \/ unanswered' = unanswered \cup {cur}
      BY <1>2 DEF Produce, ProduceUnanswered, ProduceFails
    <2> QED BY <2>2, <2>3, <2>4, <1>0 DEF Keeps
  <1>3. ASSUME NEW p \in Partition, NEW o \in Offsets(p), Alert(p, o) \/ DeadLetter(p, o)
        PROVE  Goal
    <2>1. cur \in Produced'
      BY <1>3, ProducedIs, LogGrows DEF Alert, DeadLetter, InHand
    <2>2. /\ UNCHANGED <<enriched, unanswered>>
          /\ alerts' = alerts \/ alerts' = alerts \cup {cur}
          /\ lostLetters' = lostLetters \/ lostLetters' = lostLetters \cup {cur}
          /\ dlq' = dlq \/ dlq' = dlq \cup {<<cur, reason>>}
      BY <1>3 DEF Alert, DeadLetter
    <2> QED BY <2>1, <2>2, <1>0 DEF Keeps, OnTopic
  <1> HIDE DEF Goal
  <1>4. CASE \E p \in Partition : \E o \in Offsets(p) :
                \/ Produce(p, o) \/ ProduceUnanswered(p, o) \/ ProduceFails(p, o)
                \/ Alert(p, o) \/ DeadLetter(p, o)
    <2>1. Goal
      BY <1>4, <1>2, <1>3
    <2> QED BY <2>1, <1>r, <1>f DEF Goal
  <1> QED BY TopicSteps, <1>1, <1>4

(* The rows, and which record they are from.                               *)
LEMMA RowsStep ==
    ASSUME LoopInv, [Next]_vars
    PROVE  /\ inDb' \subseteq Id /\ shakemaps' \subseteq inDb'
           /\ enrichedBy' \in [Id -> Nat \cup {NoOffset}]
           /\ \A i \in Id : enrichedBy'[i] # NoOffset => i \in inDb'
           /\ \/ enrichedBy' = enrichedBy
              \/ \E p \in Partition : \E o \in Offsets(p) :
                   InHand(p, o) /\ enrichedBy' = [enrichedBy EXCEPT ![At(p, o).id] = o]
  <1>0. /\ inDb \subseteq Id /\ shakemaps \subseteq inDb
        /\ enrichedBy \in [Id -> Nat \cup {NoOffset}]
        /\ \A i \in Id : enrichedBy[i] # NoOffset => i \in inDb
    BY DEF LoopInv, TypeOK
  <1> DEFINE Goal == /\ inDb' \subseteq Id /\ shakemaps' \subseteq inDb'
                     /\ enrichedBy' \in [Id -> Nat \cup {NoOffset}]
                     /\ \A i \in Id : enrichedBy'[i] # NoOffset => i \in inDb'
                     /\ \/ enrichedBy' = enrichedBy
                        \/ \E p \in Partition : \E o \in Offsets(p) :
                             InHand(p, o) /\ enrichedBy' = [enrichedBy EXCEPT ![At(p, o).id] = o]
  <1>1. ASSUME UNCHANGED database
        PROVE  Goal
    <2>1. UNCHANGED <<inDb, enrichedBy, shakemaps>>
      BY <1>1, Zenon DEF database
    <2> QED BY <2>1, <1>0
  <1>2. ASSUME NEW p \in Partition, NEW o \in Offsets(p), Upsert(p, o)
        PROVE  Goal
    <2>1. At(p, o).id \in Id /\ o \in Nat
      BY Messages
    <2>2. /\ shakemaps' = shakemaps /\ InHand(p, o)
          /\ \/ UNCHANGED <<inDb, enrichedBy>>
             \/ /\ inDb' = inDb \cup {At(p, o).id}
                /\ enrichedBy' = [enrichedBy EXCEPT ![At(p, o).id] = o]
      BY <1>2 DEF Upsert
    <2> QED BY <2>1, <2>2, <1>0
  <1>3. ASSUME NEW p \in Partition, NEW o \in Offsets(p), Shakemap(p, o)
        PROVE  Goal
    BY <1>3, <1>0 DEF Shakemap
  <1>4. ASSUME NEW p \in Partition, NEW o \in Offsets(p), StorageInserts(p, o)
        PROVE  Goal
    BY <1>4, <1>0, Messages DEF StorageInserts
  <1>5. ASSUME NEW p \in Partition, NEW o \in Offsets(p),
               \/ Decode(p, o) \/ Lookup(p, o) \/ Produce(p, o) \/ ProduceUnanswered(p, o)
               \/ ProduceFails(p, o) \/ Alert(p, o) \/ CacheSet(p, o) \/ DeadLetter(p, o)
               \/ Commit(p, o) \/ CommitFails(p, o)
        PROVE  UNCHANGED database
    BY <1>5, Zenon DEF Decode, Lookup, Produce, ProduceUnanswered, ProduceFails, Alert, CacheSet,
                       DeadLetter, Commit, CommitFails
  <1>6. ASSUME Start \/ Stop \/ Signal \/ Crash \/ UNCHANGED vars
        PROVE  UNCHANGED database
    BY <1>6, Zenon DEF Start, Stop, Signal, Crash, vars
  <1>7. ASSUME NEW p \in Partition, Poll(p) PROVE UNCHANGED database
    BY <1>7, Zenon DEF Poll
  <1>8. ASSUME NEW m \in Message, Publish(m) PROVE UNCHANGED database
    BY <1>8, Zenon DEF Publish
  <1>9. Goal
    BY Steps, <1>1, <1>2, <1>3, <1>4, <1>5, <1>6, <1>7, <1>8
  <1> QED BY <1>9

LEMMA StoppingStep ==
    ASSUME stopping \in BOOLEAN, [Next]_vars
    PROVE  stopping' \in BOOLEAN
  <1>1. CASE Start \/ Signal
    BY <1>1, Zenon DEF Start, Signal
  <1>2. ASSUME NEW p \in Partition, NEW o \in Offsets(p), Works(p, o) \/ Commit(p, o) \/ CommitFails(p, o)
        PROVE  stopping' \in BOOLEAN
    BY <1>2, Zenon DEF Works, Commit, CommitFails
  <1>3. CASE Stop \/ Crash
    BY <1>3, Zenon DEF Stop, Crash, Goto
  <1>4. ASSUME NEW p \in Partition, Poll(p) PROVE stopping' \in BOOLEAN
    BY <1>4, Zenon DEF Poll
  <1>5. ASSUME NEW m \in Message, Publish(m) PROVE stopping' \in BOOLEAN
    BY <1>5, Zenon DEF Publish, process
  <1>6. CASE UNCHANGED <<log, committed, position, pc, cur, stopping, restarts>>
    BY <1>6, Zenon
  <1> QED BY LoopSteps, <1>1, <1>2, <1>3, <1>4, <1>5, <1>6

LEMMA LoopInit == Init => LoopInv
  <1> SUFFICES ASSUME Init PROVE LoopInv
    OBVIOUS
  <1>1. \A p \in Partition : Offsets(p) = {}
    BY DEF Init, Offsets
  <1>2. stopping \in BOOLEAN
    BY Zenon DEF Init
  <1> QED BY <1>1, <1>2 DEF Init, LoopInv, TypeOK, LogOK, HandOK, Running, NoMessage, Reason, NoOffset

LEMMA LoopStep == LoopInv /\ [Next]_vars => LoopInv'
  <1> SUFFICES ASSUME LoopInv, [Next]_vars PROVE LoopInv'
    OBVIOUS
  <1>1. stopping' \in BOOLEAN
    BY StoppingStep DEF LoopInv, TypeOK
  <1>2. TypeOK'
    BY <1>1, LogGrows, OffsetsStep, CurStep, TopicsStep, RowsStep DEF TypeOK
  <1> QED BY <1>2, LogGrows, OffsetsStep DEF LoopInv

(* The message in hand is the one after the committed offset.              *)
LEMMA LoopInvariant == Spec => []LoopInv
  BY LoopInit, LoopStep, PTL DEF Spec

(* The loop's offsets, the message in hand and its rows are what TypeOK    *)
(* says: committed <= position <= the end of the log, a row behind every   *)
(* enrichment and ShakeMap.                                                *)
THEOREM TypeCorrect == Spec => []TypeOK
  <1>1. LoopInv => TypeOK
    BY DEF LoopInv
  <1> QED BY <1>1, LoopInvariant, PTL

-----------------------------------------------------------------------------
(* Order.  No record on earthquakes.enriched, and no row, is ahead of the  *)
(* committed offset, where the message in hand is.                         *)

Sorted(p) == \A i, j \in DOMAIN enriched[p] : i < j => enriched[p][i] <= enriched[p][j]

Behind ==
    /\ \A p \in Partition : Sorted(p)
    /\ \A p \in Partition : \A k \in DOMAIN enriched[p] : enriched[p][k] <= committed[p]
    /\ \A i \in Id : enrichedBy[i] <= committed[PartitionOf[i]]

LEMMA CommittedGrows ==
    ASSUME LoopInv, [Next]_vars
    PROVE  /\ \A p \in Partition :
                committed[p] <= committed'[p] /\ committed[p] \in Nat /\ committed'[p] \in Nat
           /\ \/ committed' = committed
              \/ \E p \in Partition : \E o \in Offsets(p) :
                   /\ InHand(p, o) /\ pc = "commit" /\ committed[p] = o
                   /\ committed' = [committed EXCEPT ![p] = o + 1]
                   /\ UNCHANGED <<log, topics>>
  <1>0. committed \in [Partition -> Nat] /\ committed' \in [Partition -> Nat] /\ HandOK
    BY OffsetsStep DEF LoopInv, TypeOK
  <1>1. ASSUME NEW p \in Partition, NEW o \in Offsets(p), Commit(p, o) \/ CommitFails(p, o)
        PROVE  /\ InHand(p, o) /\ pc = "commit" /\ UNCHANGED <<log, topics>>
               /\ committed' = committed \/ committed' = [committed EXCEPT ![p] = o + 1]
    BY <1>1, Zenon DEF Commit, CommitFails
  <1>2. ASSUME NEW p \in Partition, NEW o \in Offsets(p), InHand(p, o)
        PROVE  committed[p] = o
    BY <1>2, <1>0 DEF HandOK
  <1>3. \/ committed' = committed
        \/ \E p \in Partition : \E o \in Offsets(p) : Commit(p, o) \/ CommitFails(p, o)
    BY LoopSteps DEF Start, Stop, Signal, Crash, Poll, Works, Publish
  <1>4. \/ committed' = committed
        \/ \E p \in Partition : \E o \in Offsets(p) :
             /\ InHand(p, o) /\ pc = "commit" /\ committed[p] = o
             /\ committed' = [committed EXCEPT ![p] = o + 1]
             /\ UNCHANGED <<log, topics>>
    BY <1>1, <1>2, <1>3
  <1>5. \A p \in Partition : committed[p] <= committed'[p] /\ committed[p] \in Nat /\ committed'[p] \in Nat
    BY <1>0, <1>4
  <1> QED BY <1>4, <1>5

LEMMA RowsAdvance ==
    ASSUME LoopInv, Behind, [Next]_vars
    PROVE  \A i \in Id : /\ enrichedBy[i] <= enrichedBy'[i]
                         /\ enrichedBy'[i] <= committed'[PartitionOf[i]]
  <1> SUFFICES ASSUME NEW i \in Id
               PROVE  /\ enrichedBy[i] <= enrichedBy'[i]
                      /\ enrichedBy'[i] <= committed'[PartitionOf[i]]
    OBVIOUS
  <1>1. /\ PartitionOf[i] \in Partition /\ enrichedBy[i] \in Int
        /\ enrichedBy[i] <= committed[PartitionOf[i]]
        /\ enrichedBy \in [Id -> Nat \cup {NoOffset}]
    BY AnalysisAssumption DEF LoopInv, TypeOK, NoOffset, Behind
  <1>2. /\ committed[PartitionOf[i]] <= committed'[PartitionOf[i]]
        /\ committed[PartitionOf[i]] \in Nat /\ committed'[PartitionOf[i]] \in Nat
    BY <1>1, CommittedGrows
  <1>3. CASE enrichedBy' = enrichedBy
    BY <1>1, <1>2, <1>3
  <1>4. ASSUME NEW p \in Partition, NEW o \in Offsets(p), InHand(p, o),
               enrichedBy' = [enrichedBy EXCEPT ![At(p, o).id] = o]
        PROVE  /\ enrichedBy[i] <= enrichedBy'[i]
               /\ enrichedBy'[i] <= committed'[PartitionOf[i]]
    <2>1. committed[p] = o /\ PartitionOf[At(p, o).id] = p /\ o \in Nat
      BY <1>4, Messages DEF LoopInv, HandOK
    <2>2. CASE i = At(p, o).id
      BY <2>1, <2>2, <1>1, <1>2, <1>4
    <2>3. CASE i # At(p, o).id
      BY <2>3, <1>1, <1>2, <1>4
    <2> QED BY <2>2, <2>3
  <1> QED BY <1>3, <1>4, RowsStep

LEMMA BehindStep ==
    ASSUME LoopInv, Behind, [Next]_vars
    PROVE  Behind'
  <1>1. ASSUME NEW q \in Partition
        PROVE  Sorted(q)' /\ \A k \in DOMAIN enriched'[q] : enriched'[q][k] <= committed'[q]
    <2>0. /\ Sorted(q) /\ \A k \in DOMAIN enriched[q] : enriched[q][k] <= committed[q]
          /\ committed[q] <= committed'[q] /\ committed[q] \in Nat /\ committed'[q] \in Nat
          /\ enriched[q] \in Seq(Nat)
      BY CommittedGrows DEF Behind, LoopInv, TypeOK
    <2>1. CASE enriched'[q] = enriched[q]
      <3>1. \A k \in DOMAIN enriched[q] : enriched[q][k] \in Nat
        BY <2>0
      <3> QED BY <2>1, <2>0, <3>1 DEF Sorted
    <2>2. ASSUME NEW p \in Partition, NEW o \in Offsets(p), InHand(p, o), OnEnriched(p, o)
          PROVE  Sorted(q)' /\ \A k \in DOMAIN enriched'[q] : enriched'[q][k] <= committed'[q]
      <3>1. o \in Nat /\ committed[p] = o /\ TypeOK
        BY <2>2, Messages DEF LoopInv, HandOK
      <3>2. CASE q # p
        BY <3>1, <3>2, <2>1, <2>2, EnrichedGrows
      <3>3. CASE q = p
        <4> DEFINE n == Len(enriched[p])
        <4>1. /\ n \in Nat /\ DOMAIN enriched[p] = 1..n /\ DOMAIN enriched'[p] = 1..(n + 1)
              /\ \A k \in DOMAIN enriched[p] : enriched'[p][k] = enriched[p][k] /\ enriched[p][k] \in Nat
              /\ enriched'[p][n + 1] = o
          BY <3>1, <2>2, EnrichedGrows
        <4> HIDE DEF n
        <4>2. \A k \in 1..n : enriched'[p][k] <= o /\ enriched'[p][k] \in Nat
          BY <4>1, <3>1, <3>3, <2>0
        <4>3. \A k \in 1..(n + 1) : k \in 1..n \/ k = n + 1
          BY <4>1
        <4>4. \A k \in 1..(n + 1) : enriched'[p][k] <= committed'[p]
          BY <4>1, <4>2, <4>3, <3>1, <3>3, <2>0
        <4>5. ASSUME NEW i \in 1..(n + 1), NEW j \in 1..(n + 1), i < j
              PROVE  enriched'[p][i] <= enriched'[p][j]
          <5>1. i \in 1..n
            BY <4>5, <4>1
          <5>2. CASE j = n + 1
            BY <5>1, <5>2, <4>1, <4>2
          <5>3. CASE j \in 1..n
            <6>1. enriched[p][i] <= enriched[p][j]
              BY <5>1, <5>3, <4>5, <4>1, <3>3, <2>0 DEF Sorted
            <6> QED BY <6>1, <5>1, <5>3, <4>1
          <5> QED BY <4>3, <5>2, <5>3
        <4> QED BY <4>1, <4>4, <4>5, <3>3 DEF Sorted
      <3> QED BY <3>2, <3>3
    <2>3. ASSUME NEW p \in Partition, NEW o \in Offsets(p),
                 \/ Produce(p, o) \/ ProduceUnanswered(p, o) \/ ProduceFails(p, o)
                 \/ Alert(p, o) \/ DeadLetter(p, o)
          PROVE  InHand(p, o) /\ (OnEnriched(p, o) \/ enriched' = enriched)
      BY <2>3, Zenon DEF Produce, ProduceUnanswered, ProduceFails, Alert, DeadLetter
    <2>4. UNCHANGED topics => enriched' = enriched
      BY Zenon DEF topics
    <2> QED BY TopicSteps, <2>1, <2>2, <2>3, <2>4
  <1> QED BY <1>1, RowsAdvance DEF Behind

LEMMA BehindInvariant == Spec => [](LoopInv /\ Behind)
  <1>1. Init => LoopInv /\ Behind
    <2> SUFFICES ASSUME Init PROVE Behind
      BY LoopInit
    <2>1. \A p \in Partition : enriched[p] = <<>> /\ committed[p] = 0
      BY DEF Init
    <2>2. \A i \in Id : enrichedBy[i] = -1 /\ PartitionOf[i] \in Partition
      BY AnalysisAssumption DEF Init, NoOffset
    <2> QED BY <2>1, <2>2 DEF Behind, Sorted
  <1>2. LoopInv /\ Behind /\ [Next]_vars => (LoopInv /\ Behind)'
    BY LoopStep, BehindStep
  <1> QED BY <1>1, <1>2, PTL DEF Spec

(* earthquakes.enriched and the enrichment columns never step back to an   *)
(* older solution of an event.                                             *)
THEOREM EnrichedInOrderCorrect == Spec => EnrichedInOrder
  <1>1. Behind => \A p \in Partition : \A i, j \in DOMAIN enriched[p] :
                    i < j => enriched[p][i] <= enriched[p][j]
    BY DEF Behind, Sorted
  <1>2. LoopInv /\ Behind /\ [Next]_vars => [\A i \in Id : enrichedBy[i] <= enrichedBy'[i]]_vars
    BY RowsAdvance
  <1> QED BY <1>1, <1>2, BehindInvariant, PTL DEF Spec, EnrichedInOrder

-----------------------------------------------------------------------------
(* What is committed is settled: the steps between poll and commit leave   *)
(* the message in hand enriched, dead-lettered or unanswered.              *)

Offered(p, o) == OnTopic(p, o) \/ <<p, o>> \in unanswered

CommittedSettled == \A p \in Partition : \A o \in Offsets(p) : o < committed[p] => Settled(p, o)

HandDone ==
    \A p \in Partition : \A o \in Offsets(p) :
      InHand(p, o) => /\ pc \in {"alert", "upsert", "shakemap", "cache"} => Offered(p, o)
                      /\ pc = "commit" => Settled(p, o)

SettledInv == CommittedSettled /\ HandDone /\ AlertIsEnriched

LEMMA SettledStable ==
    ASSUME Keeps, NEW p \in Partition, NEW o
    PROVE  /\ Offered(p, o) => Offered(p, o)'
           /\ Settled(p, o) => Settled(p, o)'
  BY DEF Keeps, Offered, Settled, DeadLettered

LEMMA HandSettled ==
    ASSUME LoopInv, HandDone, [Next]_vars, NEW p \in Partition, NEW o \in Offsets(p),
           Stage(p, o)
    PROVE  /\ pc' \in {"alert", "upsert", "shakemap", "cache"} => Offered(p, o)'
           /\ pc' = "commit" => Settled(p, o)'
  <1>k. Keeps
    BY TopicsStep
  <1>h. InHand(p, o) /\ TypeOK /\ o \in Nat /\ cur = <<p, o>>
    BY Messages, WorkSteps DEF Works, LoopInv, InHand
  <1> DEFINE Goal == /\ pc' \in {"alert", "upsert", "shakemap", "cache"} => Offered(p, o)'
                     /\ pc' = "commit" => Settled(p, o)'
  <1>1. ASSUME Decode(p, o) \/ Lookup(p, o) PROVE Goal
    BY <1>1 DEF Decode, Lookup, Goto, DeadLetterWith
  <1>2. ASSUME Produce(p, o) PROVE Goal
    <2>1. OnEnriched(p, o) /\ pc' \in {"alert", "upsert"}
      BY <1>2 DEF Produce, Goto
    <2>2. OnTopic(p, o)'
      BY <2>1, <1>h, EnrichedGrows
    <2> QED BY <2>1, <2>2 DEF Offered
  <1>3. ASSUME ProduceUnanswered(p, o) PROVE Goal
    BY <1>3, <1>h DEF ProduceUnanswered, Goto, Offered
  <1>4. ASSUME ProduceFails(p, o) PROVE Goal
    BY <1>4 DEF ProduceFails, DeadLetterWith
  <1>5. ASSUME Alert(p, o) \/ Upsert(p, o) \/ Shakemap(p, o) PROVE Goal
    <2>1. pc \in {"alert", "upsert", "shakemap"} /\ pc' \in {"upsert", "shakemap", "cache", "deadletter"}
      BY <1>5 DEF Alert, Upsert, Shakemap, Goto, DeadLetterWith
    <2>2. Offered(p, o)'
      BY <2>1, <1>h, <1>k, SettledStable DEF HandDone
    <2> QED BY <2>1, <2>2
  <1>6. ASSUME CacheSet(p, o) PROVE Goal
    <2>1. pc = "cache" /\ pc' = "commit"
      BY <1>6 DEF CacheSet, Goto
    <2>2. Offered(p, o)'
      BY <2>1, <1>h, <1>k, SettledStable DEF HandDone
    <2> QED BY <2>1, <2>2 DEF Offered, Settled
  <1>7. ASSUME DeadLetter(p, o) PROVE Goal
    <2>1. pc' = "commit" /\ (<<cur, reason>> \in dlq' \/ cur \in lostLetters') /\ reason \in Reason
      BY <1>7, <1>h DEF DeadLetter, Goto, TypeOK
    <2> QED BY <2>1, <1>h DEF Settled, DeadLettered
  <1> QED BY <1>1, <1>2, <1>3, <1>4, <1>5, <1>6, <1>7 DEF Stage

LEMMA StageSteps ==
    ASSUME [Next]_vars
    PROVE  \/ \E p \in Partition : \E o \in Offsets(p) : Stage(p, o)
           \/ cur' = NoMessage
           \/ pc' = "decode"
           \/ pc' = pc /\ cur' = cur
           \/ pc' \in {"down", "stopped", "poll"}
  BY Steps, Zenon DEF Stage, Start, Stop, Signal, Crash, Poll, Commit, CommitFails, Publish, StorageInserts,
                vars, process, Goto

LEMMA AlertsStep ==
    ASSUME LoopInv, HandDone, AlertIsEnriched, [Next]_vars
    PROVE  AlertIsEnriched'
  <1>1. Keeps /\ alerts \subseteq Produced
    BY TopicsStep DEF LoopInv, TypeOK
  <1>2. ASSUME NEW r \in alerts PROVE OnTopic(r[1], r[2])' \/ r \in unanswered'
    BY <1>1, <1>2 DEF AlertIsEnriched, Keeps, Produced
  <1>3. CASE alerts' = alerts
    BY <1>2, <1>3 DEF AlertIsEnriched
  <1>4. ASSUME NEW p \in Partition, NEW o \in Offsets(p), Alert(p, o)
        PROVE  AlertIsEnriched'
    <2>1. InHand(p, o) /\ pc = "alert" /\ alerts' \subseteq alerts \cup {<<p, o>>}
      BY <1>4 DEF Alert, InHand
    <2>2. Offered(p, o)'
      BY <2>1, <1>1, SettledStable DEF HandDone
    <2> QED BY <2>1, <2>2, <1>2 DEF AlertIsEnriched, Offered
  <1>5. ASSUME NEW p \in Partition, NEW o \in Offsets(p),
               Produce(p, o) \/ ProduceUnanswered(p, o) \/ ProduceFails(p, o) \/ DeadLetter(p, o)
        PROVE  alerts' = alerts
    BY <1>5, Zenon DEF Produce, ProduceUnanswered, ProduceFails, DeadLetter
  <1>6. UNCHANGED topics => alerts' = alerts
    BY Zenon DEF topics
  <1> QED BY TopicSteps, <1>3, <1>4, <1>5, <1>6

LEMMA HandDoneStep ==
    ASSUME LoopInv, HandDone, [Next]_vars
    PROVE  HandDone'
  <1> SUFFICES ASSUME NEW q \in Partition, NEW r \in Offsets(q)', InHand(q, r)'
               PROVE  /\ pc' \in {"alert", "upsert", "shakemap", "cache"} => Offered(q, r)'
                      /\ pc' = "commit" => Settled(q, r)'
    BY DEF HandDone
  <1>1. cur' = <<q, r>> /\ cur' # NoMessage
    BY DEF InHand, NoMessage
  <1>2. ASSUME NEW p \in Partition, NEW o \in Offsets(p), Stage(p, o)
        PROVE  /\ pc' \in {"alert", "upsert", "shakemap", "cache"} => Offered(q, r)'
               /\ pc' = "commit" => Settled(q, r)'
    <2>1. p = q /\ o = r
      BY <1>1, <1>2, WorkSteps DEF Works, InHand
    <2> QED BY <2>1, <1>2, HandSettled
  <1>3. CASE pc' = pc /\ cur' = cur
    <2>1. cur = <<q, r>> /\ cur \in Produced
      BY <1>1, <1>3 DEF LoopInv, TypeOK
    <2>2. r \in Offsets(q) /\ InHand(q, r)
      BY <2>1, ProducedIs DEF InHand
    <2> QED BY <2>2, <1>3, TopicsStep, SettledStable DEF HandDone
  <1> QED BY StageSteps, <1>1, <1>2, <1>3

LEMMA CommittedStep ==
    ASSUME LoopInv, CommittedSettled, HandDone, [Next]_vars
    PROVE  CommittedSettled'
  <1> SUFFICES ASSUME NEW q \in Partition, NEW r \in Offsets(q)', r < committed'[q]
               PROVE  Settled(q, r)'
    BY DEF CommittedSettled
  <1>0. /\ committed[q] \in Nat /\ committed[q] <= Len(log[q]) /\ r \in Nat
        /\ Len(log[q]) \in Nat /\ Len(log'[q]) \in Nat /\ HandOK
    BY LogGrows DEF LoopInv, TypeOK, Offsets
  <1>1. ASSUME r < committed[q] PROVE Settled(q, r)'
    <2>1. r \in Offsets(q)
      BY <1>0, <1>1 DEF Offsets
    <2> QED BY <2>1, <1>1, TopicsStep, SettledStable DEF CommittedSettled
  <1>2. CASE committed' = committed
    BY <1>1, <1>2
  <1>3. ASSUME NEW p \in Partition, NEW o \in Offsets(p), InHand(p, o), pc = "commit", committed[p] = o,
               committed' = [committed EXCEPT ![p] = o + 1]
        PROVE  Settled(q, r)'
    <2>1. r < committed[q] \/ (q = p /\ r = o)
      BY <1>3, <1>0 DEF LoopInv, TypeOK
    <2>2. Settled(p, o)'
      BY <1>3, TopicsStep, SettledStable DEF HandDone
    <2> QED BY <2>1, <2>2, <1>1
  <1> QED BY <1>2, <1>3, CommittedGrows

LEMMA SettledInvariant == Spec => [](LoopInv /\ SettledInv)
  <1>1. Init => LoopInv /\ SettledInv
    <2> SUFFICES ASSUME Init PROVE SettledInv
      BY LoopInit
    <2>1. \A p \in Partition : Offsets(p) = {}
      BY DEF Init, Offsets
    <2> QED BY <2>1 DEF Init, SettledInv, CommittedSettled, HandDone, AlertIsEnriched
  <1>2. LoopInv /\ SettledInv /\ [Next]_vars => (LoopInv /\ SettledInv)'
    BY LoopStep, CommittedStep, HandDoneStep, AlertsStep DEF SettledInv
  <1> QED BY <1>1, <1>2, PTL DEF Spec

(* No alert goes out for an event that earthquakes.enriched does not have, *)
(* unless its delivery was not answered.                                   *)
THEOREM AlertIsEnrichedCorrect == Spec => []AlertIsEnriched
  <1>1. SettledInv => AlertIsEnriched
    BY DEF SettledInv
  <1> QED BY <1>1, SettledInvariant, PTL

(* The refinement of AtLeastOnce.                                          *)
SettledSet == {r \in Produced : Settled(r[1], r[2])}

LEMMA SettledSetIs ==
    ASSUME NEW p, NEW o
    PROVE  <<p, o>> \in SettledSet <=> p \in Partition /\ o \in Offsets(p) /\ Settled(p, o)
  BY ProducedIs DEF SettledSet

LEMMA SettledSetGrows ==
    ASSUME LoopInv, [Next]_vars
    PROVE  SettledSet \subseteq SettledSet'
  <1> SUFFICES ASSUME NEW r \in SettledSet PROVE r \in SettledSet'
    OBVIOUS
  <1>0. PICK p \in Partition : \E o \in Offsets(p) : r = <<p, o>> /\ Settled(p, o)
    BY DEF SettledSet, Produced
  <1>1. PICK o \in Offsets(p) : r = <<p, o>> /\ Settled(p, o)
    BY <1>0
  <1>2. Settled(p, o)'
    BY <1>1, TopicsStep, SettledStable
  <1>3. <<p, o>> \in Produced'
    BY <1>1, LogGrows, ProducedIs
  <1> QED BY <1>1, <1>2, <1>3 DEF SettledSet

LEMMA InitImplements == Init => ALO!Init
  <1> SUFFICES ASSUME Init PROVE ALO!Init
    OBVIOUS
  <1>1. \A p \in Partition : Len(log[p]) = 0 /\ Offsets(p) = {}
    BY DEF Init, Offsets
  <1>2. Produced = {}
    BY <1>1 DEF Produced
  <1> QED BY <1>1, <1>2 DEF Init, ALO!Init

LEMMA StepImplements ==
    ASSUME LoopInv, SettledInv, [Next]_vars
    PROVE  [ALO!Next]_(ALO!vars)
  <1> DEFINE len == [p \in Partition |-> Len(log[p])]
  <1>t. committed \in [Partition -> Nat] /\ log \in [Partition -> Seq(Message)]
    BY DEF LoopInv, TypeOK
  <1>g. SettledSet \subseteq SettledSet'
    BY SettledSetGrows
  <1>r. SettledSet \subseteq ALO!Records /\ SettledSet' \subseteq ALO!Records'
    BY DEF SettledSet, Produced, Offsets, ALO!Records
  <1>1. CASE UNCHANGED <<log, committed>>
    <2>1. SettledSet' \subseteq ALO!Records
      BY <1>1, <1>r DEF ALO!Records
    <2> QED BY <1>1, <1>g, <2>1 DEF ALO!Next, ALO!Settle, ALO!vars, SettledSet
  <1>2. ASSUME NEW m \in Message, Publish(m) PROVE ALO!Next
    <2>1. PartitionOf[m.id] \in Partition
      BY AnalysisAssumption DEF AnalysisAssumption
    <2>2. log' = [log EXCEPT ![PartitionOf[m.id]] = Append(@, m)] /\ committed' = committed
      BY <1>2, Zenon DEF Publish
    <2>3. \A p \in Partition : Len(log'[p]) = IF p = PartitionOf[m.id] THEN Len(log[p]) + 1 ELSE Len(log[p])
      <3> SUFFICES ASSUME NEW p \in Partition
                   PROVE  Len(log'[p]) = IF p = PartitionOf[m.id] THEN Len(log[p]) + 1 ELSE Len(log[p])
        OBVIOUS
      <3>1. log[p] \in Seq(Message)
        BY <1>t
      <3>2. log'[p] = IF p = PartitionOf[m.id] THEN Append(log[p], m) ELSE log[p]
        BY <2>2, <1>t
      <3>3. Len(Append(log[p], m)) = Len(log[p]) + 1
        BY <3>1
      <3> QED BY <3>2, <3>3
    <2>4. len' = [len EXCEPT ![PartitionOf[m.id]] = @ + 1]
      BY <2>3
    <2> QED BY <2>1, <2>2, <2>4, <1>g, <1>r DEF ALO!Next, ALO!AppendRecord, SettledSet
  <1>3. ASSUME NEW p \in Partition, NEW o \in Offsets(p), InHand(p, o), pc = "commit", committed[p] = o,
               committed' = [committed EXCEPT ![p] = o + 1], UNCHANGED <<log, topics>>
        PROVE  ALO!Next
    <2>1. o + 1 \in (committed[p] + 1)..len[p]
      BY <1>3, Messages
    <2>2. Settled(p, o)
      BY <1>3 DEF SettledInv, HandDone
    <2>3. ASSUME NEW r \in 0..((o + 1) - 1) PROVE <<p, r>> \in SettledSet
      <3>1. o \in Nat /\ Len(log[p]) \in Nat /\ o + 1 <= Len(log[p])
        BY Messages
      <3>2. r \in Offsets(p) /\ (r = o \/ r < committed[p])
        BY <3>1, <1>3 DEF Offsets
      <3> QED BY <3>2, <2>2, SettledSetIs DEF SettledInv, CommittedSettled
    <2>4. UNCHANGED <<log, enriched, dlq, unanswered, lostLetters>>
      BY <1>3, Zenon DEF topics
    <2>5. len' = len /\ SettledSet' = SettledSet
      BY <2>4 DEF SettledSet, Produced, Offsets, Settled, DeadLettered, OnTopic
    <2>6. \E n \in (committed[p] + 1)..len[p] :
            /\ \A r \in 0..(n - 1) : <<p, r>> \in SettledSet
            /\ committed' = [committed EXCEPT ![p] = n]
      <3>1. committed' = [committed EXCEPT ![p] = o + 1]
        BY <1>3
      <3> USE <2>1
      <3> WITNESS o + 1 \in (committed[p] + 1)..len[p]
      <3>2. \A r \in 0..((o + 1) - 1) : <<p, r>> \in SettledSet
        BY <2>3, Zenon
      <3> QED BY <3>1, <3>2, Zenon
    <2> QED BY <2>6, <2>5 DEF ALO!Next, ALO!Commit, SettledSet
  <1>4. log' = log \/ \E m \in Message : Publish(m)
    BY LoopSteps DEF Start, Stop, Signal, Crash, Poll, Works, Commit, CommitFails
  <1> QED BY <1>1, <1>2, <1>3, <1>4, CommittedGrows

(* Always committing is still at-least-once processing.                    *)
THEOREM ImplementsAtLeastOnceCorrect == Spec => ImplementsAtLeastOnce
  <1>1. Init => ALO!Init
    BY InitImplements
  <1>2. LoopInv /\ SettledInv /\ [Next]_vars => [ALO!Next]_(ALO!vars)
    BY StepImplements
  <1> QED BY <1>1, <1>2, SettledInvariant, PTL DEF Spec, ImplementsAtLeastOnce, ALO!Spec

-----------------------------------------------------------------------------
(* The enrichment *)

\* The depth term of the local scale is between 0 and 0.05.
LEMMA DepthTerm ==
    ASSUME NEW d \in Depth
    PROVE  Shallow(d) \in Int /\ 0 <= Shallow(d) /\ Shallow(d) <= 149500
  <1>1. DepthOf(d) \in Int /\ DepthOf(d) >= 1
    <2>1. CASE d = Unset
      BY <2>1 DEF DepthOf
    <2>2. CASE d # Unset
      <3>1. d \in Int
        BY <2>2, EnrichmentAssumption DEF EnrichmentAssumption
      <3> QED
        BY <2>2, <3>1 DEF DepthOf
    <2> QED
      BY <2>1, <2>2
  <1>2. PICK x \in Int : x = DepthOf(d) /\ x >= 1
    BY <1>1
  <1>3. Shallow(d) = IF x < 300 THEN 500 * (300 - x) ELSE 0
    BY <1>2 DEF Shallow
  <1> QED
    BY <1>2, <1>3

\* Rounding is half up, in steps of 30000.
LEMMA HundredthsIs ==
    ASSUME NEW x \in Int
    PROVE  /\ Hundredths(x) \in Int
           /\ 30000 * Hundredths(x) <= x + 15000
           /\ x + 15000 < 30000 * Hundredths(x) + 30000
  <1>1. One \div 200 = 15000 /\ One \div 100 = 30000
    BY DEF One
  <1>2. Hundredths(x) = (x + 15000) \div 30000
    BY <1>1 DEF Hundredths
  <1>3. ASSUME NEW a \in Int
        PROVE  /\ a \div 30000 \in Int
               /\ 30000 * (a \div 30000) <= a
               /\ a < 30000 * (a \div 30000) + 30000
    OBVIOUS
  <1>4. x + 15000 \in Int
    OBVIOUS
  <1> QED
    BY <1>2, <1>3, <1>4

\* Rounding gives an integer and keeps the order.
LEMMA RoundingIsMonotone ==
    ASSUME NEW x \in Int, NEW y \in Int, x <= y
    PROVE  Hundredths(x) \in Int /\ Hundredths(y) \in Int /\ Hundredths(x) <= Hundredths(y)
  <1> DEFINE h == Hundredths(x)
             k == Hundredths(y)
  <1>1. h \in Int /\ 30000 * h <= x + 15000
    BY HundredthsIs
  <1>2. k \in Int /\ y + 15000 < 30000 * k + 30000
    BY HundredthsIs
  <1> HIDE DEF h, k
  <1>3. h <= k
    BY <1>1, <1>2
  <1> QED
    BY <1>1, <1>2, <1>3 DEF h, k

\* The alert is monotone in the converted magnitude.
LEMMA AlertLevelIsMonotone ==
    ASSUME NEW x \in Int, NEW y \in Int, x <= y
    PROVE  AlertLevel(x) \in 0..3 /\ AlertLevel(y) \in 0..3 /\ AlertLevel(x) <= AlertLevel(y)
  BY DEF AlertLevel

\* What is published for a magnitude on the local scale, before rounding.
Published(x) ==
    IF Hundredths(x) >= Threshold THEN AlertLevel(Hundredths(x)) ELSE 0

\* So is the alert that is published for it.
LEMMA PublishedIsMonotone ==
    ASSUME NEW x \in Int, NEW y \in Int, x <= y
    PROVE  Published(x) <= Published(y)
  <1> DEFINE h == Hundredths(x)
             k == Hundredths(y)
  <1>1. h \in Int /\ k \in Int /\ h <= k
    BY RoundingIsMonotone
  <1>2. Threshold \in Int
    BY EnrichmentAssumption DEF EnrichmentAssumption
  <1>3. (IF h >= Threshold THEN AlertLevel(h) ELSE 0)
           <= (IF k >= Threshold THEN AlertLevel(k) ELSE 0)
    <2> HIDE DEF h, k
    <2>1. AlertLevel(h) \in 0..3 /\ AlertLevel(k) \in 0..3 /\ AlertLevel(h) <= AlertLevel(k)
      BY <1>1, AlertLevelIsMonotone
    <2> QED
      BY <1>1, <1>2, <2>1
  <1> QED
    BY <1>3 DEF Published

\* A magnitude up to 3.5 raises no alert: it converts to less than 4.6.
LEMMA WeakRaisesNone ==
    ASSUME NEW m \in Int, m <= 3500, NEW s \in Int, 0 <= s, s <= 149500
    PROVE  Published(MwToMl(m) - s) = 0
  <1>1. MwToMl(m) \in Int /\ MwToMl(m) <= 13656000
    BY DEF MwToMl
  <1> DEFINE x == MwToMl(m) - s
             h == Hundredths(x)
  <1>2. x \in Int /\ x <= 13656000
    BY <1>1
  <1>3. h \in Int /\ h < 500
    <2>1. h \in Int /\ 30000 * h <= x + 15000
      BY <1>2, HundredthsIs
    <2> HIDE DEF x, h
    <2> QED
      BY <1>2, <2>1
  <1>4. AlertLevel(Hundredths(x)) = 0
    BY <1>3 DEF AlertLevel
  <1> QED
    BY <1>4 DEF Published

\* The step at 6.0: at most 6.66 before it and at least 6.00 after it, so the
\* alert is at most ORANGE before it and at least ORANGE after it.
LEMMA StepKeepsAlert ==
    ASSUME NEW m \in Int, m > 3500, m <= 6000, NEW n \in Int, n > 6000,
           NEW s \in Int, 0 <= s, s <= 149500, Threshold \notin 601..666
    PROVE  Published(MwToMl(m) - s) <= Published(MwToMl(n) - s)
  <1> DEFINE x == MwToMl(m) - s
             y == MwToMl(n) - s
             h == Hundredths(x)
             k == Hundredths(y)
  <1>1. x \in Int /\ x <= 19968000
    BY DEF MwToMl
  <1>2. y \in Int /\ y >= 18003500
    BY DEF MwToMl, Unit
  <1>3. h \in Int /\ h <= 666
    <2>1. 30000 * h <= x + 15000 /\ h \in Int
      BY <1>1, HundredthsIs
    <2> HIDE DEF x, h
    <2> QED
      BY <1>1, <2>1
  <1>4. k \in Int /\ k >= 600
    <2>1. k \in Int /\ y + 15000 < 30000 * k + 30000
      BY <1>2, HundredthsIs
    <2> HIDE DEF y, k
    <2> QED
      BY <1>2, <2>1
  <1>5. Threshold \in Int
    BY EnrichmentAssumption DEF EnrichmentAssumption
  <1>6. (IF h >= Threshold THEN AlertLevel(h) ELSE 0)
           <= (IF k >= Threshold THEN AlertLevel(k) ELSE 0)
    <2> HIDE DEF h, k
    <2>1. AlertLevel(h) \in 0..2
      BY <1>3 DEF AlertLevel
    <2>2. AlertLevel(k) \in 2..3
      BY <1>4 DEF AlertLevel
    <2>3. CASE h >= Threshold
      <3>1. Threshold <= 600
        BY <1>3, <1>5, <2>3
      <3> QED
        BY <1>4, <1>5, <2>1, <2>2, <2>3, <3>1
    <2>4. CASE ~(h >= Threshold)
      BY <2>2, <2>4
    <2> QED
      BY <2>3, <2>4
  <1> QED
    BY <1>6 DEF Published

\* Mw: the two steps down, at 3.5 and at 6.0, lower no alert.
LEMMA MwKeepsAlert ==
    ASSUME NEW m \in Int, NEW n \in Int, m <= n,
           NEW s \in Int, 0 <= s, s <= 149500, Threshold \notin 601..666
    PROVE  Published(MwToMl(m) - s) <= Published(MwToMl(n) - s)
  <1>0. MwToMl(m) \in Int /\ MwToMl(n) \in Int
    BY DEF MwToMl, Unit
  <1>1. CASE n <= 3500
    <2>1. Published(MwToMl(m) - s) = 0 /\ Published(MwToMl(n) - s) = 0
      BY <1>1, WeakRaisesNone
    <2> QED
      BY <2>1
  <1>2. CASE m <= 3500 /\ n > 3500
    <2>1. Published(MwToMl(m) - s) = 0
      BY <1>2, WeakRaisesNone
    <2>2. Hundredths(MwToMl(n) - s) \in Int
      BY <1>0, RoundingIsMonotone
    <2>3. AlertLevel(Hundredths(MwToMl(n) - s)) \in 0..3
      BY <2>2, AlertLevelIsMonotone
    <2>4. Published(MwToMl(n) - s) \in 0..3
      BY <2>3 DEF Published
    <2> QED
      BY <2>1, <2>4
  <1>3. CASE m > 3500 /\ m <= 6000 /\ n > 6000
    BY <1>3, StepKeepsAlert
  <1>4. CASE m > 3500 /\ (n <= 6000 \/ m > 6000)
    <2>1. MwToMl(m) <= MwToMl(n)
      BY <1>4 DEF MwToMl, Unit
    <2> QED
      BY <1>0, <2>1, PublishedIsMonotone
  <1> QED
    BY <1>1, <1>2, <1>3, <1>4

\* A stronger report of an event never lowers its alert, for every magnitude,
\* depth and scale (refine_to_ml, alert_level and the threshold of main.py).
THEOREM AlertNeverFallsCorrect == AlertNeverFalls
  <1> SUFFICES ASSUME Threshold \notin 601..666,
                      NEW scale \in Scale, NEW d \in Depth,
                      NEW m \in Magnitude, NEW n \in Magnitude, m <= n
               PROVE  AlertOf(m, scale, d) <= AlertOf(n, scale, d)
    BY DEF AlertNeverFalls
  <1>1. m \in Int /\ n \in Int
    BY EnrichmentAssumption DEF EnrichmentAssumption
  <1>2. PICK s \in Int : s = Shallow(d) /\ 0 <= s /\ s <= 149500
    BY DepthTerm
  <1>3. ASSUME NEW i \in Int, NEW j \in Int, Published(i) <= Published(j),
               RefineToMl(m, scale, d) = Hundredths(i),
               RefineToMl(n, scale, d) = Hundredths(j)
        PROVE  AlertOf(m, scale, d) <= AlertOf(n, scale, d)
    BY <1>3 DEF AlertOf, Published
  <1>4. CASE scale = "ML"
    BY <1>1, <1>2, <1>3, <1>4, PublishedIsMonotone DEF RefineToMl, Unit
  <1>5. CASE scale = "MW"
    <2>1. MwToMl(m) \in Int /\ MwToMl(n) \in Int
      BY <1>1 DEF MwToMl, Unit
    <2> QED
      BY <1>1, <1>2, <1>3, <1>5, <2>1, MwKeepsAlert DEF RefineToMl
  <1>6. CASE scale = "MB"
    BY <1>1, <1>3, <1>6, PublishedIsMonotone DEF RefineToMl, Unit
  <1>7. CASE scale = "MS"
    BY <1>1, <1>3, <1>7, PublishedIsMonotone DEF RefineToMl, Unit
  <1>8. CASE scale = "other"
    BY <1>1, <1>3, <1>8, PublishedIsMonotone DEF RefineToMl, Unit
  <1> QED
    BY <1>4, <1>5, <1>6, <1>7, <1>8 DEF Scale

\* In every state of the analysis service's run, therefore.
THEOREM AlertsRiseCorrect == Spec => []AlertsRise
  <1>1. AlertsRise
    BY AlertNeverFallsCorrect DEF AlertsRise
  <1> QED
    BY <1>1, PTL
=============================================================================
