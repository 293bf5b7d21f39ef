--------------------------- MODULE StorageProofs ---------------------------
(***************************************************************************)
(* Proofs about StorageConsumer, for any partitions, messages and bounds:  *)
(* type correctness, the monotonic upsert, and the commit protocol as an   *)
(* implementation of AtLeastOnce; and about the records of module Records, *)
(* which the parsers build, storage validates and the table accepts.       *)
(***************************************************************************)
EXTENDS MCStorageConsumer, TLAPS

(* The whole next-state relation, unfolded.                                *)
LEMMA Steps ==
    ASSUME [Next]_vars
    PROVE  \/ Start \/ Stop \/ Signal \/ Crash
           \/ \E p \in Partition : Recv(p)
           \/ \E p \in Partition : CommitLands(p)
           \/ \E p \in Partition : \E o \in Offsets(p) : Skip(p, o)
           \/ \E p \in Partition : \E o \in Offsets(p) : Pass(p, o)
           \/ \E p \in Partition : \E o \in Offsets(p) : CheckFails(p, o)
           \/ \E p \in Partition : \E o \in Offsets(p) : Upsert(p, o)
           \/ \E p \in Partition : \E o \in Offsets(p) : UpsertFails(p, o)
           \/ \E p \in Partition : \E o \in Offsets(p) : DeadLetter(p, o)
           \/ \E p \in Partition : \E o \in Offsets(p) : DeadLetterFails(p, o)
           \/ \E m \in Message : Publish(m)
           \/ \E m \in Message : AnalysisInserts(m)
           \/ \E i \in Id : Evict(i)
           \/ UNCHANGED vars
  BY DEF Next, Consumer, Process, Environment

LEMMA ProducedIs ==
    ASSUME NEW p, NEW o
    PROVE  <<p, o>> \in Produced <=> p \in Partition /\ o \in Offsets(p)
  BY DEF Produced

LEMMA ProducedIsPrimed ==
    ASSUME NEW p, NEW o
    PROVE  <<p, o>> \in Produced' <=> p \in Partition /\ o \in Offsets(p)'
  BY DEF Produced

(* The log only grows, and keeps its messages.                             *)
LEMMA LogStep ==
    ASSUME TypeOK, [Next]_vars
    PROVE  /\ log' \in [Partition -> Seq(Message)]
           /\ \A p \in Partition : Len(log[p]) <= Len(log'[p])
           /\ \A p \in Partition : \A o \in Offsets(p) : o \in Offsets(p)' /\ At(p, o)' = At(p, o)
           /\ Produced \subseteq Produced'
  <1>0. log \in [Partition -> Seq(Message)]
    BY DEF TypeOK
  <1>1. CASE log' = log
    BY <1>1, <1>0 DEF Offsets, At, Produced
  <1>2. ASSUME NEW m \in Message, Publish(m)
        PROVE  /\ log' \in [Partition -> Seq(Message)]
               /\ \A p \in Partition : Len(log[p]) <= Len(log'[p])
               /\ \A p \in Partition : \A o \in Offsets(p) : o \in Offsets(p)' /\ At(p, o)' = At(p, o)
    <2> DEFINE q == PartitionOf[m.id]
    <2>1. q \in Partition
      BY StorageAssumption
    <2>2. log' = [log EXCEPT ![q] = Append(@, m)]
      BY <1>2, Zenon DEF Publish
    <2>3. log[q] \in Seq(Message)
      BY <2>1, <1>0
    <2>4. /\ Append(log[q], m) \in Seq(Message)
          /\ Len(Append(log[q], m)) = Len(log[q]) + 1
          /\ \A i \in 1..Len(log[q]) : Append(log[q], m)[i] = log[q][i]
      BY <2>3
    <2>5. \A p \in Partition : log'[p] = IF p = q THEN Append(log[q], m) ELSE log[p]
      BY <2>2, <1>0
    <2>6. log' \in [Partition -> Seq(Message)]
      BY <2>2, <2>4, <1>0
    <2> HIDE DEF q
    <2> SUFFICES ASSUME NEW p \in Partition
                 PROVE  /\ Len(log[p]) <= Len(log'[p])
                        /\ \A o \in Offsets(p) : o \in Offsets(p)' /\ At(p, o)' = At(p, o)
      BY <2>6
    <2>7. Len(log[p]) \in Nat
      BY <1>0
    <2>8. CASE p = q
      <3>1. log'[p] = Append(log[p], m)
        BY <2>8, <2>5, <2>1
      <3>2. Len(log'[p]) = Len(log[p]) + 1
        BY <3>1, <2>4, <2>8
      <3>3. ASSUME NEW o \in Offsets(p) PROVE o \in Offsets(p)' /\ At(p, o)' = At(p, o)
        <4>1. o + 1 \in 1..Len(log[p]) /\ o \in 0..(Len(log[p]) + 1 - 1)
          BY <3>3, <2>7 DEF Offsets
        <4>2. log'[p][o + 1] = log[p][o + 1]
          BY <4>1, <3>1, <2>4, <2>8
        <4> QED BY <4>1, <4>2, <3>2 DEF Offsets, At
      <3> QED BY <3>2, <3>3, <2>7
    <2>9. CASE p # q
      BY <2>9, <2>7, <2>5 DEF Offsets, At
    <2> QED BY <2>8, <2>9
  <1>3. \/ log' = log
        \/ \E m \in Message : Publish(m)
    BY Steps
    DEF Start, Stop, Signal, Crash, Recv, CommitLands, Skip, Pass, CheckFails, Upsert, UpsertFails,
        DeadLetter, DeadLetterFails, AnalysisInserts, Evict, vars, kafka
  <1>4. /\ log' \in [Partition -> Seq(Message)]
        /\ \A p \in Partition : Len(log[p]) <= Len(log'[p])
        /\ \A p \in Partition : \A o \in Offsets(p) : o \in Offsets(p)' /\ At(p, o)' = At(p, o)
    BY <1>1, <1>2, <1>3
  <1> QED BY <1>4 DEF Produced

(* The flags stay Boolean.                                                 *)
LEMMA FlagsStep ==
    ASSUME FlagsOK, [Next]_vars
    PROVE  FlagsOK'
  <1> USE DEF FlagsOK
  <1>1. CASE Start
    BY <1>1, Zenon DEF Start
  <1>2. CASE Stop \/ Signal \/ Crash
    BY <1>2, Zenon DEF Stop, Signal, Crash
  <1>3. ASSUME NEW p \in Partition, Recv(p) \/ CommitLands(p) PROVE FlagsOK'
    BY <1>3, Zenon DEF Recv, CommitLands, process
  <1>4. ASSUME NEW p \in Partition, NEW o \in Offsets(p),
               Skip(p, o) \/ Pass(p, o) \/ CheckFails(p, o)
        PROVE  FlagsOK'
    BY <1>4, Zenon DEF Skip, Pass, CheckFails
  <1>5. ASSUME NEW p \in Partition, NEW o \in Offsets(p),
               Upsert(p, o) \/ UpsertFails(p, o) \/ DeadLetter(p, o) \/ DeadLetterFails(p, o)
        PROVE  FlagsOK'
    BY <1>5, Zenon DEF Upsert, UpsertFails, DeadLetter, DeadLetterFails
  <1>6. ASSUME NEW m \in Message, Publish(m) \/ AnalysisInserts(m) PROVE FlagsOK'
    BY <1>6, Zenon DEF Publish, AnalysisInserts, process
  <1>7. ASSUME NEW i \in Id, Evict(i) PROVE FlagsOK'
    BY <1>7, Zenon DEF Evict, process
  <1>8. CASE UNCHANGED vars
    BY <1>8, Zenon DEF vars, process
  <1> QED BY Steps, <1>1, <1>2, <1>3, <1>4, <1>5, <1>6, <1>7, <1>8

(* The upsert leaves a row for its own id and the others alone; it never   *)
(* moves a row back.                                                       *)
LEMMA WrittenRows ==
    ASSUME TypeOK, NEW m \in Message
    PROVE  /\ Written(m) \in [Id -> Message \cup {NoRow}]
           /\ Written(m)[m.id] # NoRow /\ Written(m)[m.id].time >= m.time
           /\ \A i \in Id : rows[i] # NoRow =>
                /\ Written(m)[i] # NoRow
                /\ Written(m)[i] # rows[i] => Written(m)[i].time > rows[i].time
  <1>1. m.id \in Id /\ m.time \in Int /\ NoRow \notin Message /\ m # NoRow
    BY StorageAssumption
  <1>2. rows \in [Id -> Message \cup {NoRow}]
    BY DEF TypeOK
  <1>3. rows[m.id] # NoRow => rows[m.id].time \in Int
    BY <1>1, <1>2, StorageAssumption
  <1>4. CASE rows[m.id] = NoRow \/ m.time > rows[m.id].time
    <2>1. Written(m) = [rows EXCEPT ![m.id] = m]
      BY <1>4 DEF Written
    <2>2. \A i \in Id : Written(m)[i] = IF i = m.id THEN m ELSE rows[i]
      BY <2>1, <1>2
    <2> QED BY <2>1, <2>2, <1>1, <1>2, <1>4
  <1>5. CASE ~(rows[m.id] = NoRow \/ m.time > rows[m.id].time)
    <2>1. Written(m) = rows
      BY <1>5 DEF Written
    <2> QED BY <2>1, <1>1, <1>2, <1>3, <1>5
  <1> QED BY <1>4, <1>5

LEMMA Messages ==
    ASSUME TypeOK, NEW p \in Partition, NEW o \in Offsets(p)
    PROVE  /\ At(p, o) \in Message /\ At(p, o).id \in Id
           /\ o \in Nat /\ o + 1 <= Len(log[p]) /\ Len(log[p]) \in Nat
  <1>1. log[p] \in Seq(Message)
    BY DEF TypeOK
  <1>2. Len(log[p]) \in Nat
    BY <1>1
  <1>3. o \in Nat /\ o + 1 \in 1..Len(log[p])
    BY <1>2 DEF Offsets
  <1>4. At(p, o) \in Message
    BY <1>1, <1>3 DEF At
  <1> QED BY <1>2, <1>3, <1>4, StorageAssumption

(* Every step keeps the types of the rows, and never moves one back.       *)
LEMMA RowsStep ==
    ASSUME TypeOK, [Next]_vars
    PROVE  /\ rows' \in [Id -> Message \cup {NoRow}]
           /\ \A i \in Id : rows[i] # NoRow =>
                /\ rows'[i] # NoRow
                /\ rows'[i] # rows[i] => rows'[i].time > rows[i].time
  <1>0. rows \in [Id -> Message \cup {NoRow}]
    BY DEF TypeOK
  <1>1. CASE rows' = rows
    BY <1>1, <1>0
  <1>2. ASSUME NEW p \in Partition, NEW o \in Offsets(p), rows' = Written(At(p, o))
        PROVE  /\ rows' \in [Id -> Message \cup {NoRow}]
               /\ \A i \in Id : rows[i] # NoRow =>
                    /\ rows'[i] # NoRow
                    /\ rows'[i] # rows[i] => rows'[i].time > rows[i].time
    BY <1>2, Messages, WrittenRows
  <1>3. ASSUME NEW m \in Message, AnalysisInserts(m)
        PROVE  /\ rows' \in [Id -> Message \cup {NoRow}]
               /\ \A i \in Id : rows[i] # NoRow => rows'[i] = rows[i]
    BY <1>3, <1>0 DEF AnalysisInserts
  <1>4. \/ rows' = rows
        \/ \E p \in Partition : \E o \in Offsets(p) : rows' = Written(At(p, o))
        \/ \E m \in Message : AnalysisInserts(m)
    BY Steps
    DEF Start, Stop, Signal, Crash, Recv, CommitLands, Skip, Pass, CheckFails, Upsert, UpsertFails,
        DeadLetter, DeadLetterFails, Publish, Evict, vars, store
  <1> QED BY <1>1, <1>2, <1>3, <1>4

(* Offsets stay within the log.                                            *)
LEMMA OffsetsStep ==
    ASSUME TypeOK, [Next]_vars
    PROVE  /\ committed' \in [Partition -> Nat] /\ pending' \in [Partition -> Nat]
           /\ position' \in [Partition -> Nat]
           /\ \A p \in Partition :
                /\ committed'[p] <= Len(log'[p]) /\ pending'[p] <= Len(log'[p])
                /\ position'[p] <= Len(log'[p])
  <1> DEFINE Fit(f) == f \in [Partition -> Nat] /\ \A p \in Partition : f[p] <= Len(log[p])
  <1>1. Fit(committed) /\ Fit(pending) /\ Fit(position)
    BY DEF TypeOK
  <1>2. \A p \in Partition : Len(log[p]) \in Nat /\ Len(log'[p]) \in Nat /\ Len(log[p]) <= Len(log'[p])
    BY LogStep DEF TypeOK
  <1>3. ASSUME NEW p \in Partition, NEW o \in Offsets(p) PROVE Fit([pending EXCEPT ![p] = o + 1])
    BY <1>3, <1>1, Messages
  <1>4. ASSUME NEW p \in Partition, position[p] < Len(log[p])
        PROVE  /\ Fit([position EXCEPT ![p] = @ + 1])
               /\ Fit([pending EXCEPT ![p] = position[p] + 1])
    BY <1>4, <1>1, <1>2
  <1>5. ASSUME NEW p \in Partition PROVE Fit([committed EXCEPT ![p] = pending[p]])
    BY <1>5, <1>1
  <1> HIDE DEF Fit
  <1>6. Fit(committed') /\ Fit(pending') /\ Fit(position')
    <2>1. CASE UNCHANGED <<committed, pending, position>>
      BY <2>1, <1>1
    <2>2. CASE Start
      BY <2>2, <1>1 DEF Start, kafka
    <2>3. CASE Stop \/ Crash
      BY <2>3, <1>1 DEF Stop, Crash
    <2>4. ASSUME NEW p \in Partition, Recv(p) PROVE Fit(committed') /\ Fit(pending') /\ Fit(position')
      BY <2>4, <1>1, <1>4 DEF Recv, CommitRequest
    <2>5. ASSUME NEW p \in Partition, CommitLands(p)
          PROVE  Fit(committed') /\ Fit(pending') /\ Fit(position')
      BY <2>5, <1>1, <1>5 DEF CommitLands, process
    <2>6. ASSUME NEW p \in Partition, NEW o \in Offsets(p), Skip(p, o) \/ Upsert(p, o) \/ DeadLetter(p, o)
          PROVE  Fit(committed') /\ Fit(pending') /\ Fit(position')
      BY <2>6, <1>1, <1>3 DEF Skip, Upsert, DeadLetter, CommitRequest
    <2> QED
      BY Steps, <2>1, <2>2, <2>3, <2>4, <2>5, <2>6
      DEF Signal, Pass, CheckFails, UpsertFails, DeadLetterFails, Publish, AnalysisInserts, Evict,
          vars, kafka, process
  <1> QED BY <1>6, <1>2 DEF Fit

(* The message in hand is one of the log, and there is one exactly while   *)
(* it is processed.                                                        *)
LEMMA CurStep ==
    ASSUME TypeOK, [Next]_vars
    PROVE  /\ pc' \in {"down", "stopped", "recv", "check", "upsert", "deadletter"}
           /\ cur' \in {NoMessage} \cup Produced'
           /\ cur' = NoMessage <=> pc' \in {"down", "stopped", "recv"}
  <1> USE DEF NoMessage
  <1>0. /\ pc \in {"down", "stopped", "recv", "check", "upsert", "deadletter"}
        /\ cur \in {NoMessage} \cup Produced'
        /\ cur = NoMessage <=> pc \in {"down", "stopped", "recv"}
    BY LogStep DEF TypeOK
  <1>1. CASE UNCHANGED <<pc, cur>>
    BY <1>1, <1>0
  <1>2. CASE Start
    BY <1>2 DEF Start
  <1>3. CASE Stop \/ Crash
    BY <1>3, <1>0 DEF Stop, Crash
  <1>4. ASSUME NEW p \in Partition, Recv(p), ~UNCHANGED <<pc, cur>>
        PROVE  cur' \in Produced' /\ cur' # NoMessage /\ pc' = "check"
    <2>1. position[p] \in Offsets(p) /\ cur' = <<p, position[p]>> /\ pc' = "check"
      BY <1>4 DEF Recv, Offsets, TypeOK
    <2>2. cur' \in Produced
      BY <2>1, ProducedIs
    <2> QED BY <2>1, <2>2, LogStep
  <1>5. ASSUME NEW p \in Partition, NEW o \in Offsets(p),
               Skip(p, o) \/ Upsert(p, o) \/ DeadLetter(p, o) \/ DeadLetterFails(p, o)
        PROVE  pc' = "recv" /\ cur' = NoMessage
    BY <1>5 DEF Skip, Upsert, DeadLetter, DeadLetterFails, Done
  <1>6. ASSUME NEW p \in Partition, NEW o \in Offsets(p),
               Pass(p, o) \/ CheckFails(p, o) \/ UpsertFails(p, o)
        PROVE  pc' \in {"upsert", "deadletter"} /\ cur' = cur /\ cur # NoMessage
    BY <1>6 DEF Pass, CheckFails, UpsertFails, InHand
  <1> QED
    BY Steps, <1>0, <1>1, <1>2, <1>3, <1>4, <1>5, <1>6
    DEF Signal, CommitLands, Publish, AnalysisInserts, Evict, vars, process

(* The outcome sets hold produced messages, and never shrink.              *)
LEMMA OutcomeStep ==
    ASSUME TypeOK, [Next]_vars
    PROVE  /\ dlq' \subseteq Produced' /\ skipped' \subseteq Produced' /\ unrouted' \subseteq Produced'
           /\ dlq \subseteq dlq' /\ skipped \subseteq skipped' /\ unrouted \subseteq unrouted'
           /\ restarts' \in Nat /\ faults' \in Nat /\ evicting' \subseteq Id
  <1> DEFINE Good(new) == new \subseteq Produced'
  <1>0. /\ Good(dlq) /\ Good(skipped) /\ Good(unrouted)
        /\ restarts \in Nat /\ faults \in Nat /\ evicting \subseteq Id
    BY LogStep DEF TypeOK
  <1> DEFINE Goal == /\ Good(dlq') /\ Good(skipped') /\ Good(unrouted')
                     /\ dlq \subseteq dlq' /\ skipped \subseteq skipped' /\ unrouted \subseteq unrouted'
                     /\ restarts' \in Nat /\ faults' \in Nat /\ evicting' \subseteq Id
  <1>1. CASE UNCHANGED <<outcome, restarts, faults, evicting>>
    BY <1>1, <1>0 DEF outcome
  <1>2. CASE Signal \/ Crash
    BY <1>2, <1>0 DEF Signal, Crash, outcome, store
  <1>3. ASSUME NEW p \in Partition, NEW o \in Offsets(p), Skip(p, o) \/ DeadLetter(p, o) \/ DeadLetterFails(p, o)
        PROVE  Goal
    <2>1. {cur} \subseteq Produced'
      BY <1>3, LogStep, ProducedIs DEF Skip, DeadLetter, DeadLetterFails, InHand
    <2> QED BY <1>3, <2>1, <1>0 DEF Skip, DeadLetter, DeadLetterFails, store
  <1>4. ASSUME NEW p \in Partition, NEW o \in Offsets(p), CheckFails(p, o) \/ UpsertFails(p, o)
        PROVE  Goal
    BY <1>4, <1>0 DEF CheckFails, UpsertFails, outcome, store
  <1>5. ASSUME NEW p \in Partition, NEW o \in Offsets(p), Upsert(p, o)
        PROVE  Goal
    BY <1>5, <1>0, Messages DEF Upsert, outcome
  <1>6. ASSUME NEW i \in Id, Evict(i) PROVE Goal
    BY <1>6, <1>0 DEF Evict, outcome
  <1>7. Goal
    BY Steps, <1>1, <1>2, <1>3, <1>4, <1>5, <1>6
    DEF Start, Stop, Recv, CommitLands, Pass, Publish, AnalysisInserts, vars, store
  <1> QED BY <1>7

LEMMA TypeStep ==
    ASSUME TypeOK, [Next]_vars
    PROVE  TypeOK'
  <1>1. FlagsOK'
    BY FlagsStep DEF TypeOK
  <1>2. \A p \in Partition : {committed'[p], pending'[p], position'[p]} \subseteq 0..Len(log'[p])
    BY OffsetsStep, LogStep
  <1> QED BY <1>1, <1>2, OffsetsStep, LogStep, CurStep, OutcomeStep, RowsStep DEF TypeOK

LEMMA InitType == Init => TypeOK
  <1> SUFFICES ASSUME Init PROVE TypeOK
    OBVIOUS
  <1>1. FlagsOK
    BY Zenon DEF Init, FlagsOK
  <1>2. \A p \in Partition : {committed[p], pending[p], position[p]} \subseteq 0..Len(log[p])
    BY DEF Init
  <1> QED BY <1>1, <1>2 DEF Init, TypeOK, NoMessage

(* Every variable keeps its type, and no offset leaves the log.            *)
THEOREM TypeCorrect == Spec => []TypeOK
  <1>1. Init => TypeOK
    BY InitType
  <1>2. TypeOK /\ [Next]_vars => TypeOK'
    BY TypeStep
  <1> QED BY <1>1, <1>2, PTL DEF Spec

(* The upsert is monotonic, whatever is redelivered and whoever inserts.   *)
THEOREM RowsOnlyAdvanceCorrect == Spec => RowsOnlyAdvance
  <1>1. TypeOK /\ [Next]_vars =>
          [\A i \in Id : rows[i] # NoRow =>
             /\ rows'[i] # NoRow
             /\ rows'[i] # rows[i] => rows'[i].time > rows[i].time]_vars
    BY RowsStep
  <1> QED BY <1>1, TypeCorrect, PTL DEF Spec, RowsOnlyAdvance

-----------------------------------------------------------------------------
(* The commit protocol.  CommittedIsSettled is not inductive: a commit     *)
(* lands long after it was requested, so the offsets below pending and,    *)
(* while the loop runs, those below position have to be settled too, but   *)
(* for the message in hand, which is above every requested commit.         *)

OffsetsOrdered ==
    /\ \A p \in Partition : committed[p] <= pending[p]
    /\ IF Running THEN \A p \in Partition : pending[p] <= position[p] ELSE pending = committed

HandIsNext ==
    \A p \in Partition : \A o \in Offsets(p) :
        InHand(p, o) => pending[p] <= o /\ position[p] = o + 1

ReadIsSettled ==
    Running => \A p \in Partition : \A o \in Offsets(p) :
                  o < position[p] => InHand(p, o) \/ Settled(p, o)

RequestedIsSettled ==
    \A p \in Partition : \A o \in Offsets(p) : o < pending[p] => Settled(p, o)

CommitInv == TypeOK /\ OffsetsOrdered /\ HandIsNext /\ ReadIsSettled /\ RequestedIsSettled

(* What is settled stays settled.                                          *)
LEMMA SettledStable ==
    ASSUME TypeOK, [Next]_vars, NEW p \in Partition, NEW o \in Offsets(p), Settled(p, o)
    PROVE  Settled(p, o)'
  <1>1. At(p, o)' = At(p, o)
    BY LogStep
  <1>2. At(p, o).id \in Id /\ At(p, o).time \in Int
    BY Messages, StorageAssumption
  <1>3. CASE rows[At(p, o).id] # NoRow /\ rows[At(p, o).id].time >= At(p, o).time
    <2> DEFINE i == At(p, o).id
    <2>1. rows'[i] # NoRow /\ (rows'[i] # rows[i] => rows'[i].time > rows[i].time)
      BY <1>2, <1>3, RowsStep
    <2>2. rows[i] \in Message /\ rows'[i] \in Message
      BY <1>2, <1>3, <2>1, RowsStep DEF TypeOK
    <2>3. rows[i].time \in Int /\ rows'[i].time \in Int
      BY <2>2, StorageAssumption
    <2>4. rows'[i].time >= At(p, o).time
      BY <1>2, <1>3, <2>1, <2>3
    <2> QED BY <1>1, <2>1, <2>4 DEF Settled, Handled
  <1>4. CASE At(p, o).kind = "tombstone" \/ <<p, o>> \in dlq \cup skipped \cup unrouted
    BY <1>4, <1>1, OutcomeStep DEF Settled, Handled
  <1> QED BY <1>3, <1>4 DEF Settled, Handled

(* The message in hand is settled when the loop lets go of it.             *)
LEMMA HandSettled ==
    ASSUME TypeOK, [Next]_vars, NEW p \in Partition, NEW o \in Offsets(p),
           Skip(p, o) \/ Upsert(p, o) \/ DeadLetter(p, o) \/ DeadLetterFails(p, o)
    PROVE  Settled(p, o)'
  <1>1. At(p, o)' = At(p, o)
    BY LogStep
  <1>2. CASE Skip(p, o)
    BY <1>2 DEF Skip, InHand, Settled, Handled
  <1>3. CASE Upsert(p, o)
    <2>1. rows' = Written(At(p, o))
      BY <1>3 DEF Upsert
    <2>2. rows'[At(p, o).id] # NoRow /\ rows'[At(p, o).id].time >= At(p, o).time
      BY <2>1, Messages, WrittenRows
    <2> QED BY <1>1, <2>2 DEF Settled, Handled
  <1>4. CASE DeadLetter(p, o)
    BY <1>4 DEF DeadLetter, InHand, Settled, Handled
  <1>5. CASE DeadLetterFails(p, o)
    BY <1>5 DEF DeadLetterFails, InHand, Settled, Handled
  <1> QED BY <1>2, <1>3, <1>4, <1>5

(* A record published in this step is above every offset of the consumer.  *)
LEMMA NewOffsets ==
    ASSUME TypeOK, [Next]_vars, NEW p \in Partition, NEW o \in Offsets(p)',
           o < position[p] \/ o < pending[p] \/ o < committed[p] \/ InHand(p, o)
    PROVE  o \in Offsets(p)
  <1>1. /\ committed[p] \in 0..Len(log[p]) /\ pending[p] \in 0..Len(log[p])
        /\ position[p] \in 0..Len(log[p])
        /\ Len(log[p]) \in Nat
    BY DEF TypeOK
  <1>2. o \in Nat
    BY LogStep DEF Offsets
  <1>3. CASE InHand(p, o)
    BY <1>3, ProducedIs DEF InHand, TypeOK, NoMessage
  <1> QED BY <1>1, <1>2, <1>3 DEF Offsets

(* The cases of a step as the commit protocol sees it.                     *)
LEMMA CommitSteps ==
    ASSUME TypeOK, [Next]_vars
    PROVE  \/ Start
           \/ Stop \/ Crash
           \/ \E p \in Partition : Recv(p)
           \/ \E p \in Partition : CommitLands(p)
           \/ \E p \in Partition : \E o \in Offsets(p) : Skip(p, o) \/ Upsert(p, o) \/ DeadLetter(p, o)
           \/ \E p \in Partition : \E o \in Offsets(p) : DeadLetterFails(p, o)
           \/ /\ UNCHANGED <<committed, pending, position, cur>>
              /\ pc' = pc \/ (pc' \in {"upsert", "deadletter"} /\ pc \in {"check", "upsert"})
  BY Steps
  DEF Signal, Pass, CheckFails, UpsertFails, Publish, AnalysisInserts, Evict, vars, kafka, process

LEMMA OrderedStep ==
    ASSUME CommitInv, [Next]_vars
    PROVE  OffsetsOrdered' /\ HandIsNext'
  <1> USE DEF CommitInv, OffsetsOrdered, Running
  <1>t. /\ committed \in [Partition -> Nat] /\ pending \in [Partition -> Nat]
        /\ position \in [Partition -> Nat]
    BY DEF TypeOK
  <1>c. cur = NoMessage => \A p, o : ~InHand(p, o)
    BY DEF InHand, NoMessage
  <1>c2. cur' = NoMessage => \A p, o : ~InHand(p, o)'
    BY DEF InHand, NoMessage
  <1>1. CASE Start
    <2>1. cur' = NoMessage /\ position' = committed /\ UNCHANGED <<committed, pending>> /\ pc' = "recv"
      BY <1>1 DEF Start, kafka
    <2>2. pending = committed
      BY <1>1 DEF Start
    <2> QED BY <2>1, <2>2, <1>c2, <1>t DEF HandIsNext
  <1>2. CASE Stop \/ Crash
    <2>1. cur' = NoMessage /\ pending' = committed /\ committed' = committed /\ pc' \in {"down", "stopped"}
      BY <1>2 DEF Stop, Crash, TypeOK
    <2> QED BY <2>1, <1>c2, <1>t DEF HandIsNext
  <1>3. ASSUME NEW p \in Partition, Recv(p)
        PROVE  OffsetsOrdered' /\ HandIsNext'
    <2>1. /\ cur = NoMessage /\ pc = "recv" /\ committed' = committed
          /\ position' = [position EXCEPT ![p] = @ + 1]
          /\ \/ pending' = [pending EXCEPT ![p] = position[p] + 1] /\ cur' = cur /\ pc' = pc
             \/ pending' = pending /\ cur' = <<p, position[p]>> /\ pc' = "check"
      BY <1>3 DEF Recv, CommitRequest, TypeOK
    <2>2. \A q \in Partition : committed[q] <= pending[q] /\ pending[q] <= position[q]
      BY <2>1
    <2>3. OffsetsOrdered'
      BY <2>1, <2>2, <1>t
    <2>4. HandIsNext'
      <3> SUFFICES ASSUME NEW q \in Partition, NEW o \in Offsets(q)', InHand(q, o)'
                   PROVE  pending'[q] <= o /\ position'[q] = o + 1
        BY DEF HandIsNext
      <3>1. cur' = <<p, position[p]>> /\ pending' = pending
        BY <2>1, <1>c2 DEF InHand
      <3>2. q = p /\ o = position[p]
        BY <3>1 DEF InHand
      <3> QED BY <3>1, <3>2, <2>1, <2>2, <1>t
    <2> QED BY <2>3, <2>4
  <1>4. ASSUME NEW p \in Partition, CommitLands(p)
        PROVE  OffsetsOrdered' /\ HandIsNext'
    <2>1. /\ UNCHANGED <<pending, position, cur, pc>> /\ pending # committed
          /\ committed' = [committed EXCEPT ![p] = pending[p]]
      BY <1>4 DEF CommitLands, process
    <2>2. HandIsNext'
      BY <2>1, NewOffsets DEF HandIsNext, InHand
    <2> QED BY <2>1, <2>2, <1>t
  <1>5. ASSUME NEW p \in Partition, NEW o \in Offsets(p), Skip(p, o) \/ Upsert(p, o) \/ DeadLetter(p, o)
        PROVE  OffsetsOrdered' /\ HandIsNext'
    <2>1. /\ pending' = [pending EXCEPT ![p] = o + 1] /\ UNCHANGED <<committed, position>>
          /\ cur' = NoMessage /\ pc' = "recv" /\ InHand(p, o)
          /\ pc \in {"check", "upsert", "deadletter"}
      BY <1>5 DEF Skip, Upsert, DeadLetter, CommitRequest, Done
    <2>2. pending[p] <= o /\ position[p] = o + 1 /\ o \in Nat
      BY <2>1, Messages DEF HandIsNext
    <2>3. \A q \in Partition : committed[q] <= pending[q] /\ pending[q] <= position[q]
      BY <2>1
    <2> QED BY <2>1, <2>2, <2>3, <1>c2, <1>t DEF HandIsNext
  <1>6. ASSUME NEW p \in Partition, NEW o \in Offsets(p), DeadLetterFails(p, o)
        PROVE  OffsetsOrdered' /\ HandIsNext'
    <2>1. /\ UNCHANGED <<committed, pending, position>> /\ cur' = NoMessage /\ pc' = "recv"
          /\ pc = "deadletter"
      BY <1>6 DEF DeadLetterFails, Done, kafka
    <2> QED BY <2>1, <1>c2, <1>t DEF HandIsNext
  <1>7. CASE /\ UNCHANGED <<committed, pending, position, cur>>
             /\ pc' = pc \/ (pc' \in {"upsert", "deadletter"} /\ pc \in {"check", "upsert"})
    <2>1. HandIsNext'
      BY <1>7, NewOffsets DEF HandIsNext, InHand
    <2> QED BY <1>7, <2>1
  <1> QED BY CommitSteps, <1>1, <1>2, <1>3, <1>4, <1>5, <1>6, <1>7

LEMMA SettledStep ==
    ASSUME CommitInv, [Next]_vars
    PROVE  ReadIsSettled' /\ RequestedIsSettled'
  <1> USE DEF CommitInv
  <1>t. /\ committed \in [Partition -> Nat] /\ pending \in [Partition -> Nat]
        /\ position \in [Partition -> Nat]
    BY DEF TypeOK
  <1>n. \A q \in Partition : \A o \in Offsets(q)' : o \in Nat
    BY LogStep DEF Offsets
  <1>c. cur = NoMessage => \A p, o : ~InHand(p, o)
    BY DEF InHand, NoMessage
  \* The two goals, for one offset.
  <1> SUFFICES ASSUME NEW q \in Partition, NEW r \in Offsets(q)'
               PROVE  /\ Running' /\ r < position'[q] => InHand(q, r)' \/ Settled(q, r)'
                      /\ r < pending'[q] => Settled(q, r)'
    BY DEF ReadIsSettled, RequestedIsSettled
  <1>s. r \in Offsets(q) /\ Settled(q, r) => Settled(q, r)'
    BY SettledStable
  <1>p. r < pending[q] => Settled(q, r)'
    BY <1>s, NewOffsets DEF RequestedIsSettled
  <1>k. r < committed[q] => Settled(q, r)'
    BY <1>p, <1>t, <1>n DEF OffsetsOrdered
  <1>q. Running /\ r < position[q] => r \in Offsets(q) /\ (InHand(q, r) \/ Settled(q, r)')
    BY <1>s, NewOffsets DEF ReadIsSettled
  <1>1. CASE Start
    BY <1>1, <1>k, <1>p DEF Start, kafka
  <1>2. CASE Stop \/ Crash
    BY <1>2, <1>k DEF Stop, Crash, Running
  <1>3. ASSUME NEW p \in Partition, Recv(p)
        PROVE  /\ Running' /\ r < position'[q] => InHand(q, r)' \/ Settled(q, r)'
               /\ r < pending'[q] => Settled(q, r)'
    <2>1. /\ cur = NoMessage /\ pc = "recv"
          /\ position' = [position EXCEPT ![p] = @ + 1] /\ position[p] \in Offsets(p)
      BY <1>3, <1>t DEF Recv, TypeOK, Offsets
    <2>2. r < position[q] => Settled(q, r)'
      BY <2>1, <1>q, <1>c DEF Running
    <2>3. CASE At(p, position[p]).kind = "tombstone"
      <3>1. pending' = [pending EXCEPT ![p] = position[p] + 1]
        BY <1>3, <2>3 DEF Recv, CommitRequest
      <3>2. q = p /\ r = position[p] => Settled(q, r)'
        BY <2>3, <2>1, <1>s DEF Settled, Handled
      <3>3. r < position'[q] => Settled(q, r)'
        BY <2>1, <2>2, <3>2, <1>t, <1>n
      <3>4. r < pending'[q] => Settled(q, r)'
        BY <3>1, <3>2, <2>2, <1>p, <1>t, <1>n
      <3> QED BY <3>3, <3>4
    <2>4. CASE At(p, position[p]).kind # "tombstone"
      <3>1. pending' = pending /\ cur' = <<p, position[p]>>
        BY <1>3, <2>4 DEF Recv
      <3>2. q = p /\ r = position[p] => InHand(q, r)'
        BY <3>1 DEF InHand
      <3> QED BY <2>1, <2>2, <3>1, <3>2, <1>p, <1>t, <1>n
    <2> QED BY <2>3, <2>4
  <1>4. ASSUME NEW p \in Partition, CommitLands(p)
        PROVE  /\ Running' /\ r < position'[q] => InHand(q, r)' \/ Settled(q, r)'
               /\ r < pending'[q] => Settled(q, r)'
    BY <1>4, <1>p, <1>q DEF CommitLands, process, Running, InHand
  <1>5. ASSUME NEW p \in Partition, NEW o \in Offsets(p),
               Skip(p, o) \/ Upsert(p, o) \/ DeadLetter(p, o) \/ DeadLetterFails(p, o)
        PROVE  /\ Running' /\ r < position'[q] => InHand(q, r)' \/ Settled(q, r)'
               /\ r < pending'[q] => Settled(q, r)'
    <2>1. /\ InHand(p, o) /\ position' = position /\ Running
          /\ pending' = pending \/ pending' = [pending EXCEPT ![p] = o + 1]
      BY <1>5 DEF Skip, Upsert, DeadLetter, DeadLetterFails, CommitRequest, kafka, Running
    <2>2. q = p /\ r = o => Settled(q, r)'
      BY <1>5, HandSettled
    <2>3. InHand(q, r) => q = p /\ r = o
      BY <2>1 DEF InHand
    <2>4. r < position[q] => Settled(q, r)'
      BY <2>1, <2>2, <2>3, <1>q
    <2>5. o \in Nat /\ position[p] = o + 1
      BY <2>1, Messages DEF HandIsNext
    <2> QED BY <2>1, <2>4, <2>5, <1>p, <1>t, <1>n
  <1>6. CASE /\ UNCHANGED <<committed, pending, position, cur>>
             /\ pc' = pc \/ (pc' \in {"upsert", "deadletter"} /\ pc \in {"check", "upsert"})
    BY <1>6, <1>p, <1>q DEF Running, InHand
  <1> QED BY CommitSteps, <1>1, <1>2, <1>3, <1>4, <1>5, <1>6

LEMMA InitCommit == Init => CommitInv
  <1> SUFFICES ASSUME Init PROVE CommitInv
    OBVIOUS
  <1>1. \A p \in Partition : Offsets(p) = {}
    BY DEF Init, Offsets
  <1> QED BY <1>1, InitType
          DEF Init, CommitInv, OffsetsOrdered, HandIsNext, ReadIsSettled, RequestedIsSettled, Running

LEMMA CommitInvariant == Spec => []CommitInv
  <1>1. Init => CommitInv
    BY InitCommit
  <1>2. CommitInv /\ [Next]_vars => CommitInv'
    BY TypeStep, OrderedStep, SettledStep DEF CommitInv
  <1> QED BY <1>1, <1>2, PTL DEF Spec

(* No committed offset covers a message that vanished.                     *)
THEOREM CommittedIsSettledCorrect == Spec => []CommittedIsSettled
  <1>1. CommitInv => CommittedIsSettled
    BY NewOffsets DEF CommitInv, OffsetsOrdered, RequestedIsSettled, CommittedIsSettled, TypeOK, Offsets
  <1> QED BY <1>1, CommitInvariant, PTL

-----------------------------------------------------------------------------
(* The refinement of AtLeastOnce: a published message is an appended       *)
(* record, a landed commit is a commit, and everything else settles        *)
(* records or stutters.                                                    *)

SettledSet == {r \in Produced : Settled(r[1], r[2])}

LEMMA SettledSetIs ==
    ASSUME NEW p, NEW o
    PROVE  <<p, o>> \in SettledSet <=> p \in Partition /\ o \in Offsets(p) /\ Settled(p, o)
  BY ProducedIs DEF SettledSet

LEMMA SettledSetGrows ==
    ASSUME TypeOK, [Next]_vars
    PROVE  SettledSet \subseteq SettledSet'
  <1> SUFFICES ASSUME NEW r \in SettledSet PROVE r \in SettledSet'
    OBVIOUS
  <1>0. PICK p \in Partition : \E o \in Offsets(p) : r = <<p, o>> /\ Settled(p, o)
    BY DEF SettledSet, Produced
  <1>1. PICK o \in Offsets(p) : r = <<p, o>> /\ Settled(p, o)
    BY <1>0
  <1>2. Settled(p, o)'
    BY <1>1, SettledStable
  <1>3. <<p, o>> \in Produced'
    BY <1>1, LogStep DEF Produced
  <1> QED BY <1>1, <1>2, <1>3 DEF SettledSet

LEMMA InitImplements == Init => ALO!Init
  <1> SUFFICES ASSUME Init PROVE ALO!Init
    OBVIOUS
  <1>1. \A p \in Partition : Len(log[p]) = 0 /\ Offsets(p) = {}
    BY DEF Init, Offsets
  <1>2. Produced = {}
    BY <1>1 DEF Produced
  <1> QED BY <1>1, <1>2 DEF Init, ALO!Init

LEMMA StepImplements ==
    ASSUME CommitInv, [Next]_vars
    PROVE  [ALO!Next]_(ALO!vars)
  <1> DEFINE len == [p \in Partition |-> Len(log[p])]
  <1>t. TypeOK /\ committed \in [Partition -> Nat] /\ log \in [Partition -> Seq(Message)]
    BY DEF CommitInv, TypeOK
  <1>g. SettledSet \subseteq SettledSet'
    BY <1>t, SettledSetGrows
  <1>r. SettledSet \subseteq ALO!Records /\ SettledSet' \subseteq ALO!Records'
    BY DEF SettledSet, Produced, Offsets, ALO!Records
  <1>1. CASE UNCHANGED <<log, committed>>
    <2>1. SettledSet' \subseteq ALO!Records
      BY <1>1, <1>r DEF ALO!Records
    <2> QED BY <1>1, <1>g, <2>1 DEF ALO!Next, ALO!Settle, ALO!vars, SettledSet
  <1>2. ASSUME NEW m \in Message, Publish(m) PROVE ALO!Next
    <2>1. PartitionOf[m.id] \in Partition
      BY StorageAssumption
    <2>2. log' = [log EXCEPT ![PartitionOf[m.id]] = Append(@, m)] /\ committed' = committed
      BY <1>2, Zenon DEF Publish
    <2>3. \A p \in Partition : Len(log'[p]) = IF p = PartitionOf[m.id] THEN Len(log[p]) + 1 ELSE Len(log[p])
      <3> SUFFICES ASSUME NEW p \in Partition
                   PROVE  Len(log'[p]) = IF p = PartitionOf[m.id] THEN Len(log[p]) + 1 ELSE Len(log[p])
        OBVIOUS
      <3>1. log[p] \in Seq(Message)
        BY <1>t
      <3>2. log'[p] = IF p = PartitionOf[m.id] THEN Append(log[p], m) ELSE log[p]
        BY <2>2, <1>t
      <3>3. Len(Append(log[p], m)) = Len(log[p]) + 1
        BY <3>1
      <3> QED BY <3>2, <3>3
    <2>4. len' = [len EXCEPT ![PartitionOf[m.id]] = @ + 1]
      BY <2>3
    <2> QED BY <2>1, <2>2, <2>4, <1>g, <1>r DEF ALO!Next, ALO!AppendRecord, SettledSet
  <1>3. ASSUME NEW p \in Partition, CommitLands(p) PROVE ALO!Next
    <2>1. /\ UNCHANGED <<log, rows, outcome>> /\ pending[p] # committed[p]
          /\ committed' = [committed EXCEPT ![p] = pending[p]]
      BY <1>3, Zenon DEF CommitLands, store
    <2>2. pending[p] \in (committed[p] + 1)..Len(log[p])
      BY <2>1 DEF CommitInv, TypeOK, OffsetsOrdered
    <2>3. ASSUME NEW o \in 0..(pending[p] - 1) PROVE <<p, o>> \in SettledSet
      <3>1. o \in Offsets(p) /\ o < pending[p]
        BY <2>2, <1>t DEF Offsets, TypeOK
      <3> QED BY <3>1, SettledSetIs DEF CommitInv, RequestedIsSettled
    <2>4. len' = len /\ SettledSet' = SettledSet
      BY <2>1 DEF SettledSet, Produced, Offsets, Settled, Handled, At, outcome
    <2>5. len[p] = Len(log[p])
      OBVIOUS
    <2> QED BY <2>1, <2>2, <2>3, <2>4, <2>5 DEF ALO!Next, ALO!Commit, SettledSet
  <1>4. \/ UNCHANGED <<log, committed>>
        \/ \E m \in Message : Publish(m)
        \/ \E p \in Partition : CommitLands(p)
    BY Steps
    DEF Start, Stop, Signal, Crash, Recv, Skip, Pass, CheckFails, Upsert, UpsertFails,
        DeadLetter, DeadLetterFails, AnalysisInserts, Evict, vars, kafka
  <1> QED BY <1>1, <1>2, <1>3, <1>4

(* The storage service implements AtLeastOnce.                             *)
THEOREM ImplementsAtLeastOnceCorrect == Spec => ImplementsAtLeastOnce
  <1>1. Init => ALO!Init
    BY InitImplements
  <1>2. CommitInv /\ [Next]_vars => [ALO!Next]_(ALO!vars)
    BY StepImplements
  <1> QED BY <1>1, <1>2, CommitInvariant, PTL DEF Spec, ImplementsAtLeastOnce, ALO!Spec

-----------------------------------------------------------------------------
(* Duplicates: SkippedIsOnRecord needs no strengthening but the types, for *)
(* rows stay and only advance, and a message keeps its offset.             *)

OnRecord(m) ==
    \E i \in Stored : NetworkOf[i] # NetworkOf[m.id] /\ rows[i].time >= m.time - Window

LEMMA OnRecordStable ==
    ASSUME TypeOK, [Next]_vars, NEW m \in Message, OnRecord(m)
    PROVE  OnRecord(m)'
  <1>1. PICK i \in Stored : NetworkOf[i] # NetworkOf[m.id] /\ rows[i].time >= m.time - Window
    BY DEF OnRecord
  <1>2. i \in Id /\ rows[i] # NoRow /\ rows[i] \in Message
    BY DEF Stored, TypeOK
  <1>3. rows'[i] # NoRow /\ rows'[i] \in Message /\ (rows'[i] # rows[i] => rows'[i].time > rows[i].time)
    BY <1>2, RowsStep
  <1>4. rows[i].time \in Int /\ rows'[i].time \in Int /\ m.time \in Int /\ Window \in Int
    BY <1>2, <1>3, StorageAssumption
  <1>5. i \in Stored' /\ rows'[i].time >= m.time - Window
    BY <1>1, <1>2, <1>3, <1>4 DEF Stored
  <1> QED BY <1>1, <1>5 DEF OnRecord

LEMMA SkipIsOnRecord ==
    ASSUME TypeOK, NEW p \in Partition, NEW o \in Offsets(p), Skip(p, o)
    PROVE  OnRecord(At(p, o))
  <1>1. PICK i \in Stored : NetworkOf[i] # NetworkOf[At(p, o).id] /\ Near(At(p, o), rows[i])
    BY DEF Skip, Matches
  <1>2. At(p, o).time \in Int /\ rows[i].time \in Int /\ Window \in Int
    BY Messages, StorageAssumption DEF Stored, TypeOK
  <1>3. rows[i].time >= At(p, o).time - Window
    BY <1>1, <1>2 DEF Near
  <1> QED BY <1>1, <1>3 DEF OnRecord

LEMMA SkippedStep ==
    ASSUME TypeOK, SkippedIsOnRecord, [Next]_vars
    PROVE  SkippedIsOnRecord'
  <1>1. ASSUME NEW p \in Partition, NEW o \in Offsets(p), OnRecord(At(p, o))
        PROVE  OnRecord(At(p, o))'
    <2>1. PICK m \in Message : m = At(p, o)
      BY Messages
    <2>2. OnRecord(m)'
      BY <1>1, <2>1, OnRecordStable
    <2>3. At(p, o)' = m
      BY <2>1, LogStep
    <2> QED BY <2>2, <2>3 DEF OnRecord
  <1>2. \/ skipped' = skipped
        \/ \E p \in Partition : \E o \in Offsets(p) : Skip(p, o)
    BY Steps
    DEF Start, Stop, Signal, Crash, Recv, CommitLands, Pass, CheckFails, Upsert, UpsertFails,
        DeadLetter, DeadLetterFails, Publish, AnalysisInserts, Evict, vars, outcome
  <1>3. ASSUME NEW r \in skipped PROVE OnRecord(At(r[1], r[2]))'
    <2>1. r \in Produced /\ OnRecord(At(r[1], r[2]))
      BY <1>3 DEF TypeOK, SkippedIsOnRecord, OnRecord
    <2>2. r[1] \in Partition /\ r[2] \in Offsets(r[1])
      BY <2>1 DEF Produced
    <2> QED BY <2>1, <2>2, <1>1
  <1>4. ASSUME NEW p \in Partition, NEW o \in Offsets(p), Skip(p, o)
        PROVE  \A r \in skipped' : OnRecord(At(r[1], r[2]))'
    <2>1. skipped' = skipped \cup {<<p, o>>}
      BY <1>4 DEF Skip, InHand
    <2>2. OnRecord(At(p, o))'
      BY <1>1, <1>4, SkipIsOnRecord
    <2> QED BY <1>3, <2>1, <2>2
  <1> QED BY <1>2, <1>3, <1>4 DEF SkippedIsOnRecord, OnRecord

(* A message dropped as a duplicate leaves the earthquake on record, over  *)
(* every later upsert of any service (main.rs, db.rs).                     *)
THEOREM SkippedIsOnRecordCorrect == Spec => []SkippedIsOnRecord
  <1>1. Init => SkippedIsOnRecord
    BY DEF Init, SkippedIsOnRecord
  <1>2. TypeOK /\ SkippedIsOnRecord /\ [Next]_vars => SkippedIsOnRecord'
    BY SkippedStep
  <1> QED BY <1>1, <1>2, TypeCorrect, PTL DEF Spec

-----------------------------------------------------------------------------
(* The records (module Records).  Every record that validation accepts     *)
(* fits the columns of the table, and the live and the historical parsers  *)
(* read the same numbers, whatever the upstream records are.               *)


\* A magnitude in NUMERIC(4, 2) has moved by 0.005 at most, and not past -2 or 10.
LEMMA MagnitudeStays ==
    ASSUME NEW x \in Int, -20000 <= x, x <= 100000
    PROVE  RoundTo(x, 100) \in Int /\ -20000 <= RoundTo(x, 100) /\ RoundTo(x, 100) <= 100000
  <1>1. \A a \in Int : 200 * (a \div 200) <= a /\ a < 200 * (a \div 200) + 200 /\ a \div 200 \in Int
    OBVIOUS
  <1>2. CASE x >= 0
    <2> DEFINE q == (2 * x + 100) \div 200
    <2>1. RoundTo(x, 100) = 100 * q
      BY <1>2 DEF RoundTo
    <2>2. q \in Int /\ 200 * q <= 2 * x + 100 /\ 2 * x + 100 < 200 * q + 200
      BY <1>1
    <2> HIDE DEF q
    <2>3. 0 <= 100 * q /\ 100 * q <= 100000
      BY <1>2, <2>2
    <2> QED
      BY <2>1, <2>2, <2>3
  <1>3. CASE x < 0
    <2> DEFINE q == (100 - 2 * x) \div 200
    <2>1. RoundTo(x, 100) = -(100 * q)
      BY <1>3 DEF RoundTo
    <2>2. q \in Int /\ 200 * q <= 100 - 2 * x /\ 100 - 2 * x < 200 * q + 200
      BY <1>1
    <2> HIDE DEF q
    <2>3. 0 <= 100 * q /\ 100 * q <= 20000
      BY <1>3, <2>2
    <2> QED
      BY <2>1, <2>2, <2>3
  <1> QED
    BY <1>2, <1>3

\* A depth in NUMERIC(6, 3) has moved by half a metre at most, and not past -5
\* or 800.
LEMMA DepthStays ==
    ASSUME NEW x \in Int, -50000 <= x, x <= 8000000
    PROVE  RoundTo(x, 10) \in Int /\ -50000 <= RoundTo(x, 10) /\ RoundTo(x, 10) <= 8000000
  <1>1. \A a \in Int : a \div 20 \in Int /\ 20 * (a \div 20) <= a /\ a < 20 * (a \div 20) + 20
    OBVIOUS
  <1>2. CASE x >= 0
    <2> DEFINE q == (2 * x + 10) \div 20
    <2>1. RoundTo(x, 10) = 10 * q
      BY <1>2 DEF RoundTo
    <2>2. q \in Int /\ 20 * q <= 2 * x + 10 /\ 2 * x + 10 < 20 * q + 20
      BY <1>1
    <2> HIDE DEF q
    <2>3. 0 <= 10 * q /\ 10 * q <= 8000000
      BY <1>2, <2>2
    <2> QED
      BY <2>1, <2>2, <2>3
  <1>3. CASE x < 0
    <2> DEFINE q == (10 - 2 * x) \div 20
    <2>1. RoundTo(x, 10) = -(10 * q)
      BY <1>3 DEF RoundTo
    <2>2. q \in Int /\ 20 * q <= 10 - 2 * x /\ 10 - 2 * x < 20 * q + 20
      BY <1>1
    <2> HIDE DEF q
    <2>3. 0 <= 10 * q /\ 10 * q <= 50000
      BY <1>3, <2>2
    <2> QED
      BY <2>1, <2>2, <2>3
  <1> QED
    BY <1>2, <1>3

\* An interval by its ends.
LEMMA Ends ==
    ASSUME NEW lo, NEW hi, NEW x
    PROVE  x \in lo..hi <=> x \in Int /\ lo <= x /\ x <= hi
  OBVIOUS

\* A decoded record says what the encoded one said.
LEMMA DecodedSays ==
    ASSUME NEW e
    PROVE  LET d == Decoded(Encoded(e))
           IN  /\ d.id = e.id /\ d.magType = e.magType /\ d.quality = e.quality
               /\ d.lat = e.lat /\ d.lon = e.lon /\ d.mag = e.mag /\ d.time = e.time
               /\ d.depth = e.depth /\ d.place = e.place /\ d.nul = e.nul
  <1>1. \A x : Taken(Nullable(x)) = x
    BY DEF Taken, Nullable
  <1> QED
    BY <1>1 DEF Decoded, Encoded

\* Every accepted record is built by Parsed out of usable fields, and only
\* EMSC and AFAD look at the sign of a depth.
LEMMA ParsedFrom ==
    ASSUME NEW s \in Source, NEW e \in Accepted(s)
    PROVE  \E f \in Feature : \E q \in {"A", "B", "C", "D"} : \E d :
              /\ e = Parsed(f, d, q)
              /\ Usable(f)
              /\ d = IF s \in {"EMSC", "AFAD"} THEN BelowSurface(f) ELSE AnyDepth(f)
  <1>1. PICK f \in Feature : e = ParseOf(s, f) /\ e.ok
    BY DEF Accepted
  <1>2. Rejected.ok = FALSE
    BY DEF Rejected
  <1>3. CASE s = "USGS"
    BY <1>1, <1>2, <1>3 DEF ParseOf, ParseUsgs
  <1>4. CASE s = "EMSC"
    BY <1>1, <1>2, <1>4 DEF ParseOf, ParseEmsc
  <1>5. CASE s = "AFAD"
    BY <1>1, <1>2, <1>5 DEF ParseOf, ParseAfad
  <1>6. CASE s = "FDSN"
    BY <1>1, <1>2, <1>6 DEF ParseOf, ParseFdsn
  <1>7. CASE s = "FDSNText"
    BY <1>1, <1>2, <1>7 DEF ParseOf, ParseFdsnText
  <1> QED
    BY <1>3, <1>4, <1>5, <1>6, <1>7 DEF Source

\* And storage reads out of its message what the parser put into it.
LEMMA ReadFrom ==
    ASSUME NEW s \in Source, NEW e \in Record(s)
    PROVE  \E f \in Feature : \E q \in {"A", "B", "C", "D"} : \E d :
              /\ e.id = f.id /\ e.mag = f.mag /\ e.lat = f.lat /\ e.lon = f.lon
              /\ e.time = f.time /\ e.depth = d /\ e.magType = ScaleOf(f)
              /\ e.place = f.place /\ e.quality = q
              /\ Usable(f)
              /\ d = IF s \in {"EMSC", "AFAD"} THEN BelowSurface(f) ELSE AnyDepth(f)
  <1>1. PICK a \in Accepted(s) : e = Decoded(Encoded(a))
    BY DEF Record
  <1>2. PICK f \in Feature : \E q \in {"A", "B", "C", "D"} : \E d :
              /\ a = Parsed(f, d, q)
              /\ Usable(f)
              /\ d = IF s \in {"EMSC", "AFAD"} THEN BelowSurface(f) ELSE AnyDepth(f)
    BY ParsedFrom
  <1>3. PICK q \in {"A", "B", "C", "D"} : \E d :
              /\ a = Parsed(f, d, q)
              /\ Usable(f)
              /\ d = IF s \in {"EMSC", "AFAD"} THEN BelowSurface(f) ELSE AnyDepth(f)
    BY <1>2
  <1>4. PICK d :
              /\ a = Parsed(f, d, q)
              /\ Usable(f)
              /\ d = IF s \in {"EMSC", "AFAD"} THEN BelowSurface(f) ELSE AnyDepth(f)
    BY <1>3
  <1>5. /\ a.id = f.id /\ a.mag = f.mag /\ a.lat = f.lat /\ a.lon = f.lon /\ a.time = f.time
        /\ a.magType = ScaleOf(f) /\ a.place = f.place /\ a.quality = q /\ a.depth = d
    BY <1>4 DEF Parsed
  <1>6. /\ e.id = a.id /\ e.mag = a.mag /\ e.lat = a.lat /\ e.lon = a.lon /\ e.time = a.time
        /\ e.magType = a.magType /\ e.place = a.place /\ e.quality = a.quality /\ e.depth = a.depth
    BY <1>1, DecodedSays
  <1> QED
    BY <1>4, <1>5, <1>6

\* What all parsers make sure of: an identifier, a finite magnitude and time.
LEMMA ParsedIsTyped ==
    ASSUME NEW s \in Source, NEW e \in Record(s)
    PROVE  /\ e.mag \in Int /\ e.time \in Int
           /\ e.id.chars \in Int /\ e.id.bytes \in Int /\ e.id.chars <= e.id.bytes
           /\ e.magType.chars \in Int /\ e.magType.bytes \in Int
           /\ e.magType.chars <= e.magType.bytes
           /\ e.place # Absent => e.place.chars \in Int
  <1>1. PICK f \in Feature : /\ e.mag = f.mag /\ e.time = f.time /\ e.id = f.id
                            /\ e.magType = ScaleOf(f) /\ e.place = f.place /\ Usable(f)
    BY ReadFrom
  <1>2. e.mag = f.mag /\ e.time = f.time /\ e.id = f.id /\ e.magType = ScaleOf(f)
        /\ e.place = f.place
    BY <1>1
  <1>3. f.id \in Text /\ f.mag \in Int /\ f.time \in Int
    BY <1>1, RecordsAssumption DEF RecordsAssumption, Usable, Finite
  <1>4. \/ ScaleOf(f) \in Text
        \/ ScaleOf(f) = Unknown
    BY RecordsAssumption DEF RecordsAssumption, ScaleOf
  <1>5. f.place \in Text \cup {Absent}
    BY RecordsAssumption DEF RecordsAssumption
  <1>6. MaxText \in Nat
    BY RecordsAssumption DEF RecordsAssumption
  <1>7. \A t \in Text : t.chars \in Int /\ t.bytes \in Int /\ t.chars <= t.bytes
    BY <1>6 DEF Text
  <1>8. Unknown.chars \in Int /\ Unknown.bytes \in Int /\ Unknown.chars <= Unknown.bytes
    BY DEF Unknown
  <1> QED
    BY <1>2, <1>3, <1>4, <1>5, <1>7, <1>8

\* No record that RawFields::validate accepts is refused by the table for a
\* number that rounding moves, its quality, its identifier or its scale
\* (model.rs and 02_schema.sql).
THEOREM ValidatedFitsTableCorrect == ValidatedFitsTable
  <1> SUFFICES ASSUME NEW s \in Source, NEW e \in Record(s), Validated(e),
                      ~e.nul, ~(e.time < -4712), ~(e.place # Absent /\ e.place.chars > 512)
               PROVE  TableAccepts(e)
    BY DEF ValidatedFitsTable
  <1>1. e.mag \in Int /\ e.time \in Int
    BY ParsedIsTyped
  <1>2. RoundTo(e.mag, 100) \in -2 * One..10 * One
    <2>1. -2 * One = -20000 /\ 10 * One = 100000
      BY DEF One
    <2>2. e.mag \in Int /\ -20000 <= e.mag /\ e.mag <= 100000
      <3>1. e.mag \in -2 * One..10 * One
        BY DEF Validated
      <3> QED
        BY <2>1, <3>1, Ends
    <2>3. RoundTo(e.mag, 100) \in Int /\ -20000 <= RoundTo(e.mag, 100) /\ RoundTo(e.mag, 100) <= 100000
      BY <2>2, MagnitudeStays
    <2> QED
      BY <2>1, <2>3, Ends
  <1>3. e.depth # Absent => RoundTo(e.depth, 10) \in -5 * One..800 * One
    <2> SUFFICES ASSUME e.depth # Absent
                 PROVE  RoundTo(e.depth, 10) \in -5 * One..800 * One
      OBVIOUS
    <2>1. -5 * One = -50000 /\ 800 * One = 8000000
      BY DEF One
    <2>2. e.depth \in Int /\ -50000 <= e.depth /\ e.depth <= 8000000
      <3>1. e.depth \in -5 * One..800 * One
        BY DEF Validated
      <3> QED
        BY <2>1, <3>1, Ends
    <2>3. RoundTo(e.depth, 10) \in Int /\ -50000 <= RoundTo(e.depth, 10) /\ RoundTo(e.depth, 10) <= 8000000
      BY <2>2, DepthStays
    <2> QED
      BY <2>1, <2>3, Ends
  <1>4. PrefixLength + e.id.chars <= 255 /\ e.magType.chars <= 10
    <2>1. PrefixLength \in Int
      BY RecordsAssumption DEF RecordsAssumption
    <2>2. PrefixLength + e.id.bytes <= 255 /\ e.magType.bytes <= 10
      BY DEF Validated
    <2> QED
      BY <2>1, <2>2, ParsedIsTyped
  <1>5. -4712 <= e.time /\ e.time <= 294275
    BY <1>1 DEF Validated
  <1>6. e.quality \in {"A", "B", "C", "D"}
    BY DEF Validated
  <1>7. e.place # Absent => e.place.chars <= 512
    BY ParsedIsTyped
  <1> QED
    BY <1>2, <1>3, <1>4, <1>5, <1>6, <1>7 DEF TableAccepts

\* RawFields::validate rejects what a parser lets through for a range or a
\* length only, and no record of EMSC or AFAD for a depth above the surface.
THEOREM ParsedIsStorableCorrect == ParsedIsStorable
  <1> SUFFICES ASSUME NEW s \in Source, NEW e \in Record(s),
                      ~(e.mag < -2 * One), ~(e.mag > 10 * One),
                      ~(e.depth # Absent /\ e.depth > 800 * One),
                      ~(e.depth # Absent /\ e.depth < -5 * One
                          /\ s \in {"USGS", "FDSN", "FDSNText"}),
                      ~(PrefixLength + e.id.bytes > 255), ~(e.magType.bytes > 10),
                      ~(e.time < -262143), ~(e.time > 262142)
               PROVE  Validated(e)
    BY DEF ParsedIsStorable
  <1>1. PICK f \in Feature :
              /\ e.lat = f.lat /\ e.lon = f.lon /\ e.quality \in {"A", "B", "C", "D"}
              /\ Usable(f)
              /\ e.depth = IF s \in {"EMSC", "AFAD"} THEN BelowSurface(f) ELSE AnyDepth(f)
    BY ReadFrom
  <1>2. OnEarth(e)
    BY <1>1 DEF Usable, OnEarth
  <1>3. e.quality \in {"A", "B", "C", "D"}
    BY <1>1
  <1>4. /\ -2 * One \in Int /\ 10 * One \in Int /\ -5 * One \in Int /\ 800 * One \in Int
        /\ -5 * One < 0 /\ PrefixLength \in Int
    BY RecordsAssumption DEF RecordsAssumption, One
  <1>5. Finite(e.mag) /\ e.mag \in -2 * One..10 * One
    BY <1>4, ParsedIsTyped, Ends DEF Finite
  <1>6. e.depth # Absent => Finite(e.depth) /\ e.depth \in -5 * One..800 * One
    <2> SUFFICES ASSUME e.depth # Absent
                 PROVE  e.depth \in Int /\ -5 * One <= e.depth /\ e.depth <= 800 * One
      BY Ends DEF Finite
    <2>1. e.depth = IF s \in {"EMSC", "AFAD"} THEN BelowSurface(f) ELSE AnyDepth(f)
      BY <1>1
    <2>2. e.depth \in Int /\ (s \in {"EMSC", "AFAD"} => e.depth >= 0)
      BY <2>1 DEF BelowSurface, AnyDepth, Finite
    <2> QED
      BY <1>4, <2>2 DEF Source
  <1>7. PrefixLength + e.id.bytes <= 255 /\ e.magType.bytes <= 10
    BY <1>4, ParsedIsTyped
  <1>8. -262143 <= e.time /\ e.time <= 262142
    BY ParsedIsTyped
  <1> QED
    BY <1>2, <1>3, <1>5, <1>6, <1>7, <1>8 DEF Validated

\* In every state of the storage service's run, therefore: what a parser lets
\* through, validation and the table refuse for the named reasons only.
THEOREM RecordsAreStorableCorrect == Spec => []RecordsAreStorable
  <1>1. RecordsAreStorable
    BY ParsedIsStorableCorrect, ValidatedFitsTableCorrect DEF RecordsAreStorable
  <1> QED
    BY <1>1, PTL

-----------------------------------------------------------------------------

\* A number is none of the three other values of a field.
LEMMA NumberIsNumber ==
    ASSUME NEW x \in Int
    PROVE  x # Absent /\ x # NaN /\ x # Garbage
  BY RecordsAssumption DEF RecordsAssumption

\* A record whose magnitude and depth are numbers comes out of every parser
\* with the numbers that went in.
LEMMA ParsedReads ==
    ASSUME NEW f, NEW q, NEW d
    PROVE  /\ Parsed(f, d, q).lat = f.lat /\ Parsed(f, d, q).lon = f.lon
           /\ Parsed(f, d, q).mag = f.mag /\ Parsed(f, d, q).depth = d
  BY DEF Parsed

\* The fields the two paths have in common.
Coordinate == {"lat", "lon", "mag", "depth"}

\* A record of AFAD that both take, its depth given and not above the surface:
\* the import replaces none of the numbers ingestion has checked.
LEMMA AfadPathsAgree ==
    ASSUME NEW f \in Feature, ParseAfad(f).ok, HistoricalAfad(f).ok, Finite(f.depth), f.depth >= 0
    PROVE  \A c \in Coordinate : ParseAfad(f)[c] = HistoricalAfad(f)[c]
  <1>1. Usable(f)
    BY DEF ParseAfad, Rejected
  <1>2. f.mag # Absent /\ f.depth # Absent
    BY <1>1, NumberIsNumber DEF Usable, OnEarth, Finite
  <1>3. PICK q : ParseAfad(f) = Parsed(f, f.depth, q)
    BY <1>1 DEF ParseAfad, BelowSurface
  <1>4. /\ ParseAfad(f).lat = f.lat /\ ParseAfad(f).lon = f.lon
        /\ ParseAfad(f).mag = f.mag /\ ParseAfad(f).depth = f.depth
    BY <1>3, ParsedReads
  <1>5. HistoricalAfad(f) = [ok |-> TRUE, lat |-> f.lat, lon |-> f.lon, mag |-> f.mag, depth |-> f.depth]
    BY <1>2 DEF HistoricalAfad, Rejected, ZeroIfAbsent
  <1> QED BY <1>4, <1>5 DEF Coordinate

\* A readable record of USGS with a depth that both take.
LEMMA ComCatPathsAgree ==
    ASSUME NEW f \in Feature, ParseUsgs(f).ok, HistoricalComCat(f).ok, Finite(f.depth)
    PROVE  \A c \in Coordinate : ParseUsgs(f)[c] = HistoricalComCat(f)[c]
  <1>1. Usable(f) /\ ~f.blast
    BY DEF ParseUsgs, Rejected
  <1>2. f.mag # Absent /\ f.depth # Garbage
    BY <1>1, NumberIsNumber DEF Usable, OnEarth, Finite
  <1>3. HistoricalComCat(f) = [ok |-> TRUE, lat |-> f.lat, lon |-> f.lon, mag |-> f.mag, depth |-> f.depth]
    BY <1>2 DEF HistoricalComCat, Rejected, ZeroIfAbsent
  <1>4. PICK q : ParseUsgs(f) = Parsed(f, f.depth, q)
    BY <1>1 DEF ParseUsgs, AnyDepth
  <1>5. /\ ParseUsgs(f).lat = f.lat /\ ParseUsgs(f).lon = f.lon
        /\ ParseUsgs(f).mag = f.mag /\ ParseUsgs(f).depth = f.depth
    BY <1>4, ParsedReads
  <1> QED BY <1>3, <1>5 DEF Coordinate

\* The live parsers (usgs.rs, afad.rs) and those of the import (comcat.py,
\* afad.py) read the same numbers out of a record both take, for all records.
THEOREM PathsAgreeCorrect == PathsAgree
  BY AfadPathsAgree, ComCatPathsAgree DEF PathsAgree, Coordinate

\* And so in every state of the storage service's run.
THEOREM RecordPathsAgreeCorrect == Spec => []RecordPathsAgree
  <1>1. RecordPathsAgree
    BY PathsAgreeCorrect DEF RecordPathsAgree
  <1> QED
    BY <1>1, PTL
=============================================================================
