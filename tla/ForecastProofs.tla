--------------------------- MODULE ForecastProofs ---------------------------
(***************************************************************************)
(* What the forecast service writes, for any versions, events, cells,      *)
(* intervals and limits, whatever fails or restarts: the model registry    *)
(* has at most one active version, and a result stays on its map.          *)
(***************************************************************************)
EXTENDS Forecast, FiniteSetTheorems, SequenceTheorems, TLAPS

Active == {v \in Version : registry[v] = "active"}

\* Between the two statements of a registration no version is active: this is
\* what makes the second one safe although it looks at no other row.
RegistryInv ==
    /\ version \in Version
    /\ registry \in [Version -> {"absent", "inactive", "active"}]
    /\ pc = "activate" => Active = {}
    /\ AtMostOneActive

\* The steps that touch neither the registry nor the deployed version, and do
\* not lead to the activation, keep the invariant.
LEMMA RegistryUntouched ==
    ASSUME RegistryInv, UNCHANGED <<version, registry>>,
           pc' = "activate" => pc = "activate"
    PROVE  RegistryInv'
  BY DEF RegistryInv, Active, AtMostOneActive

\* The end of a task and the choice of the next one never lead to the
\* activation.
LEMMA EndTaskElsewhere == ASSUME NEW t \in Task, EndTask(t) PROVE pc' # "activate"
  BY DEF EndTask, First

LEMMA RegistryInit == Init => RegistryInv
  BY ForecastAssumption DEF Init, RegistryInv, Active, AtMostOneActive

LEMMA RegistryStep == RegistryInv /\ [Next]_vars => RegistryInv'
<1> SUFFICES ASSUME RegistryInv, [Next]_vars PROVE RegistryInv'
  OBVIOUS
<1>1. CASE Start
  BY <1>1, RegistryUntouched DEF Start, tables
<1>2. CASE BeginCycle
  BY <1>2, RegistryUntouched DEF BeginCycle, First, tables
<1>3. CASE TrainSkip \/ Train \/ TrainFails
  <2>1. registry' = registry /\ version' = version
    BY <1>3 DEF TrainSkip, Train, TrainFails, tables
  <2>2. pc' # "activate"
    BY <1>3 DEF TrainSkip, Train, TrainFails
  <2> QED
    BY <2>1, <2>2, RegistryUntouched
<1>4. CASE Deactivate
  <2>1. version' = version
    BY <1>4 DEF Deactivate
  <2>2. CASE registry' = [v \in Version |-> IF registry[v] = "active" THEN "inactive" ELSE registry[v]]
    <3>1. registry' \in [Version -> {"absent", "inactive", "active"}]
      BY <2>2 DEF RegistryInv
    <3>2. \A v \in Version : registry'[v] # "active"
      BY <2>2 DEF RegistryInv
    <3> QED
      BY <2>1, <3>1, <3>2 DEF RegistryInv, Active, AtMostOneActive
  <2>3. CASE pc' = "read" /\ UNCHANGED registry
    BY <2>1, <2>3, RegistryUntouched
  <2> QED
    BY <1>4, <2>2, <2>3 DEF Deactivate
<1>5. CASE Activate
  <2>1. version' = version /\ pc' = "read" /\ Active = {}
    BY <1>5 DEF Activate, RegistryInv
  <2>2. CASE registry' = [registry EXCEPT ![version] = "active"]
    <3>1. registry' \in [Version -> {"absent", "inactive", "active"}]
      BY <2>2 DEF RegistryInv
    <3>2. \A v \in Version : registry'[v] = "active" => v = version
      BY <2>1, <2>2 DEF RegistryInv, Active
    <3> QED
      BY <2>1, <3>1, <3>2 DEF RegistryInv, Active, AtMostOneActive
  <2>3. CASE UNCHANGED registry
    BY <2>1, <2>3, RegistryUntouched
  <2> QED
    BY <1>5, <2>2, <2>3 DEF Activate
<1>6. CASE ReadUnclassified
  <2>1. registry' = registry /\ version' = version
    BY <1>6 DEF ReadUnclassified, tables
  <2>2. pc' # "activate"
    BY <1>6, EndTaskElsewhere DEF ReadUnclassified, Task
  <2> QED
    BY <2>1, <2>2, RegistryUntouched
<1>7. CASE Predict
  <2>1. registry' = registry /\ version' = version
    BY <1>7 DEF Predict
  <2>2. pc' # "activate"
    BY <1>7, EndTaskElsewhere DEF Predict, Task
  <2> QED
    BY <2>1, <2>2, RegistryUntouched
<1>8. ASSUME NEW t \in Grid, ReadItems(t) PROVE RegistryInv'
  <2>1. registry' = registry /\ version' = version
    BY <1>8 DEF ReadItems, tables
  <2>2. pc' # "activate"
    BY <1>8, EndTaskElsewhere DEF ReadItems, Rows, Grid, Task
  <2> QED
    BY <2>1, <2>2, RegistryUntouched
<1>9. ASSUME NEW t \in Grid, EndRows(t) PROVE RegistryInv'
  <2>1. registry' = registry /\ version' = version
    BY <1>9 DEF EndRows, tables
  <2>2. pc' # "activate"
    BY <1>9, EndTaskElsewhere DEF EndRows, Grid, Task
  <2> QED
    BY <2>1, <2>2, RegistryUntouched
<1>10. ASSUME NEW t \in Grid, NEW i \in Items[t], WriteRow(t, i) PROVE RegistryInv'
  BY <1>10, RegistryUntouched DEF WriteRow
<1>11. CASE Crash
  <2>1. version' \in Version /\ registry' = registry /\ pc' = "down"
    BY <1>11 DEF Crash, tables
  <2> QED
    BY <2>1 DEF RegistryInv, AtMostOneActive
<1>12. CASE Tick \/ CatalogueGrows
  BY <1>12, RegistryUntouched DEF Tick, CatalogueGrows, process, tables
<1>13. ASSUME NEW e \in Event, StoreEvent(e) \/ LeaveLookback(e) PROVE RegistryInv'
  BY <1>13, RegistryUntouched DEF StoreEvent, LeaveLookback, Ages, process, tables
<1>14. CASE UNCHANGED vars
  BY <1>14, RegistryUntouched DEF vars, process, tables
<1> QED
  BY <1>1, <1>2, <1>3, <1>4, <1>5, <1>6, <1>7, <1>8, <1>9, <1>10, <1>11, <1>12, <1>13, <1>14
     DEF Next, MainLoop, Environment

\* The registry never shows two active versions, wherever a registration is
\* cut and whatever is deployed next (main.py:441-450, db.py:404-448).
THEOREM AtMostOneActiveCorrect == Spec => []AtMostOneActive
<1>1. RegistryInv => AtMostOneActive
  BY DEF RegistryInv
<1> QED
  BY <1>1, RegistryInit, RegistryStep, PTL DEF Spec

-----------------------------------------------------------------------------
(* Types *)

(* The next-state relation, unfolded.                                      *)
LEMMA Steps ==
    ASSUME [Next]_vars
    PROVE  \/ Start \/ BeginCycle \/ TrainSkip \/ Train \/ TrainFails
           \/ Deactivate \/ Activate \/ ReadUnclassified \/ Predict
           \/ \E t \in Grid : ReadItems(t) \/ EndRows(t)
           \/ \E t \in Grid : \E i \in Items[t] : WriteRow(t, i)
           \/ Crash \/ Tick \/ CatalogueGrows
           \/ \E e \in Event : StoreEvent(e) \/ LeaveLookback(e)
           \/ UNCHANGED vars
  BY Zenon DEF Next, MainLoop, Environment

LEMMA MaxIntervalIsNat == MaxInterval \in Nat
  <1>1. Interval["gr"] \in Nat /\ Interval["etas"] \in Nat /\ Interval["classifier"] \in Nat
    BY ForecastAssumption DEF Task
  <1>2. \E n \in {Interval[t] : t \in Task} : \A t \in Task : Interval[t] <= n
    <2>1. \/ \A t \in Task : Interval[t] <= Interval["gr"]
          \/ \A t \in Task : Interval[t] <= Interval["etas"]
          \/ \A t \in Task : Interval[t] <= Interval["classifier"]
      BY <1>1 DEF Task
    <2> QED
      BY <2>1 DEF Task
  <1>3. MaxInterval \in {Interval[t] : t \in Task}
    BY <1>2 DEF MaxInterval
  <1> QED
    BY <1>3, ForecastAssumption

LEMMA BoundedIsNat == ASSUME NEW n \in Nat, NEW m \in Nat PROVE Bounded(n, m) \in Nat
  BY DEF Bounded

LEMMA ElapseTyped ==
    ASSUME age \in [Task -> Nat], NEW ticks \in Nat
    PROVE  Elapse(ticks) \in [Task -> Nat]
  <1>1. \A u \in Task : age[u] + ticks \in Nat /\ Interval[u] \in Nat
    BY ForecastAssumption
  <1>2. \A u \in Task : Bounded(age[u] + ticks, Interval[u]) \in Nat
    BY <1>1, BoundedIsNat
  <1> QED
    BY <1>2 DEF Elapse

LEMMA EndTaskTyped ==
    ASSUME TypeOK, NEW t \in Task, EndTask(t)
    PROVE  /\ due' \subseteq Task /\ age' \in [Task -> Nat]
           /\ pc' \in {"gr", "etas", "train", "sleep"}
  <1>1. due' \subseteq Task /\ pc' \in {"gr", "etas", "train", "sleep"}
    BY DEF EndTask, TypeOK, First
  <1>2. PICK ticks \in 0..MaxInterval : age' = [Elapse(ticks) EXCEPT ![t] = 0]
    BY DEF EndTask
  <1>3. ticks \in Nat
    BY MaxIntervalIsNat
  <1>4. Elapse(ticks) \in [Task -> Nat]
    BY <1>3, ElapseTyped DEF TypeOK
  <1> QED
    BY <1>1, <1>2, <1>4

\* A batch has no more events than its limit: their ranks are different and
\* below it.
LEMMA NewestAreFew ==
    ASSUME NEW S \in SUBSET Event
    PROVE  /\ NewestEvents(S) \subseteq S
           /\ Cardinality(NewestEvents(S)) <= BatchLimit
  <1> DEFINE N == NewestEvents(S)
             newer(e) == {f \in S : f > e}
             rank == [e \in N |-> Cardinality(newer(e))]
             T == 0..(BatchLimit - 1)
  <1>1. N \subseteq S /\ \A e \in N : Cardinality(newer(e)) < BatchLimit
    BY DEF NewestEvents
  <1> HIDE DEF N
  <1>2. IsFiniteSet(S) /\ \A e \in S : e \in Nat
    BY ForecastAssumption, FS_Subset
  <1>3. \A e \in S : IsFiniteSet(newer(e)) /\ Cardinality(newer(e)) \in Nat
    BY <1>2, FS_Subset, FS_CardinalityType
  <1>4. rank \in [N -> T]
    BY <1>1, <1>3, ForecastAssumption
  <1>5. ASSUME NEW e \in N, NEW f \in N, e < f PROVE rank[f] < rank[e]
    <2>1. newer(f) \subseteq newer(e) /\ f \in newer(e) /\ f \notin newer(f)
      BY <1>1, <1>2, <1>5
    <2> QED
      BY <1>1, <1>3, <2>1, FS_Subset
  <1>6. \A e, f \in N : rank[e] = rank[f] => e = f
    <2>1. \A e, f \in N : e \in Nat /\ f \in Nat
      BY <1>1, <1>2
    <2>2. \A e \in N : rank[e] \in Nat
      BY <1>1, <1>3
    <2> HIDE DEF rank
    <2>3. \A e, f \in N : e < f => rank[f] < rank[e]
      BY <1>5
    <2> QED
      BY <2>1, <2>2, <2>3
  <1>7. rank \in Injection(N, T)
    BY <1>4, <1>6 DEF Injection, IsInjective
  <1>8. IsFiniteSet(T) /\ Cardinality(T) = BatchLimit
    BY FS_Interval, ForecastAssumption
  <1>9. Cardinality(N) <= BatchLimit
    BY <1>7, <1>8, FS_Injection
  <1> QED
    BY <1>1, <1>9 DEF N

\* What a map keeps of its rows and a new one before them.
Pushed(i, s, n) == Newest(<<i>> \o s, n)

PutFirst(r, i, s, n) ==
    /\ 1 \in DOMAIN r /\ r[1] = i
    /\ \A k \in DOMAIN s : k < n => k + 1 \in DOMAIN r /\ r[k + 1] = s[k]

LEMMA RowsPushed ==
    ASSUME NEW S, NEW s \in Seq(S), NEW i \in S, NEW n \in Nat \ {0}
    PROVE  /\ Pushed(i, s, n) \in Seq(S)
           /\ PutFirst(Pushed(i, s, n), i, s, n)
  <1> DEFINE u == <<i>> \o s
             m == Bounded(Len(u), n)
  <1>1. u \in Seq(S) /\ Len(u) = Len(s) + 1 /\ u[1] = i /\ \A k \in 1..Len(s) : u[k + 1] = s[k]
    BY ConcatProperties
  <1>2. m \in 1..Len(u) /\ m <= n /\ \A k \in 1..Len(s) : k < n => k + 1 <= m
    BY <1>1 DEF Bounded
  <1>3. Pushed(i, s, n) = SubSeq(u, 1, m)
    BY DEF Newest, Pushed
  <1> HIDE DEF u, m
  <1>4. SubSeq(u, 1, m) \in Seq(S) /\ Len(SubSeq(u, 1, m)) = m /\ \A k \in 1..m : SubSeq(u, 1, m)[k] = u[k]
    BY <1>1, <1>2, SubSeqProperties
  <1>5. DOMAIN s = 1..Len(s) /\ DOMAIN SubSeq(u, 1, m) = 1..m
    BY <1>4
  <1> QED
    BY <1>1, <1>2, <1>3, <1>4, <1>5 DEF PutFirst

\* The only ways in which the counters of faults and restarts move.
LEMMA FaultCounts ==
    ASSUME TypeOK
    PROVE  /\ restarts \in Nat /\ faults \in Nat
           /\ UNCHANGED counters => restarts' = restarts /\ faults' = faults
           /\ Fault => faults' = faults + 1
           /\ UNCHANGED counters \/ Fault => faults' \in Nat
  <1>1. restarts \in Nat /\ faults \in Nat
    BY DEF TypeOK
  <1>2. UNCHANGED counters => restarts' = restarts /\ faults' = faults
    BY DEF counters
  <1> QED
    BY <1>1, <1>2 DEF Fault

LEMMA RowsAreSteps == \A t \in Grid : t \in Task /\ Items[t] \subseteq Cell \cup Mainshock
  BY DEF Grid, Task, Items

LEMMA TypeInit == Init => TypeOK
<1> SUFFICES ASSUME Init PROVE TypeOK
  OBVIOUS
<1>1. rows \in [Grid -> Seq(Cell \cup Mainshock)] /\ written \in [Grid -> SUBSET (Cell \cup Mainshock)]
  BY DEF Init
<1>2. Cardinality({}) = 0 /\ BatchLimit \in Nat
  BY FS_EmptySet, ForecastAssumption
<1> QED
  <2>1. /\ age \in [Task -> Nat] /\ stage \in [Event -> {"unborn", "recent", "old"}]
        /\ registry \in [Version -> {"absent", "inactive", "active"}]
    BY DEF Init
  <2>2. batch \subseteq Event /\ Cardinality(batch) <= BatchLimit
    BY <1>2 DEF Init
  <2> QED
    BY <1>1, <2>1, <2>2, ForecastAssumption DEF Init, TypeOK

\* A step that leaves the tables and the world alone.
LEMMA TypeProcess ==
    ASSUME TypeOK, UNCHANGED <<tables, world>>,
           pc' \in {"down", "sleep", "gr", "gr rows", "etas", "etas rows", "train", "deactivate",
                    "activate", "read", "predict"},
           due' \subseteq Task, todo' \subseteq Cell \cup Mainshock,
           batch' \subseteq Event, Cardinality(batch') <= BatchLimit,
           model' \in {"none", "fitted", "unfitted"}, trained' \in BOOLEAN, version' \in Version,
           age' \in [Task -> Nat], restarts' \in Nat, faults' \in Nat
    PROVE  TypeOK'
  BY DEF TypeOK, tables, world

\* One that writes a table, or in which the world changes.
LEMMA TypeTables ==
    ASSUME TypeOK, UNCHANGED <<model, trained, version>>,
           pc' \in {"down", "sleep", "gr", "gr rows", "etas", "etas rows", "train", "deactivate",
                    "activate", "read", "predict"},
           due' \subseteq Task, todo' \subseteq Cell \cup Mainshock, batch' \subseteq batch,
           Cardinality(batch') <= BatchLimit, age' \in [Task -> Nat],
           rows' \in [Grid -> Seq(Cell \cup Mainshock)],
           written' \in [Grid -> SUBSET (Cell \cup Mainshock)],
           classified' \subseteq Event, registry' \in [Version -> {"absent", "inactive", "active"}],
           stage' \in [Event -> {"unborn", "recent", "old"}], ripe' \subseteq Cell,
           trainable' \in BOOLEAN, restarts' \in Nat, faults' \in Nat
    PROVE  TypeOK'
  BY DEF TypeOK

LEMMA TypeStep == TypeOK /\ [Next]_vars => TypeOK'
<1> SUFFICES ASSUME TypeOK, [Next]_vars PROVE TypeOK'
  OBVIOUS
<1>0. Cardinality({}) = 0 /\ BatchLimit \in Nat
  BY FS_EmptySet, ForecastAssumption
<1>1. CASE Start
  <2>1. PICK uptime \in 0..MaxInterval : age' = [t \in Task |-> Bounded(uptime, Interval[t])]
    BY <1>1 DEF Start
  <2>2. age' \in [Task -> Nat]
    <3>1. uptime \in Nat /\ \A t \in Task : Interval[t] \in Nat
      BY MaxIntervalIsNat, ForecastAssumption
    <3> QED
      BY <2>1, <3>1, BoundedIsNat
  <2> QED
    BY <1>1, <2>2, TypeProcess DEF Start, TypeOK, counters
<1>2. CASE BeginCycle
  BY <1>2, TypeProcess DEF BeginCycle, Planned, DueTasks, First, TypeOK, counters
<1>3. CASE TrainSkip \/ Train \/ TrainFails
  <2>1. /\ pc' \in {"read", "deactivate"} /\ model' \in {"none", "fitted", "unfitted"}
        /\ trained' \in BOOLEAN
    BY <1>3 DEF TrainSkip, Train, TrainFails, TypeOK
  <2>2. restarts' \in Nat /\ faults' \in Nat
    BY <1>3, FaultCounts DEF TrainSkip, Train, TrainFails
  <2>3. UNCHANGED <<due, todo, batch, version, age, tables, world>>
    BY <1>3 DEF TrainSkip, Train, TrainFails
  <2> QED
    BY <2>1, <2>2, <2>3, TypeProcess DEF TypeOK
<1>4. CASE Deactivate
  <2>1. registry' \in [Version -> {"absent", "inactive", "active"}] /\ faults' \in Nat
    BY <1>4 DEF Deactivate, Fault, TypeOK, counters
  <2> QED
    BY <1>4, <2>1, TypeTables DEF Deactivate, TypeOK, world, counters
<1>5. CASE Activate
  <2>1. registry' \in [Version -> {"absent", "inactive", "active"}] /\ faults' \in Nat
    BY <1>5 DEF Activate, Fault, TypeOK, counters
  <2> QED
    BY <1>5, <2>1, TypeTables DEF Activate, TypeOK, world, counters
<1>6. CASE ReadUnclassified
  <2>1. CASE Unclassified # {} /\ pc' = "predict" /\ batch' = Unclassified /\ UNCHANGED <<due, age, counters>>
    <3>1. Stored \ classified \in SUBSET Event
      BY DEF Stored
    <3>2. batch' \subseteq Event /\ Cardinality(batch') <= BatchLimit
      BY <2>1, <3>1, NewestAreFew DEF Unclassified
    <3> QED
      BY <1>6, <2>1, <3>2, TypeProcess DEF ReadUnclassified, TypeOK, counters
  <2>2. CASE EndTask("classifier") /\ UNCHANGED <<batch, restarts>> /\ faults' \in Nat
    <3>1. due' \subseteq Task /\ age' \in [Task -> Nat] /\ pc' \in {"gr", "etas", "train", "sleep"}
      BY <2>2, EndTaskTyped DEF Task
    <3> QED
      BY <1>6, <2>2, <3>1, TypeProcess DEF ReadUnclassified, TypeOK
  <2>3. faults \in Nat
    BY DEF TypeOK
  <2> QED
    BY <1>6, <2>1, <2>2, <2>3 DEF ReadUnclassified, Fault, counters
<1>7. CASE Predict
  <2>1. due' \subseteq Task /\ age' \in [Task -> Nat] /\ pc' \in {"gr", "etas", "train", "sleep"}
    BY <1>7, EndTaskTyped DEF Predict, Task
  <2>2. classified' \subseteq Event /\ faults' \in Nat /\ restarts' = restarts /\ batch' = {}
    BY <1>7 DEF Predict, Fault, TypeOK, counters
  <2>3. batch' \subseteq batch /\ Cardinality(batch') <= BatchLimit
    BY <1>0, <2>2
  <2>4. UNCHANGED <<todo, model, trained, version, rows, written, registry, world>>
    BY <1>7 DEF Predict
  <2> QED
    BY <2>1, <2>2, <2>3, <2>4, TypeTables DEF TypeOK, world
<1>8. ASSUME NEW t \in Grid, ReadItems(t) PROVE TypeOK'
  <2>1. CASE pc' = Rows[t] /\ todo' = Selected(t) /\ UNCHANGED <<due, age, counters>>
    <3>1. todo' \subseteq Cell \cup Mainshock /\ pc' \in {"gr rows", "etas rows"}
      BY <2>1 DEF Selected, Rows, Grid, TypeOK
    <3> QED
      BY <1>8, <2>1, <3>1, TypeProcess DEF ReadItems, TypeOK, counters
  <2>2. CASE EndTask(t) /\ UNCHANGED <<todo, restarts>> /\ (Fault \/ UNCHANGED faults)
    <3>1. due' \subseteq Task /\ age' \in [Task -> Nat] /\ pc' \in {"gr", "etas", "train", "sleep"}
      BY <2>2, EndTaskTyped, RowsAreSteps
    <3> QED
      <4>1. faults' \in Nat /\ UNCHANGED <<todo, restarts, batch, model, trained, version, tables, world>>
        BY <1>8, <2>2, FaultCounts DEF ReadItems, TypeOK
      <4> QED
        BY <3>1, <4>1, TypeProcess DEF TypeOK
  <2> QED
    BY <1>8, <2>1, <2>2 DEF ReadItems, counters
<1>9. ASSUME NEW t \in Grid, EndRows(t) PROVE TypeOK'
  <2>1. due' \subseteq Task /\ age' \in [Task -> Nat] /\ pc' \in {"gr", "etas", "train", "sleep"}
    BY <1>9, EndTaskTyped, RowsAreSteps DEF EndRows
  <2> QED
    BY <1>9, <2>1, TypeProcess DEF EndRows, TypeOK, counters
<1>10. ASSUME NEW t \in Grid, NEW i \in Items[t], WriteRow(t, i) PROVE TypeOK'
  <2>1. /\ rows' \in [Grid -> Seq(Cell \cup Mainshock)]
        /\ written' \in [Grid -> SUBSET (Cell \cup Mainshock)]
    <3>1. CASE UNCHANGED <<rows, written>>
      BY <3>1 DEF TypeOK
    <3>2. CASE /\ rows' = [rows EXCEPT ![t] = Newest(<<i>> \o @, RowLimit[t])]
               /\ written' = [written EXCEPT ![t] = @ \cup {i}]
      <4>1. i \in Cell \cup Mainshock /\ rows[t] \in Seq(Cell \cup Mainshock) /\ RowLimit[t] \in Nat \ {0}
        BY RowsAreSteps, ForecastAssumption DEF TypeOK
      <4>2. Newest(<<i>> \o rows[t], RowLimit[t]) \in Seq(Cell \cup Mainshock)
        BY <4>1, RowsPushed DEF Pushed
      <4> QED
        BY <3>2, <4>1, <4>2 DEF TypeOK
    <3> QED
      BY <1>10, <3>1, <3>2, Zenon DEF WriteRow, Insert
  <2>2. faults' \in Nat /\ restarts' = restarts
    BY <1>10, FaultCounts DEF WriteRow
  <2> QED
    BY <1>10, <2>1, <2>2, TypeTables DEF WriteRow, TypeOK, world
<1>11. CASE Crash
  <2>1. age' \in [Task -> Nat]
    BY <1>11 DEF Crash
  <2>2. /\ pc' = "down" /\ due' = {} /\ todo' = {} /\ model' = "none" /\ trained' = FALSE
        /\ version' \in Version /\ restarts' \in Nat /\ faults' \in Nat
        /\ UNCHANGED <<tables, world>>
    BY <1>11, FaultCounts DEF Crash
  <2>3. batch' \subseteq Event /\ Cardinality(batch') <= BatchLimit
    BY <1>0, <1>11 DEF Crash
  <2> QED
    BY <2>1, <2>2, <2>3, TypeProcess
<1>12. CASE Tick
  <2>1. age' \in [Task -> Nat]
    BY <1>12, ElapseTyped DEF Tick, TypeOK
  <2> QED
    BY <1>12, <2>1, TypeProcess DEF Tick, TypeOK, counters
<1>13. CASE CatalogueGrows
  BY <1>13, TypeTables DEF CatalogueGrows, TypeOK, process, tables, counters
<1>14. ASSUME NEW e \in Event, StoreEvent(e) \/ LeaveLookback(e) PROVE TypeOK'
  <2>1. stage' \in [Event -> {"unborn", "recent", "old"}]
    BY <1>14 DEF StoreEvent, LeaveLookback, Ages, TypeOK
  <2> QED
    BY <1>14, <2>1, TypeTables DEF StoreEvent, LeaveLookback, Ages, TypeOK, process, tables, counters
<1>15. CASE UNCHANGED vars
  BY <1>15 DEF vars, process, tables, world, counters, TypeOK
<1> QED
  BY Steps, <1>1, <1>2, <1>3, <1>4, <1>5, <1>6, <1>7, <1>8, <1>9, <1>10, <1>11, <1>12, <1>13, <1>14, <1>15

\* Every variable has its type; a batch is never larger than its limit.
THEOREM TypeCorrect == Spec => []TypeOK
  BY TypeInit, TypeStep, PTL DEF Spec

-----------------------------------------------------------------------------
(* Results on the map *)

\* The items of a map, and those that a run writes before and after an item.
Mapped(t) == Items[t] \ Unmapped

Earlier(t, i) == {j \in Mapped(t) : Before(t, j, i)}

Later(t, i) == {j \in Mapped(t) : Before(t, i, j)}

Others(t) == Cardinality(Mapped(t)) - 1

\* Its input exists: this is for good.
Begun(t, i) == IF t = "gr" THEN i \in ripe ELSE stage[i] # "unborn"

\* It is no longer selected, for good.
Gone(t, i) == t = "etas" /\ stage[i] = "old"

\* The rows of the run that wrote i, and those of the current one.
Slack(t, i) ==
    IF pc = Rows[t]
      THEN IF i \in todo THEN Cardinality(Later(t, i)) + Cardinality(Earlier(t, i) \ todo)
                         ELSE Cardinality(Later(t, i) \ todo)
      ELSE Cardinality(Later(t, i))

\* How many rows may be ahead of the newest one of i: each fault and each
\* restart has cost it the rows of one run besides.
Reach(t, i) == Others(t) * (restarts + faults) + Slack(t, i)

\* A run that has passed an item has only later ones left.
RunInv(t) ==
    /\ written[t] \subseteq Mapped(t) /\ \A i \in written[t] : Begun(t, i)
    /\ pc = Rows[t] =>
         /\ todo \subseteq Items[t] /\ \A i \in todo : Begun(t, i)
         /\ \A i \in written[t] \ todo : Gone(t, i) \/ \A j \in todo : Before(t, i, j)

MapInv(t) ==
    Others(t) * (restarts + faults + 1) < RowLimit[t] =>
        \A i \in written[t] :
            Gone(t, i) \/ \E k \in DOMAIN rows[t] : rows[t][k] = i /\ k <= Reach(t, i) + 1

ShownInv == \A t \in Grid : RunInv(t) /\ MapInv(t)

LEMMA ItemsTyped ==
    ASSUME NEW t \in Grid
    PROVE  Items[t] \subseteq Nat /\ IsFiniteSet(Items[t]) /\ IsFiniteSet(Mapped(t))
  <1>1. Items[t] = Cell \/ Items[t] = Mainshock
    BY DEF Items, Grid
  <1>2. IsFiniteSet(Mainshock)
    BY ForecastAssumption, FS_Subset
  <1>3. Items[t] \subseteq Nat /\ IsFiniteSet(Items[t])
    BY <1>1, <1>2, ForecastAssumption
  <1> QED
    BY <1>3, FS_Subset DEF Mapped

\* Of the other items of a map, each is earlier or later.
LEMMA OthersAreSplit ==
    ASSUME NEW t \in Grid, NEW i \in Mapped(t)
    PROVE  /\ IsFiniteSet(Earlier(t, i)) /\ Cardinality(Earlier(t, i)) \in Nat
           /\ IsFiniteSet(Later(t, i)) /\ Cardinality(Later(t, i)) \in Nat
           /\ Others(t) = Cardinality(Earlier(t, i)) + Cardinality(Later(t, i))
  <1> DEFINE E == Earlier(t, i)
             L == Later(t, i)
  <1>1. IsFiniteSet(E) /\ IsFiniteSet(L) /\ IsFiniteSet(Mapped(t))
    BY ItemsTyped, FS_Subset DEF Earlier, Later
  <1>2. Cardinality(E) \in Nat /\ Cardinality(L) \in Nat /\ Cardinality(Mapped(t)) \in Nat
    BY <1>1, FS_CardinalityType
  <1>3. Mapped(t) \subseteq Nat
    BY ItemsTyped DEF Mapped
  <1>4. E \cap L = {} /\ E \cup L = Mapped(t) \ {i}
    BY <1>3 DEF Earlier, Later, Before
  <1>5. Cardinality(Mapped(t) \ {i}) = Cardinality(Mapped(t)) - 1
    BY <1>1, FS_RemoveElement
  <1>6. Cardinality(E \cup L) = Cardinality(E) + Cardinality(L) - Cardinality({})
    BY <1>1, <1>4, FS_Union
  <1>7. Cardinality({}) = 0
    BY FS_EmptySet
  <1>8. Cardinality(E \cup L) = Cardinality(Mapped(t)) - 1
    BY <1>4, <1>5
  <1>9. Cardinality(E) + Cardinality(L) = Cardinality(Mapped(t)) - 1
    BY <1>2, <1>6, <1>7, <1>8
  <1> QED
    BY <1>1, <1>2, <1>9 DEF Others

LEMMA LeftOver ==
    ASSUME NEW S, IsFiniteSet(S), NEW T
    PROVE  Cardinality(S \ T) \in Nat /\ Cardinality(S \ T) <= Cardinality(S)
  <1>1. S \ T \subseteq S
    OBVIOUS
  <1> QED
    BY <1>1, FS_Subset, FS_CardinalityType

LEMMA Budget ==
    ASSUME NEW o \in Nat, NEW c \in Nat
    PROVE  /\ o * c \in Nat /\ o * (c + 1) = o * c + o
           /\ o * (c + 1 + 1) = o * c + o + o
  OBVIOUS

\* The budget that the property speaks of is enough.
LEMMA ReachIsBounded ==
    ASSUME TypeOK, NEW t \in Grid, NEW i \in Mapped(t)
    PROVE  /\ Others(t) \in Nat /\ restarts + faults \in Nat
           /\ Others(t) * (restarts + faults) \in Nat
           /\ Slack(t, i) \in Nat /\ Slack(t, i) <= Others(t)
           /\ Reach(t, i) \in Nat
           /\ Reach(t, i) <= Others(t) * (restarts + faults) + Others(t)
           /\ Others(t) * (restarts + faults + 1) = Others(t) * (restarts + faults) + Others(t)
  <1>1. restarts + faults \in Nat
    BY FaultCounts
  <1>2. /\ IsFiniteSet(Earlier(t, i)) /\ Cardinality(Earlier(t, i)) \in Nat
        /\ IsFiniteSet(Later(t, i)) /\ Cardinality(Later(t, i)) \in Nat
        /\ Others(t) = Cardinality(Earlier(t, i)) + Cardinality(Later(t, i))
    BY OthersAreSplit
  <1>3. /\ Cardinality(Earlier(t, i) \ todo) \in Nat
        /\ Cardinality(Earlier(t, i) \ todo) <= Cardinality(Earlier(t, i))
        /\ Cardinality(Later(t, i) \ todo) \in Nat
        /\ Cardinality(Later(t, i) \ todo) <= Cardinality(Later(t, i))
    BY <1>2, LeftOver
  <1>4. /\ Others(t) * (restarts + faults) \in Nat
        /\ Others(t) * (restarts + faults + 1) = Others(t) * (restarts + faults) + Others(t)
    BY <1>1, <1>2, Budget
  <1>5. Slack(t, i) \in Nat /\ Slack(t, i) <= Others(t)
    BY <1>2, <1>3 DEF Slack
  <1> QED
    BY <1>1, <1>2, <1>4, <1>5 DEF Reach

LEMMA RowsTyped ==
    ASSUME TypeOK, NEW t \in Grid
    PROVE  /\ rows[t] \in Seq(Cell \cup Mainshock) /\ RowLimit[t] \in Nat \ {0}
           /\ \A k \in DOMAIN rows[t] : k \in Nat
  <1>1. rows[t] \in Seq(Cell \cup Mainshock)
    BY DEF TypeOK
  <1> QED
    BY <1>1, ForecastAssumption

\* A step spends one fault or restart at most; what it leaves of the budget
\* was there before.
Spends == restarts' + faults' = restarts + faults \/ restarts' + faults' = restarts + faults + 1

LEMMA BudgetSpent ==
    ASSUME TypeOK, NEW t \in Grid, NEW i \in Mapped(t), Spends,
           Others(t) * (restarts' + faults' + 1) < RowLimit[t]
    PROVE  /\ Others(t) * (restarts + faults + 1) < RowLimit[t]
           /\ Others(t) * (restarts' + faults') \in Nat
           /\ Others(t) * (restarts + faults) <= Others(t) * (restarts' + faults')
           /\ restarts' + faults' = restarts + faults + 1 =>
                 Others(t) * (restarts' + faults') = Others(t) * (restarts + faults) + Others(t)
  <1> DEFINE o == Others(t)
             c == restarts + faults
             e == restarts' + faults'
  <1>1. /\ o \in Nat /\ c \in Nat /\ o * c \in Nat /\ o * (c + 1) = o * c + o
        /\ o * (c + 1 + 1) = o * c + o + o
    BY ReachIsBounded, Budget
  <1>2. RowLimit[t] \in Nat
    BY RowsTyped
  <1>3. e = c \/ e = c + 1
    BY DEF Spends
  <1>4. o * (e + 1) < RowLimit[t]
    OBVIOUS
  <1> HIDE DEF o, c, e
  <1>5. CASE e = c
    BY <1>1, <1>4, <1>5 DEF o, c, e
  <1>6. CASE e = c + 1
    <2>1. o * e = o * c + o /\ o * (e + 1) = o * c + o + o
      BY <1>1, <1>6
    <2>2. o * (c + 1) < RowLimit[t] /\ o * e \in Nat /\ o * c <= o * e
      BY <1>1, <1>2, <1>4, <2>1
    <2> QED
      BY <2>1, <2>2 DEF o, c, e
  <1> QED
    BY <1>3, <1>5, <1>6

\* While the rows stay, an item stays on its map if its reach does not shrink.
LEMMA ReachGrows ==
    ASSUME TypeOK, NEW t \in Grid, RunInv(t), MapInv(t), Spends,
           Others(t) * (restarts' + faults' + 1) < RowLimit[t],
           rows'[t] = rows[t], NEW i \in written[t], ~Gone(t, i),
           Reach(t, i)' \in Nat, Reach(t, i) <= Reach(t, i)'
    PROVE  \E k \in DOMAIN rows'[t] : rows'[t][k] = i /\ k <= Reach(t, i)' + 1
  <1>1. i \in Mapped(t)
    BY DEF RunInv
  <1>2. PICK k \in DOMAIN rows[t] : rows[t][k] = i /\ k <= Reach(t, i) + 1
    BY <1>1, BudgetSpent DEF MapInv
  <1>3. k \in Nat /\ Reach(t, i) \in Nat
    BY <1>1, RowsTyped, ReachIsBounded
  <1> QED
    BY <1>2, <1>3

LEMMA SameItems ==
    ASSUME NEW t, NEW i
    PROVE  /\ Others(t)' = Others(t) /\ Mapped(t)' = Mapped(t)
           /\ Earlier(t, i)' = Earlier(t, i) /\ Later(t, i)' = Later(t, i)
  BY DEF Others, Mapped, Earlier, Later

\* A step of the loop or of the environment that is none of this map's run.
LEMMA ShownStays ==
    ASSUME TypeOK, NEW t \in Grid, RunInv(t), MapInv(t), Spends,
           rows'[t] = rows[t], written'[t] = written[t],
           pc' = Rows[t] <=> pc = Rows[t], pc = Rows[t] => todo' = todo,
           \A i \in Items[t] : (Begun(t, i) => Begun(t, i)') /\ (Gone(t, i) => Gone(t, i)')
    PROVE  RunInv(t)' /\ MapInv(t)'
  <1>1. RunInv(t)'
    BY DEF RunInv, Mapped
  <1>2. ASSUME Others(t) * (restarts' + faults' + 1) < RowLimit[t],
               NEW i \in written[t], ~Gone(t, i)'
        PROVE  \E k \in DOMAIN rows'[t] : rows'[t][k] = i /\ k <= Reach(t, i)' + 1
    <2>1. i \in Mapped(t) /\ i \in Items[t] /\ ~Gone(t, i)
      BY <1>2 DEF RunInv, Mapped
    <2>2. Slack(t, i)' = Slack(t, i)
      BY SameItems DEF Slack
    <2>3. /\ Reach(t, i) = Others(t) * (restarts + faults) + Slack(t, i)
          /\ Reach(t, i)' = Others(t) * (restarts' + faults') + Slack(t, i)
      BY <2>2, SameItems DEF Reach
    <2>4. Reach(t, i)' \in Nat /\ Reach(t, i) <= Reach(t, i)'
      BY <1>2, <2>1, <2>3, ReachIsBounded, BudgetSpent
    <2> QED
      BY <1>2, <2>1, <2>4, ReachGrows
  <1> QED
    BY <1>1, <1>2, SameItems DEF MapInv

\* The run ends with all its rows written, or is cut off at the price of a fault.
LEMMA ShownRunEnds ==
    ASSUME TypeOK, NEW t \in Grid, RunInv(t), MapInv(t), Spends,
           rows'[t] = rows[t], written'[t] = written[t],
           pc = Rows[t], pc' # Rows[t],
           todo = {} \/ restarts' + faults' = restarts + faults + 1,
           \A i \in Items[t] : (Begun(t, i) => Begun(t, i)') /\ (Gone(t, i) => Gone(t, i)')
    PROVE  RunInv(t)' /\ MapInv(t)'
  <1>1. RunInv(t)'
    BY DEF RunInv, Mapped
  <1>2. ASSUME Others(t) * (restarts' + faults' + 1) < RowLimit[t],
               NEW i \in written[t], ~Gone(t, i)'
        PROVE  \E k \in DOMAIN rows'[t] : rows'[t][k] = i /\ k <= Reach(t, i)' + 1
    <2>1. i \in Mapped(t) /\ i \in Items[t] /\ ~Gone(t, i)
      BY <1>2 DEF RunInv, Mapped
    <2>2. Slack(t, i)' = Cardinality(Later(t, i)) /\ Slack(t, i)' \in Nat
      BY <2>1, SameItems, OthersAreSplit DEF Slack
    <2>3. Reach(t, i)' = Others(t) * (restarts' + faults') + Slack(t, i)'
      BY SameItems DEF Reach
    <2>4. Reach(t, i)' \in Nat
      BY <1>2, <2>1, <2>2, <2>3, BudgetSpent
    <2>5. CASE todo = {}
      <3>1. Later(t, i) \ todo = Later(t, i)
        BY <2>5
      <3>2. Slack(t, i) = Slack(t, i)'
        BY <2>2, <2>5, <3>1 DEF Slack
      <3>3. Reach(t, i) <= Reach(t, i)'
        BY <1>2, <2>1, <2>2, <2>3, <3>2, ReachIsBounded, BudgetSpent DEF Reach
      <3> QED
        BY <1>2, <2>1, <2>4, <3>3, ReachGrows
    <2>6. CASE restarts' + faults' = restarts + faults + 1
      <3>1. Reach(t, i) <= Reach(t, i)'
        BY <1>2, <2>1, <2>2, <2>3, <2>6, ReachIsBounded, BudgetSpent
      <3> QED
        BY <1>2, <2>1, <2>4, <3>1, ReachGrows
    <2> QED
      BY <2>5, <2>6
  <1> QED
    BY <1>1, <1>2, SameItems DEF MapInv

\* A run begins with all items that have an input and are not gone.
LEMMA ShownRunBegins ==
    ASSUME TypeOK, NEW t \in Grid, RunInv(t), MapInv(t),
           UNCHANGED <<rows, written, stage, ripe, counters>>,
           pc # Rows[t], pc' = Rows[t], todo' = Selected(t)
    PROVE  RunInv(t)' /\ MapInv(t)'
  <1>1. Spends /\ restarts' = restarts /\ faults' = faults
    BY DEF Spends, counters
  <1>2. /\ Selected(t) \subseteq Items[t] /\ \A i \in Selected(t) : Begun(t, i)
        /\ \A i \in Items[t] : Begun(t, i) => Gone(t, i) \/ i \in Selected(t)
    <2>1. ripe \subseteq Cell /\ \A e \in Mainshock : stage[e] \in {"unborn", "recent", "old"}
      BY ForecastAssumption DEF TypeOK
    <2>2. CASE t = "gr"
      BY <2>1, <2>2 DEF Selected, Items, Grid, Begun
    <2>3. CASE t = "etas"
      BY <2>1, <2>3 DEF Selected, Items, Grid, Begun, Gone
    <2> QED
      BY <2>2, <2>3 DEF Grid
  <1>3. \A i \in written[t] : Gone(t, i) \/ i \in todo'
    BY <1>2 DEF RunInv, Mapped
  <1>4. RunInv(t)'
    BY <1>2, <1>3 DEF RunInv, Mapped, Begun, Gone
  <1>5. ASSUME Others(t) * (restarts' + faults' + 1) < RowLimit[t],
               NEW i \in written[t], ~Gone(t, i)'
        PROVE  \E k \in DOMAIN rows'[t] : rows'[t][k] = i /\ k <= Reach(t, i)' + 1
    <2>1. i \in Mapped(t) /\ ~Gone(t, i)
      BY <1>5 DEF RunInv, Gone
    <2>2. i \in todo'
      BY <1>3, <2>1
    <2>3. /\ Slack(t, i) = Cardinality(Later(t, i))
          /\ Slack(t, i)' = Cardinality(Later(t, i)) + Cardinality(Earlier(t, i) \ todo')
      BY <2>2, SameItems DEF Slack
    <2>4. Cardinality(Earlier(t, i) \ todo') \in Nat
      BY <2>1, OthersAreSplit, LeftOver
    <2>5. Reach(t, i)' = Reach(t, i) + Cardinality(Earlier(t, i) \ todo')
      BY <1>1, <2>1, <2>3, <2>4, SameItems, ReachIsBounded DEF Reach
    <2>6. Reach(t, i)' \in Nat /\ Reach(t, i) <= Reach(t, i)'
      BY <2>1, <2>4, <2>5, ReachIsBounded
    <2> QED
      BY <1>1, <1>5, <2>1, <2>6, ReachGrows
  <1> QED
    BY <1>4, <1>5, SameItems DEF MapInv

LEMMA OneMore ==
    ASSUME NEW S, IsFiniteSet(S), NEW T, NEW x \in S \cap T
    PROVE  Cardinality(S \ (T \ {x})) = Cardinality(S \ T) + 1
  <1>1. IsFiniteSet(S \ T) /\ x \notin S \ T /\ S \ (T \ {x}) = (S \ T) \cup {x}
    BY FS_Subset
  <1> QED
    BY <1>1, FS_AddElement

LEMMA NotFewer ==
    ASSUME NEW S, IsFiniteSet(S), NEW T, NEW x
    PROVE  Cardinality(S \ T) <= Cardinality(S \ (T \ {x}))
  <1>1. IsFiniteSet(S \ (T \ {x})) /\ S \ T \subseteq S \ (T \ {x})
    BY FS_Subset
  <1> QED
    BY <1>1, FS_Subset

LEMMA RunOrder ==
    ASSUME NEW t \in Grid, NEW i \in Items[t], NextItem(t, i), todo \subseteq Items[t]
    PROVE  \A j \in todo \ {i} : Before(t, i, j) /\ ~Before(t, j, i)
  BY ItemsTyped DEF NextItem, Before

\* The next item of the run is written, fails, or has no geometry.
LEMMA ShownRowWritten ==
    ASSUME TypeOK, NEW t \in Grid, NEW i \in Items[t], RunInv(t), MapInv(t), WriteRow(t, i)
    PROVE  RunInv(t)' /\ MapInv(t)'
  <1>1. /\ pc = Rows[t] /\ pc' = Rows[t] /\ i \in todo /\ NextItem(t, i) /\ todo' = todo \ {i}
        /\ stage' = stage /\ ripe' = ripe
    BY DEF WriteRow, NextItem, world
  <1>2. todo \subseteq Items[t] /\ Begun(t, i)
    BY <1>1 DEF RunInv
  <1>3. \A j \in todo \ {i} : Before(t, i, j)
    BY <1>1, <1>2, RunOrder
  <1>4. CASE i \notin Unmapped /\ Insert(t, i) /\ UNCHANGED counters
    <2>1. i \in Mapped(t) /\ Spends /\ restarts' = restarts /\ faults' = faults
      BY <1>4 DEF Mapped, Spends, counters
    <2>2. rows'[t] = Pushed(i, rows[t], RowLimit[t]) /\ written'[t] = written[t] \cup {i}
      BY <1>4 DEF Insert, TypeOK, Pushed
    <2>3. RunInv(t)'
      BY <1>1, <1>2, <1>3, <2>1, <2>2 DEF RunInv, Mapped, Begun, Gone
    <2> DEFINE new == Pushed(i, rows[t], RowLimit[t])
    <2>4. /\ 1 \in DOMAIN new /\ new[1] = i
          /\ \A k \in DOMAIN rows[t] : k < RowLimit[t] => k + 1 \in DOMAIN new /\ new[k + 1] = rows[t][k]
      <3> DEFINE S == Cell \cup Mainshock
      <3>1. i \in S /\ rows[t] \in Seq(S) /\ RowLimit[t] \in Nat \ {0}
        BY RowsAreSteps, RowsTyped
      <3> HIDE DEF S, new
      <3>2. PutFirst(Pushed(i, rows[t], RowLimit[t]), i, rows[t], RowLimit[t])
        BY <3>1, RowsPushed, Zenon
      <3> QED
        BY <3>2 DEF new, PutFirst
    <2> HIDE DEF new
    <2>5. ASSUME Others(t) * (restarts' + faults' + 1) < RowLimit[t],
                 NEW j \in written'[t], ~Gone(t, j)'
          PROVE  \E k \in DOMAIN new : new[k] = j /\ k <= Reach(t, j)' + 1
      <3>1. j \in Mapped(t) /\ ~Gone(t, j)
        BY <1>1, <2>1, <2>2, <2>5 DEF RunInv, Gone
      <3>2. Reach(t, j)' = Others(t) * (restarts + faults) + Slack(t, j)'
        BY <2>1, SameItems DEF Reach
      <3>3. CASE j = i
        <4>1. Slack(t, j)' = Cardinality(Later(t, j) \ todo') /\ Slack(t, j)' \in Nat
          BY <1>1, <3>1, <3>3, SameItems, OthersAreSplit, LeftOver DEF Slack
        <4>2. Reach(t, j)' \in Nat
          BY <3>1, <3>2, <4>1, ReachIsBounded
        <4> QED
          BY <2>4, <3>3, <4>2
      <3>4. CASE j # i
        <4>1. j \in written[t]
          BY <2>2, <3>4
        <4>2. Slack(t, j)' = Slack(t, j) + 1
          <5>1. IsFiniteSet(Earlier(t, j)) /\ IsFiniteSet(Later(t, j))
            BY <3>1, OthersAreSplit
          <5>2. CASE j \in todo
            <6>1. i \in Earlier(t, j) \cap todo
              BY <1>1, <1>3, <2>1, <3>4, <5>2 DEF Earlier
            <6>2. Cardinality(Earlier(t, j) \ todo') = Cardinality(Earlier(t, j) \ todo) + 1
              BY <1>1, <5>1, <6>1, OneMore
            <6>3. j \in todo' /\ Cardinality(Later(t, j)) \in Nat /\ Cardinality(Earlier(t, j) \ todo) \in Nat
              BY <1>1, <3>1, <3>4, <5>1, <5>2, OthersAreSplit, LeftOver
            <6>4. /\ Slack(t, j) = Cardinality(Later(t, j)) + Cardinality(Earlier(t, j) \ todo)
                  /\ Slack(t, j)' = Cardinality(Later(t, j)) + Cardinality(Earlier(t, j) \ todo')
              BY <1>1, <5>2, <6>3, SameItems DEF Slack
            <6> QED
              BY <6>2, <6>3, <6>4
          <5>3. CASE j \notin todo
            <6>1. i \in Later(t, j) \cap todo
              BY <1>1, <2>1, <3>1, <4>1, <5>3 DEF RunInv, Later
            <6>2. Cardinality(Later(t, j) \ todo') = Cardinality(Later(t, j) \ todo) + 1
              BY <1>1, <5>1, <6>1, OneMore
            <6>3. /\ Slack(t, j) = Cardinality(Later(t, j) \ todo)
                  /\ Slack(t, j)' = Cardinality(Later(t, j) \ todo')
              BY <1>1, <5>3, SameItems DEF Slack
            <6> QED
              BY <6>2, <6>3
          <5> QED
            BY <5>2, <5>3
        <4>3. /\ Reach(t, j)' = Reach(t, j) + 1 /\ Reach(t, j) \in Nat
              /\ Others(t) * (restarts + faults) \in Nat /\ Slack(t, j) \in Nat
          BY <3>1, <3>2, <4>2, ReachIsBounded DEF Reach
        <4>4. PICK k \in DOMAIN rows[t] : rows[t][k] = j /\ k <= Reach(t, j) + 1
          BY <2>1, <2>5, <3>1, <4>1, BudgetSpent DEF MapInv
        <4>5. k \in Nat /\ k < RowLimit[t]
          <5>1. k \in Nat /\ RowLimit[t] \in Nat
            BY RowsTyped
          <5>2. Others(t) * (restarts + faults + 1) < RowLimit[t]
            BY <2>1, <2>5
          <5>3. Slack(t, j) + 1 <= Others(t)
            <6>1. pc' = Rows[t] /\ Slack(t, j)' = Slack(t, j) + 1
              BY <1>1, <4>2
            <6>2. /\ Cardinality(Earlier(t, j) \ todo') <= Cardinality(Earlier(t, j))
                  /\ Cardinality(Later(t, j) \ todo') <= Cardinality(Later(t, j))
                  /\ Cardinality(Earlier(t, j) \ todo') \in Nat /\ Cardinality(Later(t, j) \ todo') \in Nat
              BY <3>1, OthersAreSplit, LeftOver
            <6>3. Slack(t, j)' <= Others(t)
              BY <3>1, <6>1, <6>2, SameItems, OthersAreSplit DEF Slack
            <6> QED
              BY <6>1, <6>3
          <5>4. Reach(t, j) + 1 <= Others(t) * (restarts + faults) + Others(t)
            BY <3>1, <4>3, <5>3, ReachIsBounded DEF Reach
          <5> QED
            BY <3>1, <4>3, <4>4, <5>1, <5>2, <5>4, ReachIsBounded
        <4>6. k + 1 \in DOMAIN new /\ new[k + 1] = j /\ k + 1 <= Reach(t, j)' + 1
          BY <2>4, <4>3, <4>4, <4>5
        <4> QED
          BY <4>6
      <3> QED
        BY <3>3, <3>4
    <2>6. MapInv(t)'
      BY <2>2, <2>5, SameItems DEF MapInv, new
    <2> QED
      BY <2>3, <2>6
  <1>5. CASE /\ UNCHANGED <<rows, written>>
             /\ \/ i \in Unmapped /\ UNCHANGED counters
                \/ Fault /\ UNCHANGED restarts
    <2>1. /\ Spends /\ restarts' \in Nat /\ faults' \in Nat
          /\ i \in Unmapped \/ restarts' + faults' = restarts + faults + 1
      BY <1>5, FaultCounts DEF Spends
    <2>2. RunInv(t)'
      BY <1>1, <1>3, <1>5 DEF RunInv, Mapped, Begun, Gone
    <2>3. ASSUME Others(t) * (restarts' + faults' + 1) < RowLimit[t],
                 NEW j \in written[t], ~Gone(t, j)'
          PROVE  \E k \in DOMAIN rows'[t] : rows'[t][k] = j /\ k <= Reach(t, j)' + 1
      <3>1. j \in Mapped(t) /\ ~Gone(t, j)
        BY <1>1, <2>3 DEF RunInv, Gone
      <3>2. Reach(t, j)' = Others(t) * (restarts' + faults') + Slack(t, j)'
        BY SameItems DEF Reach
      <3>3. /\ IsFiniteSet(Earlier(t, j)) /\ IsFiniteSet(Later(t, j)) /\ Cardinality(Later(t, j)) \in Nat
            /\ Cardinality(Earlier(t, j) \ todo) \in Nat /\ Cardinality(Earlier(t, j) \ todo') \in Nat
            /\ Cardinality(Later(t, j) \ todo) \in Nat /\ Cardinality(Later(t, j) \ todo') \in Nat
        BY <3>1, OthersAreSplit, LeftOver
      <3>4. Slack(t, j)' \in Nat
        BY <1>1, <3>3, SameItems DEF Slack
      <3>5. Reach(t, j)' \in Nat
        BY <2>1, <2>3, <3>1, <3>2, <3>4, BudgetSpent
      <3>6. CASE j = i
        <4>1. restarts' + faults' = restarts + faults + 1
          BY <2>1, <3>1, <3>6 DEF Mapped
        <4>2. Reach(t, j) <= Reach(t, j)'
          BY <2>1, <2>3, <3>1, <3>2, <3>4, <4>1, ReachIsBounded, BudgetSpent
        <4> QED
          BY <1>5, <2>1, <2>3, <3>1, <3>5, <4>2, ReachGrows
      <3>7. CASE j # i
        <4>1. /\ Cardinality(Earlier(t, j) \ todo) <= Cardinality(Earlier(t, j) \ todo')
              /\ Cardinality(Later(t, j) \ todo) <= Cardinality(Later(t, j) \ todo')
          BY <1>1, <3>3, NotFewer
        <4>2. j \in todo' <=> j \in todo
          BY <1>1, <3>7
        <4>3. Slack(t, j) <= Slack(t, j)'
          BY <1>1, <3>3, <4>1, <4>2, SameItems DEF Slack
        <4>4. Reach(t, j) <= Reach(t, j)'
          BY <2>1, <2>3, <3>1, <3>2, <3>4, <4>3, ReachIsBounded, BudgetSpent DEF Reach
        <4> QED
          BY <1>5, <2>1, <2>3, <3>1, <3>5, <4>4, ReachGrows
      <3> QED
        BY <3>6, <3>7
    <2>4. MapInv(t)'
      BY <1>5, <2>3, SameItems DEF MapInv
    <2> QED
      BY <2>2, <2>4
  <1>6. \/ Insert(t, i) /\ UNCHANGED counters
        \/ Fault /\ UNCHANGED <<rows, written, restarts>>
    BY DEF WriteRow
  <1>7. i \in Unmapped => (Insert(t, i) => UNCHANGED <<rows, written>>)
    BY DEF Insert
  <1> QED
    BY <1>4, <1>5, <1>6, <1>7

\* The fields of a map's run in a step of another part of the service.
LEMMA EndTaskIsElsewhere ==
    ASSUME NEW t \in Task, EndTask(t), NEW u \in Grid
    PROVE  pc' # Rows[u]
  BY DEF EndTask, First, Rows, Grid

LEMMA ShownInit == Init => ShownInv
<1> SUFFICES ASSUME Init, NEW t \in Grid PROVE RunInv(t) /\ MapInv(t)
  BY DEF ShownInv
<1>1. written[t] = {} /\ pc # Rows[t]
  BY DEF Init, Rows, Grid
<1> QED
  BY <1>1 DEF RunInv, MapInv

\* Steps that leave results, counters but for a fault, and the world alone, and
\* neither begin nor end a run.
LEMMA ShownElsewhere ==
    ASSUME TypeOK, NEW t \in Grid, RunInv(t), MapInv(t),
           UNCHANGED <<rows, written, world>>,
           pc # Rows[t], pc' # Rows[t],
           UNCHANGED counters \/ (Fault /\ UNCHANGED restarts)
    PROVE  RunInv(t)' /\ MapInv(t)'
  <1>1. Spends
    BY FaultCounts DEF Spends
  <1>2. stage' = stage /\ ripe' = ripe
    BY DEF world
  <1> QED
    BY <1>1, <1>2, ShownStays DEF Begun, Gone

LEMMA ShownStep == TypeOK /\ ShownInv /\ [Next]_vars => ShownInv'
<1> SUFFICES ASSUME TypeOK, [Next]_vars, NEW t \in Grid, RunInv(t), MapInv(t)
             PROVE  RunInv(t)' /\ MapInv(t)'
  BY DEF ShownInv
<1>0. t \in Task /\ Rows[t] \in {"gr rows", "etas rows"}
  BY DEF Grid, Task, Rows
<1>1. CASE Start \/ BeginCycle \/ TrainSkip \/ Train \/ TrainFails
  <2>1. pc # Rows[t] /\ pc' # Rows[t] /\ UNCHANGED <<rows, written, world>>
    BY <1>0, <1>1 DEF Start, BeginCycle, First, TrainSkip, Train, TrainFails, tables
  <2>2. UNCHANGED counters \/ (Fault /\ UNCHANGED restarts)
    BY <1>1 DEF Start, BeginCycle, TrainSkip, Train, TrainFails
  <2> QED
    BY <2>1, <2>2, ShownElsewhere
<1>2. CASE Deactivate \/ Activate
  <2>1. pc # Rows[t] /\ pc' # Rows[t] /\ UNCHANGED <<rows, written, world>>
    BY <1>0, <1>2 DEF Deactivate, Activate
  <2>2. UNCHANGED counters \/ (Fault /\ UNCHANGED restarts)
    BY <1>2 DEF Deactivate, Activate
  <2> QED
    BY <2>1, <2>2, ShownElsewhere
<1>3. CASE ReadUnclassified \/ Predict
  <2>1. pc # Rows[t] /\ UNCHANGED <<rows, written, world>>
    BY <1>0, <1>3 DEF ReadUnclassified, Predict, tables
  <2>2. pc' # Rows[t]
    BY <1>0, <1>3, EndTaskIsElsewhere DEF ReadUnclassified, Predict, Task
  <2>3. UNCHANGED counters \/ (Fault /\ UNCHANGED restarts)
    BY <1>3 DEF ReadUnclassified, Predict, counters
  <2> QED
    BY <2>1, <2>2, <2>3, ShownElsewhere
<1>4. ASSUME NEW u \in Grid, ReadItems(u) PROVE RunInv(t)' /\ MapInv(t)'
  <2>1. u \in Task /\ pc # Rows[t] /\ UNCHANGED <<rows, written, world>> /\ (u # t => Rows[u] # Rows[t])
    BY <1>0, <1>4 DEF ReadItems, Rows, Grid, Task, tables
  <2>2. CASE pc' = Rows[u] /\ todo' = Selected(u) /\ UNCHANGED <<due, age, counters>>
    <3>1. CASE u = t
      <4>1. pc # Rows[t] /\ pc' = Rows[t] /\ todo' = Selected(t)
        BY <2>1, <2>2, <3>1
      <4>2. UNCHANGED <<rows, written, stage, ripe, counters>>
        BY <2>1, <2>2 DEF world
      <4> QED
        BY <4>1, <4>2, ShownRunBegins
    <3>2. CASE u # t
      <4>1. pc # Rows[t] /\ pc' # Rows[t]
        BY <2>1, <2>2, <3>2
      <4>2. UNCHANGED <<rows, written, world>> /\ UNCHANGED counters
        BY <2>1, <2>2
      <4> QED
        BY <4>1, <4>2, ShownElsewhere
    <3> QED
      BY <3>1, <3>2
  <2>3. CASE EndTask(u) /\ (UNCHANGED counters \/ (Fault /\ UNCHANGED restarts))
    <3>1. pc' # Rows[t]
      BY <2>1, <2>3, EndTaskIsElsewhere
    <3> QED
      BY <2>1, <2>3, <3>1, ShownElsewhere
  <2> QED
    BY <1>4, <2>2, <2>3 DEF ReadItems
<1>5. ASSUME NEW u \in Grid, EndRows(u) PROVE RunInv(t)' /\ MapInv(t)'
  <2>1. u \in Task /\ EndTask(u) /\ pc = Rows[u] /\ todo = {} /\ UNCHANGED <<rows, written, world, counters>>
    BY <1>5 DEF EndRows, Grid, Task, tables
  <2>2. pc' # Rows[t]
    BY <2>1, EndTaskIsElsewhere
  <2>3. CASE u = t
    <3>1. Spends /\ stage' = stage /\ ripe' = ripe
      BY <2>1 DEF Spends, counters, world
    <3> QED
      BY <2>1, <2>2, <2>3, <3>1, ShownRunEnds DEF Begun, Gone
  <2>4. CASE u # t
    <3>1. pc # Rows[t]
      BY <2>1, <2>4 DEF Rows, Grid
    <3>2. UNCHANGED <<rows, written, world>> /\ UNCHANGED counters
      BY <2>1
    <3> QED
      BY <2>2, <3>1, <3>2, ShownElsewhere
  <2> QED
    BY <2>3, <2>4
<1>6. ASSUME NEW u \in Grid, NEW i \in Items[u], WriteRow(u, i) PROVE RunInv(t)' /\ MapInv(t)'
  <2>1. CASE u = t
    BY <1>6, <2>1, ShownRowWritten
  <2>2. CASE u # t
    <3>1. pc = Rows[u] /\ pc' = Rows[u] /\ Rows[u] # Rows[t]
      BY <1>6, <2>2 DEF WriteRow, Rows, Grid
    <3>2. rows'[t] = rows[t] /\ written'[t] = written[t]
      <4>1. CASE UNCHANGED <<rows, written>>
        BY <4>1
      <4>2. CASE /\ rows' = [rows EXCEPT ![u] = Newest(<<i>> \o @, RowLimit[u])]
                 /\ written' = [written EXCEPT ![u] = @ \cup {i}]
        BY <2>2, <4>2 DEF TypeOK
      <4> QED
        BY <1>6, <4>1, <4>2, Zenon DEF WriteRow, Insert
    <3>3. Spends /\ stage' = stage /\ ripe' = ripe
      BY <1>6, FaultCounts DEF WriteRow, Spends, world
    <3> QED
      BY <3>1, <3>2, <3>3, ShownStays DEF Begun, Gone
  <2> QED
    BY <2>1, <2>2
<1>7. CASE Crash
  <2>1. /\ pc' # Rows[t] /\ UNCHANGED <<rows, written>> /\ stage' = stage /\ ripe' = ripe
        /\ restarts' + faults' = restarts + faults + 1
    <3>1. pc' # Rows[t] /\ UNCHANGED <<rows, written>>
      BY <1>0, <1>7 DEF Crash, tables
    <3>2. stage' = stage /\ ripe' = ripe
      BY <1>7 DEF Crash, world
    <3>3. restarts' = restarts + 1 /\ faults' = faults
      BY <1>7 DEF Crash
    <3> QED
      BY <3>1, <3>2, <3>3, FaultCounts
  <2>2. Spends
    BY <2>1 DEF Spends
  <2>3. CASE pc = Rows[t]
    BY <2>1, <2>2, <2>3, ShownRunEnds DEF Begun, Gone
  <2>4. CASE pc # Rows[t]
    BY <2>1, <2>2, <2>4, ShownStays DEF Begun, Gone
  <2> QED
    BY <2>3, <2>4
<1>8. CASE Tick
  BY <1>0, <1>8, ShownElsewhere DEF Tick, tables
<1>9. CASE CatalogueGrows
  <2>1. /\ UNCHANGED <<pc, todo, rows, written>> /\ Spends /\ stage' = stage /\ ripe \subseteq ripe'
    BY <1>9 DEF CatalogueGrows, process, tables, counters, Spends
  <2> QED
    BY <2>1, ShownStays DEF Begun, Gone
<1>10. ASSUME NEW e \in Event, StoreEvent(e) \/ LeaveLookback(e) PROVE RunInv(t)' /\ MapInv(t)'
  <2>1. /\ UNCHANGED <<pc, todo, rows, written>> /\ Spends /\ ripe' = ripe
        /\ \/ stage[e] = "unborn" /\ stage' = [stage EXCEPT ![e] = "recent"]
           \/ stage[e] = "recent" /\ stage' = [stage EXCEPT ![e] = "old"]
    BY <1>10 DEF StoreEvent, LeaveLookback, Ages, process, tables, counters, Spends
  <2>2. \A f \in Event : (stage[f] # "unborn" => stage'[f] # "unborn") /\ (stage[f] = "old" => stage'[f] = "old")
    BY <2>1 DEF TypeOK
  <2>3. \A i \in Items[t] : (Begun(t, i) => Begun(t, i)') /\ (Gone(t, i) => Gone(t, i)')
    BY <2>1, <2>2, ForecastAssumption DEF Begun, Gone, Items, Grid
  <2> QED
    BY <2>1, <2>3, ShownStays
<1>11. CASE UNCHANGED vars
  <2>1. UNCHANGED <<pc, todo, rows, written, stage, ripe>> /\ Spends
    BY <1>11 DEF vars, process, tables, world, counters, Spends
  <2> QED
    BY <2>1, ShownStays DEF Begun, Gone
<1> QED
  BY Steps, <1>1, <1>2, <1>3, <1>4, <1>5, <1>6, <1>7, <1>8, <1>9, <1>10, <1>11

LEMMA MapsShowResults == ASSUME TypeOK, ShownInv PROVE ResultsStayShown
  <1> SUFFICES ASSUME NEW t \in Grid, Others(t) * (restarts + faults + 1) < RowLimit[t], NEW i \in written[t]
               PROVE  i \in Shown(t) \/ (t = "etas" /\ stage[i] = "old")
    BY DEF ResultsStayShown, Others, Mapped
  <1>1. Gone(t, i) \/ \E k \in DOMAIN rows[t] : rows[t][k] = i
    BY DEF ShownInv, MapInv
  <1> QED
    BY <1>1 DEF Gone, Shown

\* A result once computed stays on the API's map (api/src/db.rs reads the newest
\* rows only) as long as the rows that faults and restarts have repeated fit
\* under the limit; the order of the two queries (forecast/db.py) is what bounds
\* the rows of two runs by those of one.
THEOREM ResultsStayShownCorrect == Spec => []ResultsStayShown
  BY TypeInit, TypeStep, ShownInit, ShownStep, MapsShowResults, PTL DEF Spec
=============================================================================
