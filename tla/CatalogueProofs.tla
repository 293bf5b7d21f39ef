-------------------------- MODULE CatalogueProofs --------------------------
(***************************************************************************)
(* What holds of the table with two writers for all reports, windows and   *)
(* bounds: its raw columns only advance, a published mainshock is a report *)
(* that was received, larger and earlier, the search misses no predecessor *)
(* of the same partition, and in the end row and topic agree.              *)
(*                                                                         *)
(* The log only grows, so what was a report stays one and an offset keeps  *)
(* its report.  Every report analysis has committed, or written, has a row *)
(* of its event; the row is as recent as all that storage has passed; and  *)
(* the enrichment of a row is the last message about its event.            *)
(***************************************************************************)
EXTENDS Catalogue, TLAPS

\* Which actions touch the log, the raw columns and earthquakes.enriched.
LEMMA Steps ==
    ASSUME [Next]_vars
    PROVE  /\ log' = log \/ \E r \in Report : Publish(r)
           /\ \/ raw' = raw
              \/ \E p \in Partition : \E o \in Offsets(p) : Upsert(p, o) \/ UpsertEnriched(p, o)
           /\ \/ enriched' = enriched
              \/ \E p \in Partition : Enrich(p) \/ EnrichUnsearched(p)
  <1>1. CASE Storage
    BY <1>1, Zenon DEF Storage, StorageFails, StorageRestart, Skip, Pass, Upsert, analysis, table
  <1>2. CASE Analysis
    BY <1>2, Zenon DEF Analysis, UpsertEnrichedFails, AnalysisRestart, Enrich, EnrichUnsearched, EnrichFails,
                       UpsertEnriched, Commit, table
  <1>3. CASE \E r \in Report : Publish(r)
    BY <1>3, Zenon DEF Publish, analysis, table
  <1>4. CASE UNCHANGED vars
    BY <1>4, Zenon DEF vars, analysis, table
  <1> QED BY <1>1, <1>2, <1>3, <1>4 DEF Next

LEMMA ReportsAre ==
    ASSUME NEW p \in Partition, NEW o \in Offsets(p)
    PROVE  At(p, o) \in Reports
  <1>1. <<p, o>> \in Produced
    BY DEF Produced
  <1> QED BY <1>1 DEF Reports

LEMMA ReportIs ==
    ASSUME log \in [Partition -> Seq(Report)], NEW p \in Partition, NEW o \in Offsets(p)
    PROVE  /\ At(p, o) \in Report /\ At(p, o) # None
           /\ At(p, o).id \in Id /\ At(p, o).time \in Int /\ At(p, o).magnitude \in Int
  <1>1. log[p] \in Seq(Report) /\ o + 1 \in 1..Len(log[p])
    BY DEF Offsets
  <1>2. At(p, o) \in Report
    BY <1>1 DEF At
  <1> QED BY <1>2, CatalogueAssumption

(* The log grows at the end of one partition.                              *)
LEMMA LogStep ==
    ASSUME log \in [Partition -> Seq(Report)], [Next]_vars
    PROVE  /\ log' \in [Partition -> Seq(Report)]
           /\ \A p \in Partition : \A o \in Offsets(p) : o \in Offsets(p)' /\ At(p, o)' = At(p, o)
           /\ Reports \subseteq Reports'
  <1> DEFINE Grows == /\ log' \in [Partition -> Seq(Report)]
                      /\ \A p \in Partition : \A o \in Offsets(p) : o \in Offsets(p)' /\ At(p, o)' = At(p, o)
  <1>1. CASE log' = log
    BY <1>1 DEF Offsets, At, Reports, Produced
  <1>2. ASSUME NEW r \in Report, Publish(r)
        PROVE  Grows
    <2> DEFINE q == PartitionOf[r.id]
    <2>1. q \in Partition /\ log' = [log EXCEPT ![q] = Append(@, r)]
      BY <1>2, CatalogueAssumption, Zenon DEF Publish, CatalogueAssumption
    <2> HIDE DEF q
    <2>2. log' \in [Partition -> Seq(Report)]
      BY <2>1
    <2>3. ASSUME NEW p \in Partition, NEW o \in Offsets(p)
          PROVE  o \in Offsets(p)' /\ At(p, o)' = At(p, o)
      <3>1. log[p] \in Seq(Report) /\ o + 1 \in 1..Len(log[p])
        BY DEF Offsets
      <3>2. CASE p = q
        <4>1. log'[p] = Append(log[p], r)
          BY <2>1, <3>2
        <4>2. Len(log'[p]) = Len(log[p]) + 1 /\ log'[p][o + 1] = log[p][o + 1]
          BY <4>1, <3>1
        <4> QED BY <4>2, <3>1 DEF Offsets, At
      <3>3. CASE p # q
        BY <2>1, <3>3 DEF Offsets, At
      <3> QED BY <3>2, <3>3
    <2> QED BY <2>2, <2>3
  <1>3. ASSUME Grows PROVE Reports \subseteq Reports'
    <2> SUFFICES ASSUME NEW c \in Reports PROVE c \in Reports'
      OBVIOUS
    <2>1. PICK a \in Produced : c = At(a[1], a[2])
      BY DEF Reports
    <2>2. PICK p \in Partition : a \in {p} \X Offsets(p)
      BY <2>1 DEF Produced
    <2>3. PICK o \in Offsets(p) : a = <<p, o>>
      BY <2>2
    <2>4. c = At(p, o)' /\ <<p, o>> \in Produced'
      BY <2>1, <2>3, <1>3 DEF Produced
    <2> QED BY <2>4 DEF Reports
  <1>4. Grows
    BY Steps, <1>1, <1>2
  <1> QED BY <1>3, <1>4

-----------------------------------------------------------------------------
(* The raw columns *)

RawInv ==
    /\ log \in [Partition -> Seq(Report)]
    /\ raw \in [Id -> Report \cup {None}]
    /\ \A i \in Id : raw[i] # None => raw[i] \in Reports /\ raw[i].id = i

\* What a step may do to the raw columns of a row.
Advances(i) ==
    raw'[i] # raw[i] =>
        /\ raw'[i] \in Reports /\ raw'[i].id = i
        /\ raw[i] # None => raw'[i].time > raw[i].time

LEMMA RawStep ==
    ASSUME RawInv, [Next]_vars
    PROVE  raw' \in [Id -> Report \cup {None}] /\ \A i \in Id : Advances(i)
  <1>0. log \in [Partition -> Seq(Report)] /\ raw \in [Id -> Report \cup {None}]
    BY DEF RawInv
  <1>1. CASE raw' = raw
    BY <1>0, <1>1 DEF Advances
  <1>2. ASSUME NEW p \in Partition, NEW o \in Offsets(p), Upsert(p, o) \/ UpsertEnriched(p, o)
        PROVE  raw' \in [Id -> Report \cup {None}] /\ \A i \in Id : Advances(i)
    <2>1. \/ raw' = raw
          \/ /\ raw' = [raw EXCEPT ![At(p, o).id] = At(p, o)]
             /\ raw[At(p, o).id] = None \/ At(p, o).time > raw[At(p, o).id].time
      BY <1>2 DEF Upsert, UpsertEnriched
    <2>2. At(p, o) \in Report /\ At(p, o).id \in Id /\ At(p, o) \in Reports
      BY <1>0, ReportIs, ReportsAre
    <2> QED BY <1>0, <1>1, <2>1, <2>2 DEF Advances
  <1> QED BY Steps, <1>1, <1>2

LEMMA RawInductive == RawInv /\ [Next]_vars => RawInv'
  <1> SUFFICES ASSUME RawInv, [Next]_vars PROVE RawInv'
    OBVIOUS
  <1>1. log' \in [Partition -> Seq(Report)] /\ Reports \subseteq Reports'
    BY LogStep DEF RawInv
  <1>2. \A i \in Id : raw'[i] # None => raw'[i] \in Reports /\ raw'[i].id = i
    BY RawStep DEF Advances, RawInv
  <1> QED BY <1>1, <1>2, RawStep DEF RawInv

LEMMA RawInvariant == Spec => []RawInv
  <1>1. Init => RawInv
    BY DEF Init, RawInv
  <1> QED BY <1>1, RawInductive, PTL DEF Spec

(* Two services that do not know of each other upsert a row: it is always  *)
(* one report of its event, and replaced by a later one only.              *)
THEOREM RawOnlyAdvancesCorrect == Spec => RawOnlyAdvances
  <1>1. RawInv /\ [Next]_vars =>
          [\A i \in Id : raw'[i] # raw[i] =>
             /\ raw'[i] \in Reports /\ raw'[i].id = i
             /\ raw[i] # None => raw'[i].time > raw[i].time]_vars
    BY RawStep DEF Advances
  <1> QED BY <1>1, RawInvariant, PTL DEF Spec, RawOnlyAdvances

-----------------------------------------------------------------------------
(* The mainshocks *)

\* c is a mainshock of the report r.
Mainshock(c, r) ==
    /\ c \in Reports
    /\ c.magnitude > r.magnitude /\ c.time < r.time
    /\ r.time - c.time <= GKTime[c.magnitude]
    /\ Distance[r.place, c.place] <= GKSpace[c.magnitude]

\* A message on earthquakes.enriched is about an offset of its partition, and
\* its mainshock is one of the report there.
Sound(p, v) ==
    /\ v.at[2] \in Offsets(p)
    /\ v.mainshock # None => Mainshock(v.mainshock, At(p, v.at[2]))

EnrichedInv ==
    /\ RawInv
    /\ analysisAt \in [Partition -> Nat]
    /\ enriched \in [Partition -> Seq(Verdict)]
    /\ \A p \in Partition : \A k \in DOMAIN enriched[p] : Sound(p, enriched[p][k])

LEMMA AnalysisAtStep ==
    ASSUME analysisAt \in [Partition -> Nat], [Next]_vars
    PROVE  analysisAt' \in [Partition -> Nat]
  <1>1. \/ analysisAt' = analysisAt
        \/ \E p \in Partition : EnrichFails(p) \/ \E o \in Offsets(p) : Commit(p, o)
    <2>1. CASE Storage
      BY <2>1, Zenon DEF Storage, StorageFails, StorageRestart, Skip, Pass, Upsert, analysis
    <2>2. CASE Analysis
      BY <2>2, Zenon DEF Analysis, UpsertEnrichedFails, AnalysisRestart, Enrich, EnrichUnsearched,
                         UpsertEnriched
    <2>3. CASE \E r \in Report : Publish(r)
      BY <2>3, Zenon DEF Publish, analysis
    <2>4. CASE UNCHANGED vars
      BY <2>4, Zenon DEF vars, analysis
    <2> QED BY <2>1, <2>2, <2>3, <2>4 DEF Next
  <1>2. ASSUME NEW p \in Partition, EnrichFails(p) PROVE analysisAt' \in [Partition -> Nat]
    BY <1>2 DEF EnrichFails
  <1>3. ASSUME NEW p \in Partition, NEW o \in Offsets(p), Commit(p, o)
        PROVE  analysisAt' \in [Partition -> Nat]
    BY <1>3 DEF Commit, Offsets
  <1> QED BY <1>1, <1>2, <1>3

\* A mainshock and the report it is of stay what they are.
LEMMA SoundStable ==
    ASSUME log \in [Partition -> Seq(Report)], [Next]_vars,
           NEW p \in Partition, NEW v, Sound(p, v)
    PROVE  Sound(p, v)'
  <1>1. v.at[2] \in Offsets(p)' /\ At(p, v.at[2])' = At(p, v.at[2]) /\ Reports \subseteq Reports'
    BY LogStep DEF Sound
  <1> QED BY <1>1 DEF Sound, Mainshock

LEMMA FoundIs ==
    ASSUME RawInv, NEW r, NEW c \in Found(r), c # None
    PROVE  c \in Reports /\ c \in Report /\ c.magnitude > r.magnitude /\ c.time < r.time
  <1>1. c \in Rows /\ Qualifies(c, r)
    BY DEF Found
  <1>2. PICK i \in Id : raw[i] # None /\ c = raw[i]
    BY <1>1 DEF Rows
  <1> QED BY <1>1, <1>2 DEF RawInv, Qualifies

\* The verdict on the report in hand is sound.
LEMMA VerdictIs ==
    ASSUME RawInv, analysisAt \in [Partition -> Nat],
           NEW p \in Partition, Enrich(p) \/ EnrichUnsearched(p)
    PROVE  \E v \in Verdict :
             /\ Sound(p, v) /\ enriched' = [enriched EXCEPT ![p] = Append(@, v)]
             /\ v = verdict' /\ v.at = <<p, analysisAt[p]>>
             /\ v.found \in Found(At(p, analysisAt[p])) \/ Fault
  <1> DEFINE o == analysisAt[p]
             r == At(p, o)
  <1>1. o \in Offsets(p) /\ o \in Nat
    BY DEF Enrich, EnrichUnsearched, Offsets, RawInv
  <1>2. r \in Report
    BY <1>1, ReportIs DEF RawInv
  <1>3. CASE Enrich(p)
    <2>1. PICK c \in Found(r) :
            verdict' = [at |-> <<p, o>>, found |-> c,
                        mainshock |-> IF c # None /\ InWindow(r, c) THEN c ELSE None]
      BY <1>3 DEF Enrich
    <2> DEFINE v == [at |-> <<p, o>>, found |-> c,
                     mainshock |-> IF c # None /\ InWindow(r, c) THEN c ELSE None]
    <2>2. c = None \/ (c \in Report /\ (InWindow(r, c) => Mainshock(c, r)))
      BY <2>1, FoundIs DEF InWindow, Mainshock
    <2>3. v \in Verdict
      BY <2>2, <1>1 DEF Verdict
    <2>4. Sound(p, v)
      BY <2>2, <1>1 DEF Sound
    <2>5. enriched' = [enriched EXCEPT ![p] = Append(@, v)]
      BY <1>3, <2>1 DEF Enrich
    <2>6. v = verdict' /\ v.at = <<p, analysisAt[p]>> /\ v.found \in Found(At(p, analysisAt[p]))
      BY <2>1
    <2> HIDE DEF v
    <2> QED BY <2>3, <2>4, <2>5, <2>6
  <1>4. CASE EnrichUnsearched(p)
    <2> DEFINE v == [at |-> <<p, o>>, found |-> None, mainshock |-> None]
    <2>1. v \in Verdict /\ Sound(p, v)
      BY <1>1 DEF Verdict, Sound
    <2>2. enriched' = [enriched EXCEPT ![p] = Append(@, v)]
      BY <1>4 DEF EnrichUnsearched
    <2>3. v = verdict' /\ v.at = <<p, analysisAt[p]>> /\ Fault
      BY <1>4 DEF EnrichUnsearched
    <2> HIDE DEF v
    <2> QED BY <2>1, <2>2, <2>3
  <1> QED BY <1>3, <1>4

LEMMA EnrichedStep ==
    ASSUME EnrichedInv, [Next]_vars
    PROVE  /\ enriched' \in [Partition -> Seq(Verdict)]
           /\ \A p \in Partition : \A k \in DOMAIN enriched'[p] : \A v : v = enriched'[p][k] => Sound(p, v)'
  <1> DEFINE Goal ==
        /\ enriched' \in [Partition -> Seq(Verdict)]
        /\ \A p \in Partition : \A k \in DOMAIN enriched'[p] : \A v : v = enriched'[p][k] => Sound(p, v)'
  <1>0. /\ enriched \in [Partition -> Seq(Verdict)] /\ log \in [Partition -> Seq(Report)]
        /\ RawInv /\ analysisAt \in [Partition -> Nat]
    BY DEF EnrichedInv, RawInv
  <1>s. \A p \in Partition : \A v : Sound(p, v) => Sound(p, v)'
    BY <1>0, SoundStable
  <1>k. \A p \in Partition : \A k \in DOMAIN enriched[p] : \A v : v = enriched[p][k] => Sound(p, v)'
    BY <1>s DEF EnrichedInv
  <1>1. ASSUME enriched' = enriched PROVE Goal
    BY <1>0, <1>1, <1>k
  <1>2. ASSUME NEW q \in Partition, Enrich(q) \/ EnrichUnsearched(q)
        PROVE  Goal
    <2>1. PICK w \in Verdict : Sound(q, w) /\ enriched' = [enriched EXCEPT ![q] = Append(@, w)]
      BY <1>0, <1>2, VerdictIs
    <2>2. enriched' \in [Partition -> Seq(Verdict)]
      BY <2>1, <1>0
    <2>3. ASSUME NEW p \in Partition, NEW k \in DOMAIN enriched'[p], NEW v, v = enriched'[p][k]
          PROVE  Sound(p, v)'
      <3>1. CASE p # q
        BY <3>1, <2>1, <2>3, <1>0, <1>k
      <3>2. CASE p = q
        <4>1. enriched[p] \in Seq(Verdict) /\ enriched'[p] = Append(enriched[p], w)
          BY <3>2, <2>1, <1>0
        <4>2. \/ k \in DOMAIN enriched[p] /\ v = enriched[p][k]
              \/ v = w
          BY <4>1, <2>3
        <4> QED BY <4>2, <3>2, <2>1, <1>k, <1>s
      <3> QED BY <3>1, <3>2
    <2> QED BY <2>2, <2>3
  <1> QED BY Steps, <1>1, <1>2

LEMMA EnrichedInit == Init => EnrichedInv
  <1> SUFFICES ASSUME Init PROVE EnrichedInv
    OBVIOUS
  <1>1. \A p \in Partition : enriched[p] = <<>>
    BY DEF Init
  <1> QED BY <1>1 DEF Init, EnrichedInv, RawInv

LEMMA EnrichedInductive == EnrichedInv /\ [Next]_vars => EnrichedInv'
  <1> SUFFICES ASSUME EnrichedInv, [Next]_vars PROVE EnrichedInv'
    OBVIOUS
  <1>1. RawInv'
    BY RawInductive DEF EnrichedInv
  <1>2. analysisAt' \in [Partition -> Nat]
    BY AnalysisAtStep DEF EnrichedInv
  <1>3. \A p \in Partition : \A k \in DOMAIN enriched'[p] : Sound(p, enriched[p][k])'
    BY EnrichedStep DEF Sound
  <1> QED BY <1>1, <1>2, <1>3, EnrichedStep DEF EnrichedInv

LEMMA EnrichedInvariant == Spec => []EnrichedInv
  BY EnrichedInit, EnrichedInductive, PTL DEF Spec

(* What is published as a mainshock is a report that was received, of a    *)
(* larger and earlier event, and the aftershock lies in its window.        *)
THEOREM MainshockIsRealCorrect == Spec => []MainshockIsReal
  <1>1. EnrichedInv => MainshockIsReal
    BY DEF EnrichedInv, Sound, Mainshock, MainshockIsReal
  <1> QED BY <1>1, EnrichedInvariant, PTL

-----------------------------------------------------------------------------
(* As long as no call failed, every message that analysis has committed,   *)
(* or is about to, has a row, whoever wrote it last.                       *)

Covered(p, o) == raw[At(p, o).id] # None

Wrote(p, o) == written /\ verdict.at = <<p, o>>

HandInv ==
    /\ EnrichedInv
    /\ faults \in Nat
    /\ \A p \in Partition : analysisAt[p] <= Len(log[p])
    /\ verdict # None => \E p \in Partition : verdict.at = <<p, analysisAt[p]>> /\ analysisAt[p] < Len(log[p])
    /\ written => verdict # None

RowsInv ==
    /\ HandInv
    /\ faults = 0 => \A p \in Partition : \A o \in Offsets(p) :
                       o < analysisAt[p] \/ Wrote(p, o) => Covered(p, o)

LEMMA FaultsStep ==
    ASSUME faults \in Nat, [Next]_vars
    PROVE  faults' \in Nat /\ (faults' = 0 => faults' = faults)
  <1>1. faults' = faults \/ Fault
    BY Zenon DEF Next, Storage, Analysis, StorageFails, StorageRestart, Skip, Pass, Upsert, UpsertEnrichedFails,
              AnalysisRestart, Enrich, EnrichUnsearched, EnrichFails, UpsertEnriched, Commit, Publish, vars
  <1> QED BY <1>1 DEF Fault

\* What a step may do to the message that analysis has in hand.
LEMMA HandSteps ==
    ASSUME [Next]_vars
    PROVE  \/ UNCHANGED <<analysisAt, verdict, written>>
           \/ \E p \in Partition : Enrich(p) \/ EnrichUnsearched(p) \/ EnrichFails(p)
           \/ \E p \in Partition : \E o \in Offsets(p) : UpsertEnriched(p, o) \/ Commit(p, o)
           \/ UpsertEnrichedFails \/ AnalysisRestart
  <1>1. CASE Storage
    BY <1>1, Zenon DEF Storage, StorageFails, StorageRestart, Skip, Pass, Upsert, analysis
  <1>2. CASE Analysis
    BY <1>2, Zenon DEF Analysis
  <1>3. CASE \E r \in Report : Publish(r)
    BY <1>3, Zenon DEF Publish, analysis
  <1>4. CASE UNCHANGED vars
    BY <1>4, Zenon DEF vars, analysis
  <1> QED BY <1>1, <1>2, <1>3, <1>4 DEF Next

LEMMA LengthsGrow ==
    ASSUME log \in [Partition -> Seq(Report)], [Next]_vars, NEW p \in Partition
    PROVE  Len(log[p]) \in Nat /\ Len(log'[p]) \in Nat /\ Len(log[p]) <= Len(log'[p])
  <1>1. log' \in [Partition -> Seq(Report)] /\ \A o \in Offsets(p) : o \in Offsets(p)'
    BY LogStep
  <1>2. Len(log[p]) \in Nat /\ Len(log'[p]) \in Nat
    BY <1>1
  <1>3. Len(log[p]) - 1 \in 0..(Len(log[p]) - 1) => Len(log[p]) - 1 \in 0..(Len(log'[p]) - 1)
    BY <1>1 DEF Offsets
  <1> QED BY <1>2, <1>3

LEMMA HandStep ==
    ASSUME HandInv, [Next]_vars
    PROVE  HandInv'
  <1>0. /\ analysisAt \in [Partition -> Nat] /\ faults' \in Nat
        /\ \A p \in Partition : Len(log[p]) \in Nat /\ Len(log'[p]) \in Nat /\ Len(log[p]) <= Len(log'[p])
        /\ \A p \in Partition : analysisAt[p] <= Len(log[p])
    BY FaultsStep, LengthsGrow DEF HandInv, EnrichedInv, RawInv
  <1>i. EnrichedInv'
    BY EnrichedInductive DEF HandInv
  <1> DEFINE Ends == \A p \in Partition : analysisAt'[p] <= Len(log'[p])
             Hand == verdict' # None =>
                       \E p \in Partition : verdict'.at = <<p, analysisAt'[p]>> /\ analysisAt'[p] < Len(log'[p])
             Both == Ends /\ Hand /\ (written' => verdict' # None)
  <1>1. ASSUME UNCHANGED <<analysisAt, verdict, written>> PROVE Both
    BY <1>0, <1>1 DEF HandInv
  <1>2. ASSUME NEW p \in Partition, Enrich(p) \/ EnrichUnsearched(p) PROVE Both
    <2>1. analysisAt' = analysisAt /\ log' = log /\ analysisAt[p] < Len(log[p])
      BY <1>2 DEF Enrich, EnrichUnsearched
    <2>2. verdict'.at = <<p, analysisAt[p]>>
      BY <1>2 DEF Enrich, EnrichUnsearched
    <2>3. ~written'
      BY <1>2, Zenon DEF Enrich, EnrichUnsearched, HandInv
    <2> QED BY <1>0, <2>1, <2>2, <2>3
  <1>3. ASSUME NEW p \in Partition, EnrichFails(p) PROVE Both
    <2>1. /\ log' = log /\ analysisAt[p] < Len(log[p]) /\ verdict' = None
          /\ analysisAt' = [analysisAt EXCEPT ![p] = @ + 1]
      BY <1>3 DEF EnrichFails
    <2>2. ~written'
      BY <1>3, Zenon DEF EnrichFails, HandInv
    <2> QED BY <1>0, <2>1, <2>2
  <1>4. ASSUME NEW p \in Partition, NEW o \in Offsets(p), Commit(p, o) PROVE Both
    <2>1. /\ log' = log /\ verdict' = None /\ analysisAt' = [analysisAt EXCEPT ![p] = o + 1]
      BY <1>4 DEF Commit
    <2>2. ~written'
      BY <1>4, Zenon DEF Commit
    <2> QED BY <1>0, <2>1, <2>2 DEF Offsets
  <1>5. ASSUME (\E p \in Partition : \E o \in Offsets(p) : UpsertEnriched(p, o)) \/ UpsertEnrichedFails
        PROVE  Both
    <2>1. UNCHANGED <<analysisAt, verdict, log>> /\ verdict # None
      BY <1>5 DEF UpsertEnriched, UpsertEnrichedFails
    <2> QED BY <1>0, <2>1 DEF HandInv
  <1>6. ASSUME AnalysisRestart PROVE Both
    <2>1. UNCHANGED <<analysisAt, log>> /\ verdict' = None
      BY <1>6 DEF AnalysisRestart
    <2>2. ~written'
      BY <1>6, Zenon DEF AnalysisRestart
    <2> QED BY <1>0, <2>1, <2>2
  <1>7. Both
    BY HandSteps, <1>1, <1>2, <1>3, <1>4, <1>5, <1>6
  <1> QED BY <1>0, <1>i, <1>7 DEF HandInv

LEMMA ReportsAreSome ==
    ASSUME log \in [Partition -> Seq(Report)], NEW c \in Reports
    PROVE  c # None
  <1>1. PICK a \in Produced : c = At(a[1], a[2])
    BY DEF Reports
  <1>2. PICK q \in Partition : a \in {q} \X Offsets(q)
    BY <1>1 DEF Produced
  <1>3. PICK r \in Offsets(q) : a = <<q, r>>
    BY <1>2
  <1> QED BY <1>1, <1>3, ReportIs

LEMMA CoveredStable ==
    ASSUME HandInv, [Next]_vars, NEW p \in Partition, NEW o \in Offsets(p), Covered(p, o)
    PROVE  Covered(p, o)'
  <1>0. log \in [Partition -> Seq(Report)] /\ RawInv
    BY DEF HandInv, EnrichedInv, RawInv
  <1>1. At(p, o)' = At(p, o) /\ At(p, o).id \in Id
    BY <1>0, LogStep, ReportIs
  <1>2. \A c \in Reports : c # None
    BY <1>0, ReportsAreSome
  <1>3. \A i \in Id : raw[i] # None => raw'[i] # None
    BY <1>0, <1>2, RawStep DEF Advances
  <1> QED BY <1>1, <1>3 DEF Covered

LEMMA RowsStep ==
    ASSUME RowsInv, [Next]_vars
    PROVE  RowsInv'
  <1>h. HandInv /\ HandInv' /\ analysisAt \in [Partition -> Nat] /\ faults \in Nat
        /\ log \in [Partition -> Seq(Report)] /\ raw \in [Id -> Report \cup {None}]
    BY HandStep DEF RowsInv, HandInv, EnrichedInv, RawInv
  <1> SUFFICES ASSUME faults' = 0, NEW p \in Partition, NEW o \in Offsets(p)',
                      o < analysisAt'[p] \/ Wrote(p, o)'
               PROVE  Covered(p, o)'
    BY <1>h DEF RowsInv
  <1>0. faults = 0 /\ faults' = faults
    BY <1>h, FaultsStep
  <1>l. Len(log[p]) \in Nat /\ analysisAt[p] <= Len(log[p]) /\ o \in Nat
    BY <1>h DEF HandInv, Offsets
  <1>1. ASSUME o < analysisAt[p] PROVE Covered(p, o)'
    <2>1. o \in Offsets(p)
      BY <1>h, <1>l, <1>1 DEF Offsets
    <2>2. Covered(p, o)
      BY <2>1, <1>1, <1>0 DEF RowsInv
    <2> QED BY <2>1, <2>2, <1>h, CoveredStable
  <1>2. ASSUME Wrote(p, o) PROVE Covered(p, o)'
    <2>1. verdict.at = <<p, o>> /\ verdict # None
      BY <1>h, <1>2, Zenon DEF Wrote, HandInv
    <2>2. o = analysisAt[p] /\ analysisAt[p] < Len(log[p])
      BY <1>h, <2>1 DEF HandInv
    <2>3. o \in Offsets(p)
      BY <1>l, <2>2 DEF Offsets
    <2>4. Covered(p, o)
      BY <2>3, <1>2, <1>0 DEF RowsInv
    <2> QED BY <2>3, <2>4, <1>h, CoveredStable
  <1>3. CASE UNCHANGED <<analysisAt, verdict, written>>
    BY <1>1, <1>2, <1>3, Zenon DEF Wrote
  <1>4. ASSUME NEW q \in Partition, Enrich(q) \/ EnrichUnsearched(q) PROVE Covered(p, o)'
    <2>1. analysisAt' = analysisAt /\ verdict = None /\ written' = written
      BY <1>4, Zenon DEF Enrich, EnrichUnsearched
    <2>2. ~written'
      BY <1>h, <2>1, Zenon DEF HandInv
    <2> QED BY <2>1, <2>2, <1>1, Zenon DEF Wrote
  <1>5. ASSUME NEW q \in Partition, NEW r \in Offsets(q), UpsertEnriched(q, r) PROVE Covered(p, o)'
    <2>1. /\ UNCHANGED <<log, analysisAt, verdict>> /\ verdict.at = <<q, r>>
          /\ raw' = IF raw[At(q, r).id] = None THEN [raw EXCEPT ![At(q, r).id] = At(q, r)] ELSE raw
      BY <1>5 DEF UpsertEnriched
    <2>2. Covered(q, r)'
      BY <2>1, <1>h, ReportIs DEF Covered, At
    <2>3. Wrote(p, o)' => p = q /\ o = r
      BY <2>1 DEF Wrote
    <2> QED BY <2>1, <2>2, <2>3, <1>1
  <1>6. ASSUME NEW q \in Partition, NEW r \in Offsets(q), Commit(q, r) PROVE Covered(p, o)'
    <2>1. analysisAt' = [analysisAt EXCEPT ![q] = r + 1] /\ Wrote(q, r) /\ ~written'
      BY <1>6, Zenon DEF Commit, Wrote
    <2>2. o < analysisAt'[p]
      BY <2>1, Zenon DEF Wrote
    <2>3. verdict.at = <<q, r>> /\ verdict # None
      BY <1>h, <2>1, Zenon DEF Wrote, HandInv
    <2>4. r = analysisAt[q]
      BY <1>h, <2>3 DEF HandInv
    <2>5. o < analysisAt[p] \/ (p = q /\ o = r)
      BY <2>1, <2>2, <2>4, <1>h, <1>l
    <2> QED BY <2>5, <2>1, <1>1, <1>2
  <1>7. CASE UpsertEnrichedFails \/ \E q \in Partition : EnrichFails(q)
    BY <1>7, <1>0, <1>h DEF UpsertEnrichedFails, EnrichFails, Fault
  <1>8. CASE AnalysisRestart
    <2>1. analysisAt' = analysisAt /\ ~written'
      BY <1>8, Zenon DEF AnalysisRestart
    <2> QED BY <2>1, <1>1, Zenon DEF Wrote
  <1> QED BY HandSteps, <1>3, <1>4, <1>5, <1>6, <1>7, <1>8

LEMMA RowsInit == Init => RowsInv
  <1> SUFFICES ASSUME Init PROVE RowsInv
    OBVIOUS
  <1>1. \A p \in Partition : Offsets(p) = {} /\ Len(log[p]) = 0
    BY DEF Init, Offsets
  <1>2. ~written
    BY Zenon DEF Init
  <1> QED BY <1>1, <1>2, EnrichedInit DEF Init, RowsInv, HandInv

-----------------------------------------------------------------------------
(* So no verdict has missed a qualifying predecessor of its partition.     *)

Foresees(p, v) ==
    \A o \in Offsets(p) :
      o < v.at[2] /\ Qualifies(At(p, o), At(p, v.at[2])) /\ ~Revised(At(p, o)) =>
        v.found # None /\ Before(v.found, At(p, o))

FoundInv ==
    /\ RowsInv
    /\ faults = 0 => \A p \in Partition : \A k \in DOMAIN enriched[p] : Foresees(p, enriched[p][k])

\* A verdict keeps its predecessors: only their revisions become more.
LEMMA ForeseesStable ==
    ASSUME log \in [Partition -> Seq(Report)], [Next]_vars,
           NEW p \in Partition, NEW v, v.at[2] \in Offsets(p), Foresees(p, v)
    PROVE  Foresees(p, v)'
  <1>1. /\ \A o \in Offsets(p) : o \in Offsets(p)' /\ At(p, o)' = At(p, o)
        /\ Reports \subseteq Reports'
    BY LogStep
  <1> SUFFICES ASSUME NEW o \in Offsets(p)', o < v.at[2],
                      Qualifies(At(p, o), At(p, v.at[2]))', ~Revised(At(p, o))'
               PROVE  v.found # None /\ Before(v.found, At(p, o)')
    BY DEF Foresees, Before
  <1>2. o \in Offsets(p)
    BY DEF Offsets
  <1>3. Qualifies(At(p, o), At(p, v.at[2]))
    BY <1>1, <1>2 DEF Qualifies
  <1>4. ~Revised(At(p, o))
    BY <1>1, <1>2 DEF Revised
  <1> QED BY <1>1, <1>2, <1>3, <1>4 DEF Foresees

LEMMA VerdictForesees ==
    ASSUME RowsInv, faults = 0, NEW p \in Partition,
           NEW v, v.at = <<p, analysisAt[p]>>, v.found \in Found(At(p, analysisAt[p]))
    PROVE  Foresees(p, v)
  <1> DEFINE r == At(p, analysisAt[p])
  <1> SUFFICES ASSUME NEW o \in Offsets(p), o < analysisAt[p], Qualifies(At(p, o), r), ~Revised(At(p, o))
               PROVE  v.found # None /\ Before(v.found, At(p, o))
    BY DEF Foresees
  <1> DEFINE c == At(p, o)
  <1>1. RawInv /\ c \in Reports /\ c.id \in Id
    BY ReportsAre, ReportIs DEF RowsInv, HandInv, EnrichedInv, RawInv
  <1>2. raw[c.id] # None
    BY DEF RowsInv, Covered
  <1>3. raw[c.id] \in Reports /\ raw[c.id].id = c.id
    BY <1>1, <1>2 DEF RawInv
  <1>4. raw[c.id] = c
    BY <1>3 DEF Revised
  <1>5. c \in Rows
    BY <1>1, <1>2, <1>4 DEF Rows
  <1>6. \A x \in Rows : x # None
    BY DEF Rows
  <1> HIDE DEF c, r
  <1>7. c \in {x \in Rows : Qualifies(x, r)}
    BY <1>5 DEF c
  <1>8. v.found \in Rows /\ Before(v.found, c)
    BY <1>7 DEF Found, r
  <1> QED BY <1>6, <1>8 DEF c

LEMMA FoundStep ==
    ASSUME FoundInv, [Next]_vars
    PROVE  FoundInv'
  <1>0. /\ RowsInv /\ RowsInv' /\ EnrichedInv
        /\ enriched \in [Partition -> Seq(Verdict)] /\ log \in [Partition -> Seq(Report)]
        /\ faults \in Nat
    BY RowsStep DEF FoundInv, RowsInv, HandInv, EnrichedInv, RawInv
  <1> SUFFICES ASSUME faults' = 0, NEW p \in Partition, NEW k \in DOMAIN enriched'[p],
                      NEW v, v = enriched'[p][k]
               PROVE  Foresees(p, v)'
    BY <1>0 DEF FoundInv, Foresees
  <1>1. faults = 0 /\ ~Fault
    BY <1>0, FaultsStep DEF Fault
  <1>2. ASSUME k \in DOMAIN enriched[p], v = enriched[p][k] PROVE Foresees(p, v)'
    <2>1. v.at[2] \in Offsets(p) /\ Foresees(p, v)
      BY <1>0, <1>1, <1>2 DEF FoundInv, EnrichedInv, Sound
    <2> QED BY <2>1, <1>0, ForeseesStable
  <1>3. CASE enriched' = enriched
    BY <1>2, <1>3
  <1>4. ASSUME NEW q \in Partition, Enrich(q) \/ EnrichUnsearched(q)
        PROVE  Foresees(p, v)'
    <2>1. PICK w \in Verdict :
            /\ Sound(q, w) /\ enriched' = [enriched EXCEPT ![q] = Append(@, w)]
            /\ w.at = <<q, analysisAt[q]>>
            /\ w.found \in Found(At(q, analysisAt[q])) \/ Fault
      BY <1>4, <1>0, VerdictIs DEF EnrichedInv
    <2>2. w.at[2] \in Offsets(q) /\ Foresees(q, w)
      BY <2>1, <1>0, <1>1, VerdictForesees DEF Sound
    <2>3. Foresees(q, w)'
      BY <2>2, <1>0, ForeseesStable
    <2>4. CASE p # q
      BY <2>4, <2>1, <1>0, <1>2
    <2>5. CASE p = q
      <3>1. enriched[p] \in Seq(Verdict) /\ enriched'[p] = Append(enriched[p], w)
        BY <2>5, <2>1, <1>0
      <3>2. \/ k \in DOMAIN enriched[p] /\ v = enriched[p][k]
            \/ v = w
        BY <3>1
      <3> QED BY <3>2, <2>3, <2>5, <1>2
    <2> QED BY <2>4, <2>5
  <1> QED BY Steps, <1>3, <1>4

(* Although storage may lag behind or drop a report, the search for a      *)
(* mainshock finds every qualifying event that came before on the          *)
(* partition and was not revised, or a larger one, unless a call failed.   *)
THEOREM PredecessorIsFoundCorrect == Spec => []PredecessorIsFound
  <1>1. Init => FoundInv
    <2> SUFFICES ASSUME Init PROVE FoundInv
      OBVIOUS
    <2>1. \A p \in Partition : enriched[p] = <<>>
      BY DEF Init
    <2> QED BY <2>1, RowsInit DEF FoundInv
  <1>2. FoundInv /\ [Next]_vars => FoundInv'
    BY FoundStep
  <1>3. FoundInv => PredecessorIsFound
    BY DEF FoundInv, Foresees, PredecessorIsFound
  <1> QED BY <1>1, <1>2, <1>3, PTL DEF Spec

-----------------------------------------------------------------------------
(* What storage has fetched is skipped, in hand, or in the table.          *)

InTable(p, o) == raw[At(p, o).id] # None /\ raw[At(p, o).id].time >= At(p, o).time

StorageInv ==
    /\ RawInv
    /\ faults \in Nat
    /\ storageAt \in [Partition -> Nat]
    /\ \A p \in Partition : storageAt[p] <= Len(log[p])
    /\ faults = 0 => \A p \in Partition : \A o \in Offsets(p) :
                       o < storageAt[p] => <<p, o>> \in skipped \/ checked = <<p, o>> \/ InTable(p, o)

LEMMA InTableStable ==
    ASSUME RawInv, [Next]_vars, NEW p \in Partition, NEW o \in Offsets(p), InTable(p, o)
    PROVE  InTable(p, o)'
  <1>0. log \in [Partition -> Seq(Report)]
    BY DEF RawInv
  <1>1. At(p, o)' = At(p, o) /\ At(p, o).id \in Id /\ At(p, o).time \in Int
    BY <1>0, LogStep, ReportIs
  <1> DEFINE i == At(p, o).id
  <1>2. raw[i] \in Report /\ raw[i].time \in Int /\ raw' \in [Id -> Report \cup {None}] /\ Advances(i)
    BY <1>1, RawStep, CatalogueAssumption DEF InTable, RawInv
  <1>3. CASE raw'[i] = raw[i]
    BY <1>1, <1>3 DEF InTable
  <1>4. CASE raw'[i] # raw[i]
    <2>1. raw'[i] \in Reports /\ raw'[i].time > raw[i].time
      BY <1>2, <1>4 DEF Advances, InTable
    <2>2. raw'[i] # None
      BY <2>1, <1>0, ReportsAreSome
    <2>3. raw'[i].time \in Int
      BY <2>2, <1>1, <1>2, CatalogueAssumption
    <2> QED BY <2>1, <2>2, <2>3, <1>1, <1>2 DEF InTable
  <1> QED BY <1>3, <1>4

\* What a step may do to what storage has fetched.
LEMMA StorageSteps ==
    ASSUME [Next]_vars
    PROVE  \/ UNCHANGED <<storageAt, checked, skipped>>
           \/ \E p \in Partition : Skip(p) \/ Pass(p)
           \/ \E p \in Partition : \E o \in Offsets(p) : Upsert(p, o)
           \/ StorageFails \/ StorageRestart
  <1>1. CASE Storage
    BY <1>1, Zenon DEF Storage
  <1>2. CASE Analysis
    BY <1>2, Zenon DEF Analysis, UpsertEnrichedFails, AnalysisRestart, Enrich, EnrichUnsearched, EnrichFails,
                       UpsertEnriched, Commit, storage
  <1>3. CASE \E r \in Report : Publish(r)
    BY <1>3, Zenon DEF Publish, storage
  <1>4. CASE UNCHANGED vars
    BY <1>4, Zenon DEF vars, storage
  <1> QED BY <1>1, <1>2, <1>3, <1>4 DEF Next

LEMMA FetchStep ==
    ASSUME StorageInv, [Next]_vars
    PROVE  storageAt' \in [Partition -> Nat] /\ \A p \in Partition : storageAt'[p] <= Len(log'[p])
  <1>0. /\ storageAt \in [Partition -> Nat] /\ \A p \in Partition : storageAt[p] <= Len(log[p])
        /\ \A p \in Partition : Len(log[p]) \in Nat /\ Len(log'[p]) \in Nat /\ Len(log[p]) <= Len(log'[p])
    BY LengthsGrow DEF StorageInv, RawInv
  <1>1. ASSUME NEW p \in Partition, Fetch(p), log' = log
        PROVE  storageAt' \in [Partition -> Nat] /\ \A q \in Partition : storageAt'[q] <= Len(log'[q])
    BY <1>0, <1>1 DEF Fetch
  <1>2. CASE storageAt' = storageAt
    BY <1>0, <1>2
  <1>3. CASE StorageRestart
    <2>1. storageAt' \in [Partition -> 0..MaxLog] /\ log' = log /\ \A p \in Partition : storageAt'[p] <= storageAt[p]
      BY <1>3 DEF StorageRestart
    <2>2. \A p \in Partition : storageAt'[p] \in Nat
      BY <2>1, CatalogueAssumption
    <2> QED BY <1>0, <2>1, <2>2
  <1>4. \/ storageAt' = storageAt
        \/ StorageRestart
        \/ \E p \in Partition : Fetch(p) /\ log' = log
    BY StorageSteps, Zenon DEF Skip, Pass, Upsert, StorageFails
  <1> QED BY <1>1, <1>2, <1>3, <1>4

LEMMA StorageStep ==
    ASSUME StorageInv, [Next]_vars
    PROVE  StorageInv'
  <1>0. /\ log \in [Partition -> Seq(Report)] /\ RawInv /\ RawInv' /\ faults \in Nat
        /\ raw \in [Id -> Report \cup {None}]
        /\ storageAt \in [Partition -> Nat] /\ faults' \in Nat
    BY RawInductive, FaultsStep DEF StorageInv, RawInv
  <1> SUFFICES ASSUME faults' = 0, NEW p \in Partition, NEW o \in Offsets(p)', o < storageAt'[p]
               PROVE  <<p, o>> \in skipped' \/ checked' = <<p, o>> \/ InTable(p, o)'
    BY <1>0, FetchStep DEF StorageInv
  <1>1. faults = 0 /\ ~Fault
    BY <1>0, FaultsStep DEF Fault
  <1>2. ASSUME o < storageAt[p]
        PROVE  o \in Offsets(p) /\ (<<p, o>> \in skipped \/ checked = <<p, o>> \/ InTable(p, o)')
    <2>1. o \in Offsets(p)
      BY <1>0, <1>2, LengthsGrow DEF StorageInv, Offsets
    <2> QED BY <2>1, <1>0, <1>1, <1>2, InTableStable DEF StorageInv
  <1>3. CASE UNCHANGED <<storageAt, checked, skipped>>
    BY <1>2, <1>3
  <1>4. ASSUME NEW q \in Partition, Skip(q) \/ Pass(q)
        PROVE  <<p, o>> \in skipped' \/ checked' = <<p, o>> \/ InTable(p, o)'
    <2>1. /\ checked = None /\ storageAt' = [storageAt EXCEPT ![q] = @ + 1]
          /\ skipped \subseteq skipped'
          /\ <<q, storageAt[q]>> \in skipped' \/ checked' = <<q, storageAt[q]>>
      BY <1>4 DEF Skip, Pass, Fetch
    <2>2. o < storageAt[p] \/ (p = q /\ o = storageAt[q])
      BY <2>1, <1>0 DEF Offsets
    <2>3. o \in Nat /\ checked # <<p, o>>
      BY <2>1, CatalogueAssumption, LengthsGrow, <1>0 DEF Offsets
    <2> QED BY <2>1, <2>2, <2>3, <1>2
  <1>5. ASSUME NEW q \in Partition, NEW r \in Offsets(q), Upsert(q, r)
        PROVE  <<p, o>> \in skipped' \/ checked' = <<p, o>> \/ InTable(p, o)'
    <2>1. /\ UNCHANGED <<log, storageAt, skipped>> /\ checked = <<q, r>>
          /\ raw' = IF raw[At(q, r).id] = None \/ At(q, r).time > raw[At(q, r).id].time
                      THEN [raw EXCEPT ![At(q, r).id] = At(q, r)] ELSE raw
      BY <1>5 DEF Upsert
    <2>2. At(q, r).id \in Id /\ At(q, r) # None /\ At(q, r) \in Report /\ At(q, r).time \in Int
      BY <1>0, ReportIs
    <2>3. At(q, r)' = At(q, r)
      BY <2>1 DEF At
    <2>4. CASE raw[At(q, r).id] = None \/ At(q, r).time > raw[At(q, r).id].time
      <3>1. raw'[At(q, r).id] = At(q, r)
        BY <2>1, <2>2, <2>4, <1>0
      <3>2. InTable(q, r)'
        BY <3>1, <2>2, <2>3 DEF InTable
      <3> QED BY <3>2, <2>1, <1>2
    <2>5. CASE ~(raw[At(q, r).id] = None \/ At(q, r).time > raw[At(q, r).id].time)
      <3>1. raw' = raw /\ raw[At(q, r).id] # None /\ raw[At(q, r).id] \in Report
        BY <2>1, <2>2, <2>5, <1>0
      <3>2. raw[At(q, r).id].time >= At(q, r).time
        BY <3>1, <2>2, <2>5, CatalogueAssumption
      <3>3. InTable(q, r)'
        BY <3>1, <3>2, <2>3 DEF InTable
      <3> QED BY <3>3, <2>1, <1>2
    <2> QED BY <2>4, <2>5
  <1>6. CASE StorageFails
    BY <1>1, <1>6 DEF StorageFails
  <1>7. CASE StorageRestart
    <2>1. storageAt'[p] <= storageAt[p] /\ skipped' = skipped
      BY <1>7 DEF StorageRestart
    <2>2. checked = <<p, o>> => storageAt'[p] <= o
      <3>1. checked # None => storageAt'[checked[1]] <= checked[2]
        BY <1>7 DEF StorageRestart
      <3>2. o \in Nat => <<p, o>> # None
        BY CatalogueAssumption
      <3>3. o \in Nat
        BY LengthsGrow, <1>0 DEF Offsets
      <3> QED BY <3>1, <3>2, <3>3
    <2>3. storageAt[p] \in Nat /\ storageAt'[p] \in Nat /\ o \in Nat
      BY <1>0, FetchStep, LengthsGrow DEF Offsets
    <2> QED BY <2>1, <2>2, <2>3, <1>2
  <1> QED BY StorageSteps, <1>3, <1>4, <1>5, <1>6, <1>7

-----------------------------------------------------------------------------
(* The messages of a partition are in the order of their reports, one or   *)
(* more of each that is committed; the last message about an event whose   *)
(* last report is committed is the one in its row.                         *)

\* The offset that message k of a partition is about, and its event.
About(p, k) == enriched[p][k].at[2]
EventOf(p, k) == At(p, About(p, k)).id

\* Message k is the last one about its event.
IsLast(p, k) == \A j \in DOMAIN enriched[p] : EventOf(p, j) = EventOf(p, k) => j <= k

LogInv == \A p \in Partition : \A o \in Offsets(p) : PartitionOf[At(p, o).id] = p

OrderInv ==
    /\ \A p \in Partition : \A j, k \in DOMAIN enriched[p] : j <= k => About(p, j) <= About(p, k)
    /\ \A p \in Partition : \A k \in DOMAIN enriched[p] : About(p, k) <= analysisAt[p]
    /\ verdict # None => \E p \in Partition : \E k \in DOMAIN enriched[p] :
         /\ verdict.at = <<p, analysisAt[p]>>
         /\ k = Len(enriched[p]) /\ enriched[p][k] = verdict

\* What a step does to the messages: nothing, or it adds one about the next report.
Adds(q) ==
    /\ enriched' = [enriched EXCEPT ![q] = Append(@, verdict')]
    /\ verdict = None /\ verdict' \in Verdict /\ verdict'.at = <<q, analysisAt[q]>>
    /\ UNCHANGED <<log, analysisAt, written, raw, enrichment>>

LEMMA AddsStep ==
    ASSUME EnrichedInv, NEW q \in Partition, Enrich(q) \/ EnrichUnsearched(q)
    PROVE  Adds(q)
  <1>0. verdict' \in Verdict /\ verdict'.at = <<q, analysisAt[q]>>
    BY VerdictIs DEF EnrichedInv
  <1>1. CASE Enrich(q)
    BY <1>0, <1>1 DEF Enrich, Adds, table
  <1>2. CASE EnrichUnsearched(q)
    BY <1>0, <1>2 DEF EnrichUnsearched, Adds, table
  <1> QED BY <1>1, <1>2

LEMMA LogInvStep ==
    ASSUME log \in [Partition -> Seq(Report)], LogInv, [Next]_vars
    PROVE  LogInv'
  <1>1. CASE log' = log
    BY <1>1 DEF LogInv, Offsets, At
  <1>2. ASSUME NEW r \in Report, Publish(r) PROVE LogInv'
    <2> DEFINE q == PartitionOf[r.id]
    <2>1. q \in Partition /\ log' = [log EXCEPT ![q] = Append(@, r)]
      BY <1>2, CatalogueAssumption, Zenon DEF Publish, CatalogueAssumption
    <2>q. q = PartitionOf[r.id]
      OBVIOUS
    <2> HIDE DEF q
    <2> SUFFICES ASSUME NEW p \in Partition, NEW o \in Offsets(p)' PROVE PartitionOf[At(p, o)'.id] = p
      BY DEF LogInv
    <2>2. CASE p # q
      BY <2>1, <2>2 DEF LogInv, Offsets, At
    <2>3. CASE p = q
      <3>1. log[p] \in Seq(Report) /\ log'[p] = Append(log[p], r)
        BY <2>1, <2>3
      <3>2. Len(log'[p]) = Len(log[p]) + 1 /\ Len(log[p]) \in Nat
        BY <3>1
      <3>3. o \in Offsets(p) \/ o = Len(log[p])
        BY <3>2 DEF Offsets
      <3>4. o = Len(log[p]) => At(p, o)' = r
        BY <3>1 DEF At
      <3>5. o \in Offsets(p) => At(p, o)' = At(p, o)
        BY LogStep
      <3> QED BY <3>3, <3>4, <3>5, <2>3, <2>q DEF LogInv
    <2> QED BY <2>2, <2>3
  <1> QED BY Steps, <1>1, <1>2

\* The messages of a partition after a step, one by one.
LEMMA MessagesStep ==
    ASSUME EnrichedInv, [Next]_vars, NEW p \in Partition, NEW n, n = Len(enriched[p])
    PROVE  /\ n \in Nat /\ DOMAIN enriched[p] = 1..n
           /\ \A k \in DOMAIN enriched[p] :
                /\ k \in DOMAIN enriched'[p] /\ enriched'[p][k] = enriched[p][k]
                /\ About(p, k) \in Nat /\ About(p, k)' = About(p, k) /\ EventOf(p, k)' = EventOf(p, k)
           /\ \/ enriched'[p] = enriched[p]
              \/ /\ Adds(p)
                 /\ DOMAIN enriched'[p] = 1..(n + 1) /\ Len(enriched'[p]) = n + 1
                 /\ enriched'[p][n + 1] = verdict'
                 /\ About(p, n + 1)' = analysisAt[p]
                 /\ EventOf(p, n + 1)' = At(p, analysisAt[p]).id
  <1>0. /\ enriched \in [Partition -> Seq(Verdict)] /\ enriched[p] \in Seq(Verdict)
        /\ log \in [Partition -> Seq(Report)]
    BY DEF EnrichedInv, RawInv
  <1>1. n \in Nat /\ DOMAIN enriched[p] = 1..n
    BY <1>0
  <1>2. \/ enriched'[p] = enriched[p]
        \/ Adds(p) /\ enriched'[p] = Append(enriched[p], verdict') /\ verdict' \in Verdict
    <2>1. ASSUME NEW q \in Partition, Adds(q)
          PROVE  \/ enriched'[p] = enriched[p]
                 \/ Adds(p) /\ enriched'[p] = Append(enriched[p], verdict') /\ verdict' \in Verdict
      BY <1>0, <2>1 DEF Adds
    <2>2. enriched' = enriched \/ \E q \in Partition : Adds(q)
      BY Steps, AddsStep
    <2> QED BY <2>1, <2>2
  <1>3. \A k \in DOMAIN enriched[p] : k \in DOMAIN enriched'[p] /\ enriched'[p][k] = enriched[p][k]
    BY <1>0, <1>2
  <1>4. \A k \in DOMAIN enriched[p] :
          /\ About(p, k) \in Offsets(p) /\ About(p, k) \in Nat
          /\ About(p, k)' = About(p, k) /\ EventOf(p, k)' = EventOf(p, k)
    <2> SUFFICES ASSUME NEW k \in DOMAIN enriched[p]
                 PROVE  /\ About(p, k) \in Offsets(p) /\ About(p, k) \in Nat
                        /\ About(p, k)' = About(p, k) /\ EventOf(p, k)' = EventOf(p, k)
      OBVIOUS
    <2>1. About(p, k) \in Offsets(p)
      BY DEF EnrichedInv, Sound, About
    <2>2. About(p, k)' = About(p, k)
      BY <1>3 DEF About
    <2>3. PICK o \in Offsets(p) : o = About(p, k)
      BY <2>1
    <2>4. At(p, o)' = At(p, o)
      BY <1>0, LogStep
    <2>5. EventOf(p, k)' = EventOf(p, k)
      BY <2>2, <2>3, <2>4 DEF EventOf, At
    <2> QED BY <2>1, <2>2, <2>5 DEF Offsets
  <1>5. ASSUME Adds(p), enriched'[p] = Append(enriched[p], verdict'), verdict' \in Verdict
        PROVE  /\ DOMAIN enriched'[p] = 1..(n + 1) /\ Len(enriched'[p]) = n + 1
               /\ enriched'[p][n + 1] = verdict'
               /\ About(p, n + 1)' = analysisAt[p]
               /\ EventOf(p, n + 1)' = At(p, analysisAt[p]).id
    <2>1. /\ DOMAIN enriched'[p] = 1..(n + 1) /\ Len(enriched'[p]) = n + 1
          /\ enriched'[p][n + 1] = verdict'
      BY <1>0, <1>5
    <2>2. verdict'.at[2] = analysisAt[p] /\ log' = log
      BY <1>5 DEF Adds
    <2> QED BY <2>1, <2>2 DEF About, EventOf, At
  <1> QED BY <1>1, <1>2, <1>3, <1>4, <1>5

\* Without a failed call, analysisAt moves past the report in hand only.
LEMMA EnrichedSteps ==
    ASSUME HandInv, faults' = faults, [Next]_vars
    PROVE  \/ UNCHANGED <<analysisAt, verdict, written, enriched, enrichment>>
           \/ \E q \in Partition : Adds(q)
           \/ \E q \in Partition : \E r \in Offsets(q) :
                UpsertEnriched(q, r) /\ verdict # None /\ r = analysisAt[q]
           \/ \E q \in Partition : \E r \in Offsets(q) :
                Commit(q, r) /\ verdict # None /\ r = analysisAt[q]
           \/ AnalysisRestart
  <1>0. faults \in Nat /\ EnrichedInv
    BY DEF HandInv
  <1>1. ASSUME NEW q \in Partition, Enrich(q) \/ EnrichUnsearched(q) PROVE Adds(q)
    BY <1>0, <1>1, AddsStep
  <1>2. ASSUME NEW q \in Partition, EnrichFails(q) PROVE FALSE
    BY <1>0, <1>2 DEF EnrichFails, Fault
  <1>3. ASSUME UpsertEnrichedFails PROVE FALSE
    BY <1>0, <1>3 DEF UpsertEnrichedFails, Fault
  <1>4. ASSUME NEW q \in Partition, NEW r \in Offsets(q), UpsertEnriched(q, r) \/ Commit(q, r)
        PROVE  verdict # None /\ r = analysisAt[q]
    <2>1. verdict.at = <<q, r>> /\ verdict # None
      BY <1>4, Zenon DEF Commit, UpsertEnriched, HandInv
    <2> QED BY <2>1 DEF HandInv
  <1>5. CASE Storage
    BY <1>5, Zenon DEF Storage, StorageFails, StorageRestart, Skip, Pass, Upsert, analysis, table
  <1>6. CASE Analysis
    BY <1>6, <1>1, <1>2, <1>3, <1>4, Zenon DEF Analysis
  <1>7. CASE \E r \in Report : Publish(r)
    BY <1>7, Zenon DEF Publish, analysis, table
  <1>8. CASE UNCHANGED vars
    BY <1>8, Zenon DEF vars, analysis, table
  <1> QED BY <1>5, <1>6, <1>7, <1>8 DEF Next

LEMMA OrderStep ==
    ASSUME HandInv, OrderInv, faults' = faults, [Next]_vars
    PROVE  OrderInv'
  <1>0. EnrichedInv /\ analysisAt \in [Partition -> Nat]
    BY DEF HandInv, EnrichedInv
  <1>1. ASSUME NEW p \in Partition
        PROVE  /\ \A j, k \in DOMAIN enriched'[p] : j <= k => About(p, j)' <= About(p, k)'
               /\ \A k \in DOMAIN enriched'[p] : About(p, k)' <= analysisAt'[p]
    <2>0. PICK n : n = Len(enriched[p])
      OBVIOUS
    <2>1. /\ n \in Nat /\ DOMAIN enriched[p] = 1..n
          /\ \A k \in DOMAIN enriched[p] : About(p, k) \in Nat /\ About(p, k)' = About(p, k)
          /\ \/ enriched'[p] = enriched[p]
             \/ /\ analysisAt' = analysisAt /\ DOMAIN enriched'[p] = 1..(n + 1)
                /\ About(p, n + 1)' = analysisAt[p]
      BY <1>0, <2>0, MessagesStep DEF Adds
    <2>2. analysisAt[p] \in Nat /\ analysisAt'[p] \in Nat /\ analysisAt[p] <= analysisAt'[p]
      <3>1. ASSUME NEW q \in Partition, NEW r \in Offsets(q), Commit(q, r), r = analysisAt[q]
            PROVE  analysisAt'[p] \in Nat /\ analysisAt[p] <= analysisAt'[p]
        BY <1>0, <3>1 DEF Commit
      <3>2. ASSUME (\E q \in Partition : \E r \in Offsets(q) : UpsertEnriched(q, r)) \/ AnalysisRestart
            PROVE  analysisAt' = analysisAt
        BY <3>2, Zenon DEF UpsertEnriched, AnalysisRestart
      <3> QED BY <1>0, <3>1, <3>2, EnrichedSteps DEF Adds
    <2>3. /\ \A j, k \in 1..n : j <= k => About(p, j)' <= About(p, k)'
          /\ \A k \in 1..n : About(p, k)' \in Nat /\ About(p, k)' <= analysisAt[p]
      BY <2>1 DEF OrderInv
    <2>4. CASE enriched'[p] = enriched[p]
      BY <2>1, <2>2, <2>3, <2>4
    <2>5. CASE /\ analysisAt' = analysisAt /\ DOMAIN enriched'[p] = 1..(n + 1)
               /\ About(p, n + 1)' = analysisAt[p]
      <3>1. \A k \in 1..(n + 1) : k \in 1..n \/ (k = n + 1 /\ About(p, k)' = analysisAt[p])
        BY <2>1, <2>5
      <3>2. \A k \in 1..(n + 1) : About(p, k)' \in Nat /\ About(p, k)' <= analysisAt'[p]
        BY <3>1, <2>2, <2>3, <2>5
      <3>3. ASSUME NEW j \in 1..(n + 1), NEW k \in 1..(n + 1), j <= k
            PROVE  About(p, j)' <= About(p, k)'
        <4>1. CASE k = n + 1
          BY <4>1, <3>1, <3>2, <2>1, <2>5
        <4>2. CASE k # n + 1
          <5>1. j \in 1..n /\ k \in 1..n
            BY <4>2, <3>3, <2>1
          <5> QED BY <5>1, <3>3, <2>3
        <4> QED BY <4>1, <4>2
      <3> QED BY <3>2, <3>3, <2>5
    <2> QED BY <2>1, <2>4, <2>5
  <1>2. ASSUME verdict' # None
        PROVE  \E p \in Partition : \E k \in DOMAIN enriched'[p] :
                 /\ verdict'.at = <<p, analysisAt'[p]>>
                 /\ k = Len(enriched'[p]) /\ enriched'[p][k] = verdict'
    <2>1. CASE UNCHANGED <<analysisAt, verdict, written, enriched, enrichment>>
      BY <1>2, <2>1 DEF OrderInv
    <2>2. ASSUME NEW q \in Partition, Adds(q)
          PROVE  \E k \in DOMAIN enriched'[q] :
                   /\ verdict'.at = <<q, analysisAt'[q]>>
                   /\ k = Len(enriched'[q]) /\ enriched'[q][k] = verdict'
      <3>1. enriched[q] \in Seq(Verdict) /\ enriched'[q] = Append(enriched[q], verdict') /\ verdict' \in Verdict
        BY <1>0, <2>2 DEF Adds, EnrichedInv
      <3>2. Len(enriched'[q]) \in DOMAIN enriched'[q] /\ enriched'[q][Len(enriched'[q])] = verdict'
        BY <3>1
      <3> QED BY <3>2, <2>2 DEF Adds
    <2>3. ASSUME (\E q \in Partition : \E r \in Offsets(q) : UpsertEnriched(q, r)) PROVE UNCHANGED <<analysisAt, verdict, enriched>>
      BY <2>3, Zenon DEF UpsertEnriched
    <2>4. ASSUME (\E q \in Partition : \E r \in Offsets(q) : Commit(q, r)) \/ AnalysisRestart PROVE FALSE
      BY <1>2, <2>4 DEF Commit, AnalysisRestart
    <2>5. CASE UNCHANGED <<analysisAt, verdict, enriched>>
      BY <1>2, <2>5 DEF OrderInv
    <2> QED BY <2>1, <2>2, <2>3, <2>4, <2>5, EnrichedSteps
  <1> QED BY <1>1, <1>2 DEF OrderInv

\* Each committed report has a message about it; the row of the report in hand
\* is written when written is set; the other rows have the last message.
Told == \A p \in Partition : \A o \in Offsets(p) :
          o < analysisAt[p] => \E k \in DOMAIN enriched[p] : About(p, k) = o

HandIsWritten == written => \A p \in Partition : \A o \in Offsets(p) :
                   verdict.at = <<p, o>> => enrichment[At(p, o).id] = verdict

RowIsLast == \A p \in Partition : \A k \in DOMAIN enriched[p] :
               IsLast(p, k) /\ About(p, k) < analysisAt[p] => enrichment[EventOf(p, k)] = enriched[p][k]

HasLast == \A p \in Partition : \A k \in DOMAIN enriched[p] :
             \E m \in DOMAIN enriched[p] : EventOf(p, m) = EventOf(p, k) /\ IsLast(p, m)

LastInv ==
    /\ HandInv /\ LogInv /\ HasLast
    /\ verdict \in Verdict \cup {None}
    /\ enrichment \in [Id -> Verdict \cup {None}]
    /\ faults = 0 => OrderInv /\ Told /\ HandIsWritten /\ RowIsLast

LEMMA ToldStep ==
    ASSUME HandInv, OrderInv, Told, faults' = faults, [Next]_vars
    PROVE  Told'
  <1> SUFFICES ASSUME NEW p \in Partition, NEW o \in Offsets(p)', o < analysisAt'[p]
               PROVE  \E k \in DOMAIN enriched'[p] : About(p, k)' = o
    BY DEF Told
  <1>0. /\ EnrichedInv /\ analysisAt \in [Partition -> Nat] /\ analysisAt[p] <= Len(log[p])
        /\ Len(log[p]) \in Nat /\ Len(log'[p]) \in Nat /\ o \in Nat
    BY LengthsGrow DEF HandInv, EnrichedInv, RawInv, Offsets
  <1>1. \A k \in DOMAIN enriched[p] : k \in DOMAIN enriched'[p] /\ About(p, k)' = About(p, k)
    BY <1>0, MessagesStep
  <1>2. CASE o < analysisAt[p]
    <2>1. o \in Offsets(p)
      BY <1>0, <1>2 DEF Offsets
    <2> QED BY <2>1, <1>1, <1>2 DEF Told
  <1>3. ASSUME NEW q \in Partition, NEW r \in Offsets(q), Commit(q, r), verdict # None, r = analysisAt[q]
        PROVE  o < analysisAt[p] \/ \E k \in DOMAIN enriched[p] : About(p, k) = o
    <2>1. analysisAt' = [analysisAt EXCEPT ![q] = r + 1] /\ verdict.at = <<q, r>>
      BY <1>3 DEF Commit
    <2>2. o < analysisAt[p] \/ (p = q /\ o = r)
      BY <2>1, <1>0, <1>3
    <2>3. \E k \in DOMAIN enriched[q] : About(q, k) = r
      BY <2>1, <1>3 DEF OrderInv, About
    <2> QED BY <2>2, <2>3
  <1>4. \/ analysisAt' = analysisAt
        \/ \E q \in Partition : \E r \in Offsets(q) : Commit(q, r) /\ verdict # None /\ r = analysisAt[q]
    BY EnrichedSteps, Zenon DEF Adds, UpsertEnriched, AnalysisRestart
  <1>5. o < analysisAt[p] \/ \E k \in DOMAIN enriched[p] : About(p, k) = o
    BY <1>3, <1>4
  <1> QED BY <1>1, <1>2, <1>5

LEMMA HandIsWrittenStep ==
    ASSUME HandInv, HandIsWritten, enrichment \in [Id -> Verdict \cup {None}], faults' = faults, [Next]_vars
    PROVE  HandIsWritten'
  <1> SUFFICES ASSUME written', NEW p \in Partition, NEW o \in Offsets(p)', verdict'.at = <<p, o>>
               PROVE  enrichment'[At(p, o)'.id] = verdict'
    BY Zenon DEF HandIsWritten
  <1>0. log \in [Partition -> Seq(Report)] /\ \A q \in Partition : Len(log[q]) \in Nat /\ Len(log'[q]) \in Nat
    BY LengthsGrow DEF HandInv, EnrichedInv, RawInv
  <1>1. CASE UNCHANGED <<analysisAt, verdict, written, enriched, enrichment>>
    <2>1. written /\ verdict # None
      BY <1>1, Zenon DEF HandInv
    <2>2. o \in Offsets(p)
      BY <2>1, <1>1, <1>0 DEF HandInv, Offsets
    <2>3. enrichment[At(p, o).id] = verdict
      BY <2>1, <2>2, <1>1, Zenon DEF HandIsWritten
    <2>4. At(p, o)' = At(p, o)
      BY <2>2, <1>0, LogStep
    <2> QED BY <2>3, <2>4, <1>1
  <1>2. ASSUME NEW q \in Partition, Adds(q) PROVE FALSE
    BY <1>2, Zenon DEF Adds, HandInv
  <1>3. ASSUME NEW q \in Partition, NEW r \in Offsets(q), UpsertEnriched(q, r)
        PROVE  enrichment'[At(p, o)'.id] = verdict'
    <2>1. /\ verdict.at = <<q, r>> /\ verdict' = verdict /\ log' = log
          /\ enrichment' = [enrichment EXCEPT ![At(q, r).id] = verdict]
      BY <1>3 DEF UpsertEnriched
    <2>2. At(q, r).id \in Id
      BY <1>0, ReportIs
    <2>3. p = q /\ o = r
      BY <2>1
    <2> QED BY <2>1, <2>2, <2>3 DEF At
  <1>4. ASSUME (\E q \in Partition : \E r \in Offsets(q) : Commit(q, r)) \/ AnalysisRestart PROVE FALSE
    BY <1>4, Zenon DEF Commit, AnalysisRestart
  <1> QED BY EnrichedSteps, <1>1, <1>2, <1>3, <1>4

\* Message k is the last one about its event, before and after a step.
LEMMA LastStep ==
    ASSUME EnrichedInv, [Next]_vars, NEW p \in Partition, NEW k \in DOMAIN enriched[p]
    PROVE  /\ IsLast(p, k)' => IsLast(p, k)
           /\ enriched'[p] = enriched[p] /\ IsLast(p, k) => IsLast(p, k)'
  <1>1. /\ \A j \in DOMAIN enriched[p] : j \in DOMAIN enriched'[p] /\ EventOf(p, j)' = EventOf(p, j)
    BY MessagesStep
  <1> QED BY <1>1 DEF IsLast

LEMMA HasLastStep ==
    ASSUME EnrichedInv, HasLast, [Next]_vars
    PROVE  HasLast'
  <1> SUFFICES ASSUME NEW p \in Partition, NEW k \in DOMAIN enriched'[p]
               PROVE  \E m \in DOMAIN enriched'[p] : EventOf(p, m)' = EventOf(p, k)' /\ IsLast(p, m)'
    BY DEF HasLast
  <1>0. PICK n : n = Len(enriched[p])
    OBVIOUS
  <1>1. /\ n \in Nat /\ DOMAIN enriched[p] = 1..n
        /\ \A j \in 1..n : j \in DOMAIN enriched'[p] /\ EventOf(p, j)' = EventOf(p, j)
        /\ enriched'[p] = enriched[p] \/ DOMAIN enriched'[p] = 1..(n + 1)
    BY <1>0, MessagesStep
  <1>2. CASE enriched'[p] = enriched[p]
    <2>1. PICK m \in DOMAIN enriched[p] : EventOf(p, m) = EventOf(p, k) /\ IsLast(p, m)
      BY <1>2 DEF HasLast
    <2>2. IsLast(p, m)' /\ EventOf(p, m)' = EventOf(p, m) /\ EventOf(p, k)' = EventOf(p, k)
      BY <2>1, <1>1, <1>2, LastStep
    <2> QED BY <2>1, <2>2, <1>2
  <1>3. CASE DOMAIN enriched'[p] = 1..(n + 1)
    <2>1. n + 1 \in DOMAIN enriched'[p] /\ IsLast(p, n + 1)'
      BY <1>1, <1>3 DEF IsLast
    <2>2. CASE EventOf(p, k)' = EventOf(p, n + 1)'
      BY <2>1, <2>2
    <2>3. CASE EventOf(p, k)' # EventOf(p, n + 1)'
      <3>1. k \in 1..n
        BY <2>3, <1>1, <1>3
      <3>2. PICK m \in 1..n : EventOf(p, m) = EventOf(p, k) /\ IsLast(p, m)
        BY <3>1, <1>1 DEF HasLast
      <3>3. EventOf(p, m)' = EventOf(p, k)'
        BY <3>1, <3>2, <1>1
      <3>4. ASSUME NEW j \in DOMAIN enriched'[p], EventOf(p, j)' = EventOf(p, m)' PROVE j <= m
        <4>1. j \in 1..n
          BY <3>3, <3>4, <2>3, <1>1, <1>3
        <4> QED BY <4>1, <3>2, <3>4, <1>1 DEF IsLast
      <3> QED BY <3>2, <3>3, <3>4, <1>1 DEF IsLast
    <2> QED BY <2>2, <2>3
  <1> QED BY <1>1, <1>2, <1>3

LEMMA RowIsLastStep ==
    ASSUME LastInv, faults = 0, faults' = faults, [Next]_vars
    PROVE  RowIsLast'
  <1> SUFFICES ASSUME NEW p \in Partition, NEW k \in DOMAIN enriched'[p],
                      IsLast(p, k)', About(p, k)' < analysisAt'[p]
               PROVE  enrichment'[EventOf(p, k)'] = enriched'[p][k]
    BY DEF RowIsLast
  <1>0. /\ HandInv /\ LogInv /\ EnrichedInv /\ OrderInv /\ HandIsWritten /\ RowIsLast
        /\ log \in [Partition -> Seq(Report)] /\ analysisAt \in [Partition -> Nat]
        /\ enrichment \in [Id -> Verdict \cup {None}]
    BY DEF LastInv, HandInv, EnrichedInv, RawInv
  <1>e. PICK n : n = Len(enriched[p])
    OBVIOUS
  <1>n. /\ n \in Nat /\ DOMAIN enriched[p] = 1..n
        /\ \/ enriched'[p] = enriched[p]
           \/ DOMAIN enriched'[p] = 1..(n + 1) /\ About(p, n + 1)' = analysisAt[p] /\ analysisAt' = analysisAt
    BY <1>e, <1>0, MessagesStep DEF Adds
  <1>1. k \in DOMAIN enriched[p]
    <2>1. analysisAt[p] \in Nat
      BY <1>0
    <2>2. k # n + 1 \/ enriched'[p] = enriched[p]
      BY <2>1, <1>n
    <2> QED BY <2>2, <1>n
  <1>2. /\ enriched'[p][k] = enriched[p][k] /\ About(p, k)' = About(p, k) /\ EventOf(p, k)' = EventOf(p, k)
        /\ IsLast(p, k) /\ About(p, k) \in Nat
    BY <1>0, <1>1, MessagesStep, LastStep
  <1>a. About(p, k) \in Offsets(p)
    BY <1>0, <1>1 DEF EnrichedInv, Sound, About
  <1>i. EventOf(p, k) \in Id /\ PartitionOf[EventOf(p, k)] = p
    BY <1>0, <1>a, ReportIs DEF LogInv, EventOf
  <1>3. ASSUME analysisAt' = analysisAt, enrichment' = enrichment
        PROVE  enrichment'[EventOf(p, k)'] = enriched'[p][k]
    BY <1>0, <1>1, <1>2, <1>3 DEF RowIsLast
  <1>4. ASSUME NEW q \in Partition, NEW r \in Offsets(q), UpsertEnriched(q, r), verdict # None, r = analysisAt[q]
        PROVE  enrichment'[EventOf(p, k)'] = enriched'[p][k]
    <2>1. /\ verdict.at = <<q, r>> /\ analysisAt' = analysisAt
          /\ enrichment' = [enrichment EXCEPT ![At(q, r).id] = verdict]
      BY <1>4 DEF UpsertEnriched
    <2>2. EventOf(p, k) # At(q, r).id
      <3> SUFFICES ASSUME EventOf(p, k) = At(q, r).id PROVE FALSE
        OBVIOUS
      <3>1. p = q
        BY <1>i, <1>0 DEF LogInv
      <3>2. PICK m \in DOMAIN enriched[q] : m = Len(enriched[q]) /\ enriched[q][m] = verdict
        BY <1>0, <1>4, <2>1 DEF OrderInv
      <3>3. About(q, m) = r /\ EventOf(q, m) = At(q, r).id
        BY <3>2, <2>1 DEF About, EventOf
      <3>4. m <= k
        BY <3>1, <3>2, <3>3, <1>2 DEF IsLast
      <3>5. k = m
        BY <3>1, <3>2, <3>4, <1>1, <1>n, <1>e
      <3> QED BY <3>1, <3>3, <3>5, <1>2, <1>4, <2>1, <1>0
    <2> QED BY <2>1, <2>2, <1>0, <1>1, <1>2, <1>i DEF RowIsLast
  <1>5. ASSUME NEW q \in Partition, NEW r \in Offsets(q), Commit(q, r), verdict # None, r = analysisAt[q]
        PROVE  enrichment'[EventOf(p, k)'] = enriched'[p][k]
    <2>1. /\ verdict.at = <<q, r>> /\ enrichment' = enrichment
          /\ analysisAt' = [analysisAt EXCEPT ![q] = r + 1]
      BY <1>5, Zenon DEF Commit, table
    <2>2. written
      BY <1>5, Zenon DEF Commit
    <2>3. CASE About(p, k) < analysisAt[p]
      BY <2>1, <2>3, <1>0, <1>1, <1>2 DEF RowIsLast
    <2>4. CASE ~(About(p, k) < analysisAt[p])
      <3>1. p = q /\ About(p, k) = r
        BY <2>1, <2>4, <1>0, <1>2, <1>5
      <3>2. PICK m \in DOMAIN enriched[q] : m = Len(enriched[q]) /\ enriched[q][m] = verdict
        BY <1>0, <1>5, <2>1 DEF OrderInv
      <3>3. EventOf(p, m) = EventOf(p, k)
        BY <3>1, <3>2, <2>1 DEF About, EventOf
      <3>4. m <= k
        BY <3>1, <3>2, <3>3, <1>2 DEF IsLast
      <3>5. k = m
        BY <3>1, <3>2, <3>4, <1>1, <1>n, <1>e
      <3>6. enrichment[At(q, r).id] = verdict
        BY <1>0, <2>1, <2>2, Zenon DEF HandIsWritten
      <3>7. EventOf(p, k) = At(q, r).id
        BY <3>1 DEF EventOf
      <3> QED BY <3>1, <3>2, <3>5, <3>6, <3>7, <2>1, <1>2
    <2> QED BY <2>3, <2>4
  <1>6. \/ analysisAt' = analysisAt /\ enrichment' = enrichment
        \/ \E q \in Partition : \E r \in Offsets(q) : UpsertEnriched(q, r) /\ verdict # None /\ r = analysisAt[q]
        \/ \E q \in Partition : \E r \in Offsets(q) : Commit(q, r) /\ verdict # None /\ r = analysisAt[q]
    BY <1>0, EnrichedSteps, Zenon DEF Adds, AnalysisRestart, table
  <1> QED BY <1>3, <1>4, <1>5, <1>6

LEMMA EnrichmentStep ==
    ASSUME EnrichedInv, verdict \in Verdict \cup {None}, enrichment \in [Id -> Verdict \cup {None}], [Next]_vars
    PROVE  verdict' \in Verdict \cup {None} /\ enrichment' \in [Id -> Verdict \cup {None}]
  <1>1. verdict' \in Verdict \cup {None}
    <2>1. ASSUME NEW q \in Partition, Enrich(q) \/ EnrichUnsearched(q) PROVE verdict' \in Verdict
      BY <2>1, AddsStep DEF Adds
    <2>2. ASSUME NEW q \in Partition, EnrichFails(q) PROVE verdict' = verdict
      BY <2>2, Zenon DEF EnrichFails
    <2>3. ASSUME NEW q \in Partition, NEW r \in Offsets(q), UpsertEnriched(q, r) \/ Commit(q, r)
          PROVE  verdict' = verdict \/ verdict' = None
      BY <2>3, Zenon DEF UpsertEnriched, Commit
    <2>4. UpsertEnrichedFails \/ AnalysisRestart => verdict' = verdict \/ verdict' = None
      BY Zenon DEF UpsertEnrichedFails, AnalysisRestart
    <2> QED BY HandSteps, <2>1, <2>2, <2>3, <2>4
  <1>2. CASE enrichment' = enrichment
    BY <1>1, <1>2
  <1>3. ASSUME NEW q \in Partition, NEW r \in Offsets(q), UpsertEnriched(q, r)
        PROVE  enrichment' \in [Id -> Verdict \cup {None}]
    BY <1>3 DEF UpsertEnriched
  <1>4. \/ enrichment' = enrichment
        \/ \E q \in Partition : \E r \in Offsets(q) : UpsertEnriched(q, r)
    <2>1. CASE Storage
      BY <2>1, Zenon DEF Storage, StorageFails, StorageRestart, Skip, Pass, Upsert, table
    <2>2. CASE Analysis
      BY <2>2, Zenon DEF Analysis, UpsertEnrichedFails, AnalysisRestart, Enrich, EnrichUnsearched, EnrichFails,
                         Commit, table
    <2>3. CASE \E r \in Report : Publish(r)
      BY <2>3, Zenon DEF Publish, table
    <2>4. CASE UNCHANGED vars
      BY <2>4, Zenon DEF vars, table
    <2> QED BY <2>1, <2>2, <2>3, <2>4 DEF Next
  <1> QED BY <1>1, <1>2, <1>3, <1>4

LEMMA LastInductive == LastInv /\ [Next]_vars => LastInv'
  <1> SUFFICES ASSUME LastInv, [Next]_vars PROVE LastInv'
    OBVIOUS
  <1>0. HandInv /\ EnrichedInv /\ log \in [Partition -> Seq(Report)] /\ faults \in Nat
    BY DEF LastInv, HandInv, EnrichedInv, RawInv
  <1>1. HandInv' /\ LogInv' /\ HasLast'
    BY <1>0, HandStep, LogInvStep, HasLastStep DEF LastInv
  <1>2. verdict' \in Verdict \cup {None} /\ enrichment' \in [Id -> Verdict \cup {None}]
    BY <1>0, EnrichmentStep DEF LastInv
  <1>3. ASSUME faults' = 0 PROVE OrderInv' /\ Told' /\ HandIsWritten' /\ RowIsLast'
    <2>1. faults' = faults /\ faults = 0
      BY <1>0, <1>3, FaultsStep
    <2> QED BY <1>0, <2>1, OrderStep, ToldStep, HandIsWrittenStep, RowIsLastStep DEF LastInv
  <1> QED BY <1>1, <1>2, <1>3 DEF LastInv

EndInv == RowsInv /\ StorageInv /\ LastInv

LEMMA EndInvariant == Spec => []EndInv
  <1>1. Init => EndInv
    <2> SUFFICES ASSUME Init PROVE EndInv
      OBVIOUS
    <2>1. RowsInv
      BY RowsInit
    <2>2. /\ \A p \in Partition : Offsets(p) = {} /\ Len(log[p]) = 0 /\ enriched[p] = <<>>
          /\ \A p \in Partition : storageAt[p] = 0 /\ analysisAt[p] = 0
      BY DEF Init, Offsets
    <2>3. StorageInv
      BY <2>1, <2>2 DEF Init, StorageInv, RowsInv, HandInv, EnrichedInv
    <2>4. OrderInv /\ Told /\ RowIsLast /\ HasLast /\ LogInv
      BY <2>2 DEF Init, OrderInv, Told, RowIsLast, HasLast, LogInv
    <2>5. HandIsWritten
      BY Zenon DEF Init, HandIsWritten
    <2> QED BY <2>1, <2>3, <2>4, <2>5 DEF Init, EndInv, LastInv, RowsInv
  <1>2. EndInv /\ [Next]_vars => EndInv'
    BY RowsStep, StorageStep, LastInductive DEF EndInv
  <1> QED BY <1>1, <1>2, PTL DEF Spec

LEMMA EndIsConsistent == EndInv => ConsistentAtTheEnd
  <1> SUFFICES ASSUME EndInv, checked = None, faults = 0,
                      \A p \in Partition : storageAt[p] = Len(log[p]) /\ analysisAt[p] = Len(log[p]),
                      NEW a \in Produced
               PROVE  LET r == At(a[1], a[2])
                          Same == {k \in DOMAIN enriched[a[1]] :
                                      At(a[1], enriched[a[1]][k].at[2]).id = r.id}
                      IN  /\ raw[r.id] # None
                          /\ a \notin skipped => raw[r.id].time >= r.time
                          /\ \E k \in Same :
                               /\ \A j \in Same : j <= k
                               /\ enrichment[r.id] = enriched[a[1]][k]
                               /\ enriched[a[1]][k].at[2] >= a[2]
    BY DEF ConsistentAtTheEnd
  <1>1. PICK p \in Partition : a \in {p} \X Offsets(p)
    BY DEF Produced
  <1>2. PICK o \in Offsets(p) : a = <<p, o>>
    BY <1>1
  <1>0. /\ log \in [Partition -> Seq(Report)] /\ o \in Nat /\ o < Len(log[p])
        /\ OrderInv /\ Told /\ RowIsLast /\ HasLast /\ EnrichedInv
    <2>1. log \in [Partition -> Seq(Report)]
      BY DEF EndInv, StorageInv, RawInv
    <2>2. Len(log[p]) \in Nat
      BY <2>1
    <2> QED BY <2>1, <2>2 DEF EndInv, LastInv, HandInv, Offsets
  <1>3. raw[At(p, o).id] # None
    BY <1>0 DEF EndInv, RowsInv, Covered
  <1>4. a \notin skipped => raw[At(p, o).id].time >= At(p, o).time
    <2>1. checked # <<p, o>>
      BY <1>0, CatalogueAssumption
    <2> QED BY <1>0, <1>2, <2>1 DEF EndInv, StorageInv, InTable
  <1>5. PICK k \in DOMAIN enriched[p] : About(p, k) = o
    BY <1>0 DEF Told
  <1>6. PICK m \in DOMAIN enriched[p] : EventOf(p, m) = EventOf(p, k) /\ IsLast(p, m)
    BY <1>0 DEF HasLast
  <1>7. EventOf(p, k) = At(p, o).id
    BY <1>5 DEF EventOf
  <1>8. k <= m /\ About(p, m) >= o
    <2>1. k <= m
      BY <1>6 DEF IsLast
    <2>2. About(p, k) <= About(p, m)
      BY <1>0, <2>1 DEF OrderInv
    <2>3. About(p, m) \in Offsets(p)
      BY <1>0 DEF EnrichedInv, Sound, About
    <2>4. About(p, m) \in Nat
      BY <2>3, <1>0 DEF Offsets
    <2> QED BY <1>0, <2>1, <2>2, <2>4, <1>5
  <1>9. About(p, m) < analysisAt[p]
    <2>1. About(p, m) \in Offsets(p) /\ Len(log[p]) \in Nat
      BY <1>0 DEF EnrichedInv, Sound, About
    <2> QED BY <2>1 DEF Offsets
  <1>10. enrichment[At(p, o).id] = enriched[p][m]
    BY <1>0, <1>6, <1>7, <1>9 DEF RowIsLast
  <1>11. /\ m \in {j \in DOMAIN enriched[p] : EventOf(p, j) = At(p, o).id}
         /\ \A j \in {l \in DOMAIN enriched[p] : EventOf(p, l) = At(p, o).id} : j <= m
    BY <1>6, <1>7 DEF IsLast
  <1>12. a[1] = p /\ a[2] = o
    BY <1>2
  <1> QED BY <1>3, <1>4, <1>8, <1>10, <1>11, <1>12 DEF EventOf, About

(* Whoever wins which race: once both services have read their topic to    *)
(* the end and no call has failed, every event has a row as recent as its  *)
(* reports, and its enrichment is the last thing that was published of it. *)
THEOREM ConsistentAtTheEndCorrect == Spec => []ConsistentAtTheEnd
  BY EndIsConsistent, EndInvariant, PTL
=============================================================================
