----------------------------- MODULE Catalogue -----------------------------
(***************************************************************************)
(* One table, two writers: the storage and the analysis service each       *)
(* consume earthquakes.raw at their own pace and upsert the same rows of   *)
(* seismic_events, storage their raw columns and analysis the enrichment.  *)
(* Both read the table before they write it: storage for the same          *)
(* earthquake of another network, analysis for a mainshock.                *)
(*                                                                         *)
(* StorageConsumer and AnalysisConsumer have what happens to a message     *)
(* that is malformed or cannot be delivered.  Here every report is valid,  *)
(* failed calls are counted by faults, and a restart of storage repeats    *)
(* any number of messages, since its commits are asynchronous.             *)
(***************************************************************************)
EXTENDS Integers, Sequences, FiniteSets

CONSTANTS
    Partition,    \* partitions of earthquakes.raw
    PartitionOf,  \* the partition of a source_id, its message key
    NetworkOf,    \* the source_network of a source_id
    Report,       \* records [id, time, place, magnitude, rank]
    Distance,     \* km between two places
    GKTime, GKSpace,         \* the window of a magnitude (in tenths), in time and km
    MaxTime, MaxSpace,       \* 30 days, 100 km
    MatchTime, MatchSpace,   \* 30 s, 55 km
    None,
    MaxLog, MaxRestarts, MaxFaults   \* bounds

Id == DOMAIN NetworkOf

ASSUME CatalogueAssumption ==
    /\ PartitionOf \in [Id -> Partition]
    /\ \A r \in Report : r.id \in Id /\ r.time \in Int /\ r.magnitude \in Int /\ r.rank \in 1..4
    /\ None \notin Report \cup (Partition \X Nat)
    /\ {MaxLog, MaxRestarts, MaxFaults} \subseteq Nat

VARIABLES
    log,        \* earthquakes.raw
    storageAt,  \* the next offset storage fetches
    checked,    \* <<partition, offset>> of the report storage is about to upsert, or None
    skipped,    \* <<partition, offset>> of the reports dropped as cross-source duplicates
    analysisAt, \* the offset analysis has in hand, or waits for
    verdict,    \* what analysis has published on the report in hand, or None
    written,    \* its upsert is over, the commit is not
    enriched,   \* verdicts on earthquakes.enriched, in their order
    raw,        \* the report the raw columns of a row are from, None without a row
    enrichment, \* the verdict the enrichment columns of a row are from, or None
    restarts, faults

storage == <<storageAt, checked, skipped>>
analysis == <<analysisAt, verdict, written, enriched>>
table == <<raw, enrichment>>
vars == <<log, storage, analysis, table, restarts, faults>>

Offsets(p) == 0..(Len(log[p]) - 1)

At(p, o) == log[p][o + 1]

Produced == UNION {{p} \X Offsets(p) : p \in Partition}

\* found is the row that the search for a mainshock returned, mainshock the one
\* that is published: found, if the report lies in its window.
Verdict == [at : Partition \X Nat, found : Report \cup {None}, mainshock : Report \cup {None}]

TypeOK ==
    /\ log \in [Partition -> Seq(Report)]
    /\ storageAt \in [Partition -> Nat] /\ analysisAt \in [Partition -> Nat]
    /\ checked \in (Partition \X Nat) \cup {None}
    /\ skipped \subseteq Partition \X Nat
    /\ verdict \in Verdict \cup {None}
    /\ written \in BOOLEAN
    /\ enriched \in [Partition -> Seq(Verdict)]
    /\ raw \in [Id -> Report \cup {None}]
    /\ enrichment \in [Id -> Verdict \cup {None}]
    /\ restarts \in Nat /\ faults \in Nat

Init ==
    /\ log = [p \in Partition |-> <<>>]
    /\ storageAt = [p \in Partition |-> 0] /\ checked = None /\ skipped = {}
    /\ analysisAt = [p \in Partition |-> 0] /\ verdict = None /\ written = FALSE
    /\ enriched = [p \in Partition |-> <<>>]
    /\ raw = [i \in Id |-> None] /\ enrichment = [i \in Id |-> None]
    /\ restarts = 0 /\ faults = 0

Publish(r) ==
    /\ Len(log[PartitionOf[r.id]]) < MaxLog
    /\ log' = [log EXCEPT ![PartitionOf[r.id]] = Append(@, r)]
    /\ UNCHANGED <<storage, analysis, table, restarts, faults>>

Fault == faults < MaxFaults /\ faults' = faults + 1

Rows == {raw[i] : i \in {j \in Id : raw[j] # None}}

-----------------------------------------------------------------------------
(* The storage service *)

\* The condition of find_cross_source_match.
SameEarthquake(r, c) ==
    /\ NetworkOf[c.id] # NetworkOf[r.id]
    /\ c.time - r.time <= MatchTime /\ r.time - c.time <= MatchTime
    /\ Distance[r.place, c.place] <= MatchSpace

Fetch(p) ==
    /\ checked = None /\ storageAt[p] < Len(log[p])
    /\ storageAt' = [storageAt EXCEPT ![p] = @ + 1]

\* LIMIT 1 without an ORDER BY: any match decides.
Skip(p) ==
    /\ Fetch(p)
    /\ LET r == At(p, storageAt[p])
       IN  \E c \in Rows : SameEarthquake(r, c) /\ r.rank <= c.rank
    /\ skipped' = skipped \cup {<<p, storageAt[p]>>}
    /\ UNCHANGED <<log, checked, analysis, table, restarts, faults>>

Pass(p) ==
    /\ Fetch(p)
    /\ LET r == At(p, storageAt[p])
       IN  \/ \A c \in Rows : ~SameEarthquake(r, c)
           \/ \E c \in Rows : SameEarthquake(r, c) /\ c.rank < r.rank
    /\ checked' = <<p, storageAt[p]>>
    /\ UNCHANGED <<log, skipped, analysis, table, restarts, faults>>

\* All raw columns are replaced, or none.
Upsert(p, o) ==
    /\ checked = <<p, o>>
    /\ LET r == At(p, o)
       IN  raw' = IF raw[r.id] = None \/ r.time > raw[r.id].time
                    THEN [raw EXCEPT ![r.id] = r] ELSE raw
    /\ checked' = None
    /\ UNCHANGED <<log, storageAt, skipped, analysis, enrichment, restarts, faults>>

\* A query fails: the report goes to the dead-letter topic, which nothing reads.
StorageFails ==
    /\ Fault
    /\ \/ checked # None /\ checked' = None /\ UNCHANGED storageAt
       \/ (\E p \in Partition : Fetch(p)) /\ UNCHANGED checked
    /\ UNCHANGED <<log, skipped, analysis, table, restarts>>

\* The process begins again at commits that landed, however old: none of them
\* covers the report in hand.
StorageRestart ==
    /\ restarts < MaxRestarts /\ restarts' = restarts + 1
    /\ storageAt' \in {at \in [Partition -> 0..MaxLog] :
                        /\ \A p \in Partition : at[p] <= storageAt[p]
                        /\ checked # None => at[checked[1]] <= checked[2]}
    /\ checked' = None
    /\ UNCHANGED <<log, skipped, analysis, table, faults>>

-----------------------------------------------------------------------------
(* The analysis service *)

AtMost(x, bound) == IF x < bound THEN x ELSE bound

\* The WHERE clause of find_mainshock: the window of a magnitude one larger.
Qualifies(c, r) ==
    LET proxy == AtMost(r.magnitude + 10, 85)
    IN  /\ c.magnitude > r.magnitude
        /\ c.time < r.time /\ r.time - c.time < AtMost(GKTime[proxy], MaxTime)
        /\ Distance[r.place, c.place] <= AtMost(GKSpace[proxy], MaxSpace)

\* ORDER BY magnitude DESC, event_time DESC
Before(c, d) == c.magnitude > d.magnitude \/ (c.magnitude = d.magnitude /\ c.time >= d.time)

\* Mutant of Found: the rows are in the opposite order.
FoundLast(r) ==
    LET S == {c \in Rows : Qualifies(c, r)}
    IN  IF S = {} THEN {None} ELSE {c \in S : \A d \in S : Before(d, c)}

\* The rows that find_mainshock may return: LIMIT 1.
Found(r) ==
    LET S == {c \in Rows : Qualifies(c, r)}
    IN  IF S = {} THEN {None} ELSE {c \in S : \A d \in S : Before(c, d)}

\* classify_aftershock: the window of the magnitude that was found.
InWindow(r, c) ==
    /\ 0 <= r.time - c.time /\ r.time - c.time <= GKTime[c.magnitude]
    /\ Distance[r.place, c.place] <= GKSpace[c.magnitude]

\* The search, then the enriched message.
Enrich(p) ==
    /\ verdict = None /\ analysisAt[p] < Len(log[p])
    /\ LET r == At(p, analysisAt[p])
       IN  \E c \in Found(r) :
             verdict' = [at |-> <<p, analysisAt[p]>>, found |-> c,
                         mainshock |-> IF c # None /\ InWindow(r, c) THEN c ELSE None]
    /\ enriched' = [enriched EXCEPT ![p] = Append(@, verdict')]
    /\ UNCHANGED <<log, storage, analysisAt, written, table, restarts, faults>>

\* A query that fails means no mainshock.
EnrichUnsearched(p) ==
    /\ verdict = None /\ analysisAt[p] < Len(log[p]) /\ Fault
    /\ verdict' = [at |-> <<p, analysisAt[p]>>, found |-> None, mainshock |-> None]
    /\ enriched' = [enriched EXCEPT ![p] = Append(@, verdict')]
    /\ UNCHANGED <<log, storage, analysisAt, written, table, restarts>>

\* No connection, or no delivery: the report is dead-lettered and committed.
EnrichFails(p) ==
    /\ verdict = None /\ analysisAt[p] < Len(log[p]) /\ Fault
    /\ analysisAt' = [analysisAt EXCEPT ![p] = @ + 1]
    /\ UNCHANGED <<log, storage, verdict, written, enriched, table, restarts>>

\* Mutant of UpsertEnriched: ON CONFLICT sets the magnitude too.
UpsertEnrichedMagnitude(p, o) ==
    /\ verdict # None /\ ~written /\ verdict.at = <<p, o>>
    /\ LET r == At(p, o)
       IN  /\ raw' = IF raw[r.id] = None THEN [raw EXCEPT ![r.id] = r]
                     ELSE [raw EXCEPT ![r.id].magnitude = r.magnitude]
           /\ enrichment' = [enrichment EXCEPT ![r.id] = verdict]
    /\ written' = TRUE
    /\ UNCHANGED <<log, storage, analysisAt, verdict, enriched, restarts, faults>>

\* INSERT writes all columns, ON CONFLICT those of the enrichment.
UpsertEnriched(p, o) ==
    /\ verdict # None /\ ~written /\ verdict.at = <<p, o>>
    /\ LET r == At(p, o)
       IN  /\ raw' = IF raw[r.id] = None THEN [raw EXCEPT ![r.id] = r] ELSE raw
           /\ enrichment' = [enrichment EXCEPT ![r.id] = verdict]
    /\ written' = TRUE
    /\ UNCHANGED <<log, storage, analysisAt, verdict, enriched, restarts, faults>>

\* Counted, and passed over.
UpsertEnrichedFails ==
    /\ verdict # None /\ ~written /\ Fault
    /\ written' = TRUE
    /\ UNCHANGED <<log, storage, analysisAt, verdict, enriched, table, restarts>>

Commit(p, o) ==
    /\ written /\ verdict.at = <<p, o>>
    /\ analysisAt' = [analysisAt EXCEPT ![p] = o + 1]
    /\ verdict' = None /\ written' = FALSE
    /\ UNCHANGED <<log, storage, enriched, table, restarts, faults>>

\* Mutant of AnalysisRestart: the offset is committed before the message is processed.
AnalysisRestartPast ==
    /\ verdict # None /\ restarts < MaxRestarts /\ restarts' = restarts + 1
    /\ analysisAt' = [analysisAt EXCEPT ![verdict.at[1]] = verdict.at[2] + 1]
    /\ verdict' = None /\ written' = FALSE
    /\ UNCHANGED <<log, storage, enriched, table, faults>>

\* The message in hand was not committed: it is taken again.
AnalysisRestart ==
    /\ verdict # None /\ restarts < MaxRestarts /\ restarts' = restarts + 1
    /\ verdict' = None /\ written' = FALSE
    /\ UNCHANGED <<log, storage, analysisAt, enriched, table, faults>>

-----------------------------------------------------------------------------

Storage ==
    \/ StorageFails \/ StorageRestart
    \/ \E p \in Partition :
         \/ Skip(p) \/ Pass(p) \/ \E o \in Offsets(p) : Upsert(p, o)

Analysis ==
    \/ UpsertEnrichedFails \/ AnalysisRestart
    \/ \E p \in Partition :
         \/ Enrich(p) \/ EnrichUnsearched(p) \/ EnrichFails(p)
         \/ \E o \in Offsets(p) : UpsertEnriched(p, o) \/ Commit(p, o)

Next == Storage \/ Analysis \/ \E r \in Report : Publish(r)

Spec == Init /\ [][Next]_vars

-----------------------------------------------------------------------------
(* Properties *)

Reports == {At(a[1], a[2]) : a \in Produced}

\* Two services upsert one row and none of them locks it, and storage may be
\* behind, ahead, or begin again: the raw columns are always those of one
\* report of the event, and replaced only by those of a later one.
RawOnlyAdvances ==
    [][\A i \in Id : raw'[i] # raw[i] =>
         /\ raw'[i] \in Reports /\ raw'[i].id = i
         /\ raw[i] # None => raw'[i].time > raw[i].time]_vars

\* Whoever wins which race, when both have read their topic to the end and no
\* call failed, every event has a row that is as recent as its reports, those
\* that were dropped as duplicates apart; and its enrichment is that of the
\* last report of the event, and the last thing that earthquakes.enriched says
\* of it: who reads the table and who reads the topic see the same.
ConsistentAtTheEnd ==
    (/\ \A p \in Partition : storageAt[p] = Len(log[p]) /\ analysisAt[p] = Len(log[p])
     /\ checked = None /\ faults = 0) =>
        \A a \in Produced :
            LET r == At(a[1], a[2])
                About == {k \in DOMAIN enriched[a[1]] :
                            At(a[1], enriched[a[1]][k].at[2]).id = r.id}
            IN  /\ raw[r.id] # None
                /\ a \notin skipped => raw[r.id].time >= r.time
                /\ \E k \in About :
                     /\ \A j \in About : j <= k
                     /\ enrichment[r.id] = enriched[a[1]][k]
                     /\ enriched[a[1]][k].at[2] >= a[2]

\* The table is read while the other service writes it: what is published as
\* the mainshock of an aftershock is nevertheless a report that was received,
\* larger and earlier, and the aftershock lies in the window of its magnitude.
MainshockIsReal ==
    \A p \in Partition : \A k \in DOMAIN enriched[p] :
        LET v == enriched[p][k]
            r == At(p, v.at[2])
        IN  v.mainshock # None =>
              /\ v.mainshock \in Reports
              /\ v.mainshock.magnitude > r.magnitude /\ v.mainshock.time < r.time
              /\ r.time - v.mainshock.time <= GKTime[v.mainshock.magnitude]
              /\ Distance[r.place, v.mainshock.place] <= GKSpace[v.mainshock.magnitude]

Revised(r) == \E d \in Reports : d.id = r.id /\ d # r

\* Analysis has written the row of every message it has committed, so storage
\* may lag or drop it: the search misses no qualifying event of the same
\* partition that came before, nor takes a smaller one for it, as long as no
\* call failed.  (The other partitions promise nothing.)
PredecessorIsFound ==
    faults = 0 =>
        \A p \in Partition : \A k \in DOMAIN enriched[p] : \A o \in Offsets(p) :
            LET v == enriched[p][k]
                r == At(p, v.at[2])
                c == At(p, o)
            IN  o < v.at[2] /\ Qualifies(c, r) /\ ~Revised(c) =>
                  v.found # None /\ Before(v.found, c)

\* aftershock.py:4-6: an aftershock is one of a larger event, so its mainshock
\* is not the same earthquake: neither an earlier report of the same source_id
\* nor one that storage takes for a duplicate of it.
MainshockIsAnotherEarthquake ==
    \A p \in Partition : \A k \in DOMAIN enriched[p] :
        LET v == enriched[p][k]
            r == At(p, v.at[2])
        IN  v.mainshock # None =>
              v.mainshock.id # r.id /\ ~SameEarthquake(r, v.mainshock)
=============================================================================
