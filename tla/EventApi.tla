------------------------------ MODULE EventApi ------------------------------
(***************************************************************************)
(* Reading events (services/api): GET /v1/events/{id} looks into a Redis   *)
(* key, then into seismic_events, and fills the key in a spawned task; GET *)
(* /v1/events walks the table with a keyset cursor; GET /v1/stats counts   *)
(* the events of each magnitude band, under a key of its own.  All race    *)
(* the storage service, which replaces rows and evicts keys in spawned     *)
(* tasks, and the analysis service, which inserts rows.                    *)
(***************************************************************************)
EXTENDS Integers, Sequences, FiniteSets

CONSTANTS
    Id,           \* source_ids; their order is the one of the column
    Solution,     \* records [time, mag]: what a row says of its event,
                  \* mag in tenths of a magnitude
    Query,        \* records [start, end, min, max]: the filters of a walk
    PageSize,
    NoRow, NoWalk,
    MaxRequests, MaxFaults   \* bounds

ASSUME EventApiAssumption ==
    /\ Id \subseteq Nat /\ IsFiniteSet(Id)
    /\ \A s \in Solution : s.time \in Int /\ s.mag \in Int
    /\ NoRow \notin Solution /\ NoWalk \notin Query
    /\ \A q \in Query : {q.start, q.end, q.min, q.max} \subseteq Int
    /\ PageSize \in Nat \ {0}
    /\ {MaxRequests, MaxFaults} \subseteq Nat

VARIABLES
    rows,        \* seismic_events
    evicting,    \* ids whose key a spawned task of storage has to DEL
    cache,       \* the keys api:event:{id}
    reading,     \* ids of requests between the cache miss and the query
    fills,       \* <<id, row>> that spawned tasks have to SET
    query,       \* the filters of the current walk, or NoWalk
    cursor,      \* <<event_time, source_id>> of the last row returned, or NoCursor
    returned,    \* how often the walk returned each id
    initial,     \* the rows as the walk found them
    touched,     \* ids that were written since
    complete,    \* the last page had no next_cursor
    counts,      \* the ids counted in each band so far, or NoCount
    moved,       \* ids that were written since the count began
    statsKey,    \* the key api:stats, or NoCount
    statsFills,  \* counts that spawned tasks have to SET
    requests, faults

table == <<rows, evicting>>
point == <<cache, reading, fills>>
walk == <<query, cursor, returned, initial, touched, complete>>
stats == <<counts, moved, statsKey, statsFills>>
vars == <<table, point, walk, stats, requests, faults>>

NoCursor == <<>>
NoCount == <<>>

Row == Solution \cup {NoRow}

Count == Seq(SUBSET Id)

TypeOK ==
    /\ rows \in [Id -> Row] /\ cache \in [Id -> Row]
    /\ evicting \subseteq Id /\ reading \subseteq Id
    /\ fills \subseteq Id \X Solution
    /\ query \in Query \cup {NoWalk}
    /\ cursor \in {NoCursor} \cup (Int \X Id)
    /\ returned \in [Id -> Nat] /\ initial \in [Id -> Row] /\ touched \subseteq Id
    /\ complete \in BOOLEAN
    /\ counts \in Count /\ moved \subseteq Id
    /\ statsKey \in Count /\ statsFills \subseteq Count
    /\ requests \in Nat /\ faults \in Nat
    /\ \A i \in Id : cache[i] # NoRow => rows[i] # NoRow /\ cache[i].time <= rows[i].time

Init ==
    /\ rows = [i \in Id |-> NoRow] /\ evicting = {}
    /\ cache = rows /\ reading = {} /\ fills = {}
    /\ query = NoWalk /\ cursor = NoCursor /\ returned = [i \in Id |-> 0]
    /\ initial = rows /\ touched = {} /\ complete = FALSE
    /\ counts = NoCount /\ moved = {} /\ statsKey = NoCount /\ statsFills = {}
    /\ requests = 0 /\ faults = 0

-----------------------------------------------------------------------------
(* The writers *)

Replaces(s, i) == rows[i] = NoRow \/ s.time > rows[i].time

Write(i, s) ==
    /\ rows' = [rows EXCEPT ![i] = s]
    /\ touched' = touched \cup {i} /\ moved' = moved \cup {i}

elsewhere == <<point, query, cursor, returned, initial, complete, counts, statsKey, statsFills,
               requests, faults>>

\* An upsert that changes nothing evicts the key too.
StorageUpserts(i, s) ==
    /\ IF Replaces(s, i) THEN Write(i, s) ELSE UNCHANGED <<rows, touched, moved>>
    /\ evicting' = evicting \cup {i}
    /\ UNCHANGED elsewhere

\* DEL, or its failure, which is logged.
Evict(i) ==
    /\ i \in evicting
    /\ evicting' = evicting \ {i}
    /\ \/ cache' = [cache EXCEPT ![i] = NoRow] /\ UNCHANGED faults
       \/ faults < MaxFaults /\ faults' = faults + 1 /\ UNCHANGED cache
    /\ UNCHANGED <<rows, reading, fills, walk, stats, requests>>

\* The analysis service inserts a row of its own when storage is behind; it
\* knows nothing of the keys.
AnalysisInserts(i, s) ==
    /\ rows[i] = NoRow
    /\ Write(i, s)
    /\ UNCHANGED <<evicting, elsewhere>>

Request == requests < MaxRequests /\ requests' = requests + 1

-----------------------------------------------------------------------------
(* GET /v1/events/{id} *)

\* A hit answers at once and changes nothing; a miss, or a Redis that does not
\* answer, leads to the query.
Miss(i) ==
    /\ Request /\ i \notin reading
    /\ \/ cache[i] = NoRow /\ UNCHANGED faults
       \/ faults < MaxFaults /\ faults' = faults + 1
    /\ reading' = reading \cup {i}
    /\ UNCHANGED <<table, cache, fills, walk, stats>>

\* Without a row the answer is 404, which is not cached.
Read(i) ==
    /\ i \in reading
    /\ reading' = reading \ {i}
    /\ fills' = IF rows[i] = NoRow THEN fills ELSE fills \cup {<<i, rows[i]>>}
    /\ UNCHANGED <<table, cache, walk, stats, requests, faults>>

Fill(i, s) ==
    /\ <<i, s>> \in fills
    /\ fills' = fills \ {<<i, s>>}
    /\ \/ cache' = [cache EXCEPT ![i] = s] /\ UNCHANGED faults
       \/ faults < MaxFaults /\ faults' = faults + 1 /\ UNCHANGED cache
    /\ UNCHANGED <<table, reading, walk, stats, requests>>

\* Mutant of Expire: the key is SET without EX.
ExpireNever(i) == FALSE

\* event_cache_ttl_secs have passed.
Expire(i) ==
    /\ cache[i] # NoRow
    /\ cache' = [cache EXCEPT ![i] = NoRow]
    /\ UNCHANGED <<table, reading, fills, walk, stats, requests, faults>>

-----------------------------------------------------------------------------
(* GET /v1/events *)

Valid(q) == q.start <= q.end /\ q.min <= q.max

Matches(q, r) ==
    /\ r # NoRow
    /\ q.start <= r.time /\ r.time <= q.end /\ q.min <= r.mag /\ r.mag <= q.max

\* Mutant of Behind: a tie in time is cut off.
BehindTimeOnly(i) == cursor # NoCursor => rows[i].time < cursor[1]

\* The keyset condition.
Behind(i) ==
    cursor # NoCursor =>
        \/ rows[i].time < cursor[1]
        \/ rows[i].time = cursor[1] /\ i < cursor[2]

\* ORDER BY event_time DESC, source_id DESC.
Before(i, j) ==
    \/ rows[i].time > rows[j].time
    \/ rows[i].time = rows[j].time /\ i > j

Found == {i \in Id : Matches(query, rows[i]) /\ Behind(i)}

\* LIMIT page_size, one row more being fetched to learn has_more.
Page == {i \in Found : Cardinality({j \in Found : Before(j, i)}) < PageSize}

HasMore == Cardinality(Found) > PageSize

Last == CHOOSE i \in Page : \A j \in Page : i = j \/ Before(j, i)

BeginWalk(q) ==
    /\ query = NoWalk /\ Valid(q) /\ Request
    /\ query' = q /\ cursor' = NoCursor /\ complete' = FALSE
    /\ returned' = [i \in Id |-> 0] /\ initial' = rows /\ touched' = {}
    /\ UNCHANGED <<table, point, stats, faults>>

\* list_events; the client follows next_cursor to the end.
NextPage ==
    /\ query # NoWalk /\ ~complete
    /\ returned' = [i \in Id |-> returned[i] + IF i \in Page THEN 1 ELSE 0]
    /\ IF HasMore
         THEN cursor' = <<rows[Last].time, Last>> /\ UNCHANGED complete
         ELSE complete' = TRUE /\ UNCHANGED cursor
    /\ UNCHANGED <<table, point, query, initial, touched, stats, requests, faults>>

EndWalk ==
    /\ query # NoWalk
    /\ query' = NoWalk /\ cursor' = NoCursor /\ complete' = FALSE
    /\ UNCHANGED <<table, point, returned, initial, touched, stats, requests, faults>>

-----------------------------------------------------------------------------

(* GET /v1/stats *)

Top == 1000   \* max: None

BANDS == << [min |-> 0, max |-> 20], [min |-> 20, max |-> 40], [min |-> 40, max |-> 60],
            [min |-> 60, max |-> 80], [min |-> 80, max |-> Top] >>

\* Mutant of InBand: the upper bound is inclusive.
InBandClosed(b, r) == r # NoRow /\ BANDS[b].min <= r.mag /\ r.mag <= BANDS[b].max

\* The CTE of BAND_SQL.  The four time windows count among these rows.
InBand(b, r) == r # NoRow /\ BANDS[b].min <= r.mag /\ r.mag < BANDS[b].max

Counted(b) == {i \in Id : InBand(b, rows[i])}

\* A hit changes nothing.  After a miss, one statement for each band.
CountMiss ==
    /\ counts = NoCount /\ Request
    /\ \/ statsKey = NoCount /\ UNCHANGED faults
       \/ faults < MaxFaults /\ faults' = faults + 1
    /\ counts' = <<Counted(1)>> /\ moved' = {}
    /\ UNCHANGED <<table, point, walk, statsKey, statsFills>>

CountBand ==
    /\ counts # NoCount /\ Len(counts) < Len(BANDS)
    /\ counts' = Append(counts, Counted(Len(counts) + 1))
    /\ UNCHANGED <<table, point, walk, moved, statsKey, statsFills, requests, faults>>

\* The answer is sent, and a spawned task is to SET the key.
CountDone ==
    /\ Len(counts) = Len(BANDS)
    /\ statsFills' = statsFills \cup {counts}
    /\ counts' = NoCount /\ moved' = {}
    /\ UNCHANGED <<table, point, walk, statsKey, requests, faults>>

StatsFill(c) ==
    /\ c \in statsFills
    /\ statsFills' = statsFills \ {c}
    /\ \/ statsKey' = c /\ UNCHANGED faults
       \/ faults < MaxFaults /\ faults' = faults + 1 /\ UNCHANGED statsKey
    /\ UNCHANGED <<table, point, walk, counts, moved, requests>>

\* stats_cache_ttl_secs have passed; nothing else removes the key.
StatsExpire ==
    /\ statsKey # NoCount
    /\ statsKey' = NoCount
    /\ UNCHANGED <<table, point, walk, counts, moved, statsFills, requests, faults>>

-----------------------------------------------------------------------------

Reads ==
    \/ NextPage \/ EndWalk \/ CountMiss \/ CountBand \/ CountDone
    \/ \E q \in Query : BeginWalk(q)
    \/ \E i \in Id : Miss(i)

Background ==
    \/ StatsExpire
    \/ \E c \in statsFills : StatsFill(c)
    \/ \E i \in Id : Evict(i) \/ Expire(i) \/ Read(i) \/ \E s \in Solution : Fill(i, s)

Writers == \E i \in Id, s \in Solution : StorageUpserts(i, s) \/ AnalysisInserts(i, s)

Next == Reads \/ Background \/ Writers

(* Spawned tasks and requests run on; keys have a TTL.                     *)
Fairness ==
    /\ \A i \in Id : /\ WF_vars(Evict(i)) /\ WF_vars(Expire(i)) /\ WF_vars(Read(i))
                     /\ \A s \in Solution : WF_vars(Fill(i, s))
    /\ WF_vars(CountBand) /\ WF_vars(CountDone) /\ WF_vars(StatsExpire)
    /\ WF_vars(\E c \in statsFills : StatsFill(c))

Spec == Init /\ [][Next]_vars /\ Fairness

-----------------------------------------------------------------------------
(* Properties *)

\* A walk returns no event twice, although storage replaces rows under it (an
\* upsert only moves a row forward in time, and the walk goes back), and one
\* that followed every next_cursor has returned each event that matched when it
\* began, unless the row was written in the meantime: insertions shift no page.
WalkIsFaithful ==
    /\ \A i \in Id : returned[i] <= 1
    /\ complete => \A i \in Id \ touched : Matches(query, initial[i]) => returned[i] = 1

\* The five counts of an answer are five statements, each on the table as it is
\* then: an event that nobody writes meanwhile is nevertheless in one of them,
\* and in one only, on the bounds of the bands too.  (Below 0 it is in none.)
CountedOnce ==
    Len(counts) = Len(BANDS) =>
        \A i \in Id \ moved :
            rows[i] # NoRow /\ rows[i].mag \in 0..(Top - 1) =>
                \E b \in DOMAIN counts : \A d \in DOMAIN counts : i \in counts[d] <=> d = b

Stale(i) == cache[i] # NoRow /\ cache[i] # rows[i]

StatsStale == statsKey # NoCount /\ \E b \in DOMAIN statsKey : statsKey[b] # Counted(b)

\* A stale answer does not last: once the writes have ended, the evictions, the
\* late fills and the TTL leave only fresh keys.
FreshInTheEnd == (\A i \in Id : <>[]~Stale(i)) /\ <>[]~StatsStale
=============================================================================
