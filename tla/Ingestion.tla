----------------------------- MODULE Ingestion -----------------------------
(***************************************************************************)
(* The ingestion service (services/ingestion): one poll loop fetches every *)
(* source, drops the events its deduplicator has seen, publishes the rest  *)
(* on earthquakes.raw and only then marks them as seen, first in the       *)
(* process's LRU, then in Redis.                                           *)
(*                                                                         *)
(* The environment offers events for a while (the lookback window), fails  *)
(* and loses Redis keys, fails or half-fails produce requests, and crashes *)
(* or stops the process.  The faults are counted, and the Max* constants   *)
(* bound them.                                                             *)
(***************************************************************************)
EXTENDS Naturals, Sequences, FiniteSets

CONSTANTS
    Event,        \* upstream events, numbered in order of their origin time
    Source,       \* the polled catalogues
    SourceOf,     \* the catalogue an event comes from
    Ascending,    \* catalogues queried with orderby=time-asc (the FDSN nodes)
    FetchLimit,   \* limit=1000 of every query
    Malformed,    \* events whose feature or row the source's parser rejects
    Unreadable,   \* events whose record fails the deserialisation of the answer
    Unencodable,  \* events the Avro encoder rejects
    Significant,  \* events at or above adaptive_magnitude_threshold
    LruCapacity,  \* entries of the in-memory fallback
    MaxAttempts,  \* kafka_max_retries + 1
    MaxRestarts, MaxFaults, MaxRedisFaults   \* bounds of the fault counters

ASSUME IngestionAssumption ==
    /\ Event \subseteq Nat
    /\ SourceOf \in [Event -> Source]
    /\ Ascending \subseteq Source
    /\ Malformed \subseteq Event /\ Unreadable \subseteq Event /\ Unencodable \subseteq Event /\ Significant \subseteq Event
    /\ {FetchLimit, LruCapacity, MaxAttempts} \subseteq Nat \ {0}
    /\ {MaxRestarts, MaxFaults, MaxRedisFaults} \subseteq Nat

VARIABLES
    upstream,     \* an event is "unborn", in the lookback "window", or "gone" from it
    pc,           \* where the poll loop is
    batch,        \* fetched events the cycle has still to process
    current,      \* the event between check and mark, or {}
    attempt,      \* produce attempts made for current
    lru,          \* the fallback, least recently marked first
    conn,         \* a Redis connection was established at startup
    stopping,     \* the shutdown signal was received
    fastPoll,     \* fast_poll_until is set
    redis,        \* the dedup keys Redis holds
    redisUp,
    copies,       \* messages of each event on earthquakes.raw
    dlq,          \* events on earthquakes.dead-letter
    restarts, faults, redisFaults,   \* faults so far
    ambiguous,    \* copies stored by an attempt that was reported as failed
    unmarked,     \* crashes between an acknowledged produce and its mark
    evictions     \* entries the LRU dropped for lack of room

process == <<pc, batch, current, attempt, lru, conn, stopping, fastPoll>>
outside == <<upstream, redis, redisUp, copies, dlq>>
counters == <<restarts, faults, redisFaults, ambiguous, unmarked, evictions>>
vars == <<process, outside, counters>>

Running == pc \notin {"down", "stopped"}

Cached == {lru[i] : i \in DOMAIN lru}

FlagsOK == conn \in BOOLEAN /\ stopping \in BOOLEAN /\ fastPoll \in BOOLEAN /\ redisUp \in BOOLEAN

TypeOK ==
    /\ upstream \in [Event -> {"unborn", "window", "gone"}]
    /\ pc \in {"down", "stopped", "sleep", "fetch", "process", "produce", "mark", "reject"}
    /\ batch \subseteq Event
    /\ current \subseteq Event /\ (current # {} <=> pc \in {"produce", "mark", "reject"})
    /\ attempt \in 0..(MaxAttempts - 1)
    /\ lru \in Seq(Event)
    /\ FlagsOK
    /\ redis \subseteq Event /\ dlq \subseteq Event
    /\ copies \in [Event -> Nat] /\ ambiguous \in [Event -> Nat] /\ unmarked \in [Event -> Nat]
    /\ restarts \in Nat /\ faults \in Nat /\ redisFaults \in Nat /\ evictions \in Nat

Init ==
    /\ upstream = [e \in Event |-> "unborn"]
    /\ pc = "down" /\ batch = {} /\ current = {} /\ attempt = 0
    /\ lru = <<>> /\ conn = FALSE /\ stopping = FALSE /\ fastPoll = FALSE
    /\ redis = {} /\ redisUp \in BOOLEAN
    /\ copies = [e \in Event |-> 0] /\ dlq = {}
    /\ restarts = 0 /\ faults = 0 /\ redisFaults = IF redisUp THEN 0 ELSE 1
    /\ ambiguous = [e \in Event |-> 0] /\ unmarked = [e \in Event |-> 0] /\ evictions = 0

-----------------------------------------------------------------------------
(* What a catalogue answers: the events of the window, cut at the limit in *)
(* the order of the query, without those the parser skips.  One record of  *)
(* the wrong JSON type, and the answer is an error, as often as it is      *)
(* retried (sources/mod.rs:28-29 has it that no record aborts the call).   *)

Visible(s) == {e \in Event : SourceOf[e] = s /\ upstream[e] = "window"}

Precedes(s, f, e) == IF s \in Ascending THEN f < e ELSE f > e

Page(s) == {e \in Visible(s) :
              Cardinality({f \in Visible(s) : Precedes(s, f, e)}) < FetchLimit}

Readable(s) == Page(s) \cap Unreadable = {}

Fetch(s) == IF Readable(s) THEN Page(s) \ Malformed ELSE {}

-----------------------------------------------------------------------------
(* The poll loop *)

Start ==
    /\ ~Running
    /\ pc' = "fetch" /\ batch' = {} /\ current' = {} /\ attempt' = 0
    /\ lru' = <<>> /\ conn' = redisUp /\ stopping' = FALSE /\ fastPoll' = FALSE
    /\ UNCHANGED <<outside, counters>>

\* join_all waits for every source; a source that fails after its retries is
\* skipped for this cycle.
FetchAll ==
    /\ pc = "fetch"
    /\ \E failed \in SUBSET Source :
         /\ failed # {} => faults < MaxFaults
         /\ batch' = UNION {Fetch(s) : s \in Source \ failed}
         /\ faults' = IF failed = {} THEN faults ELSE faults + 1
    /\ pc' = "process"
    /\ UNCHANGED <<current, attempt, lru, conn, stopping, fastPoll, outside,
                   restarts, redisFaults, ambiguous, unmarked, evictions>>

\* Mutants of IsDuplicate: the fallback or the durable store is not asked.
IsDuplicateNoLru(e) == conn /\ redisUp /\ e \in redis
IsDuplicateNoRedis(e) == e \in Cached

\* Deduplicator::is_duplicate: an LRU hit decides, else a reachable Redis
\* does, else the event passes.
IsDuplicate(e) == e \in Cached \/ (conn /\ redisUp /\ e \in redis)

SkipDuplicate(e) ==
    /\ pc = "process" /\ e \in batch /\ IsDuplicate(e)
    /\ batch' = batch \ {e}
    /\ UNCHANGED <<pc, current, attempt, lru, conn, stopping, fastPoll, outside, counters>>

Admit(e) ==
    /\ pc = "process" /\ e \in batch /\ ~IsDuplicate(e)
    /\ batch' = batch \ {e} /\ current' = {e} /\ attempt' = 0
    /\ pc' = IF e \in Unencodable THEN "reject" ELSE "produce"
    /\ UNCHANGED <<lru, conn, stopping, fastPoll, outside, counters>>

\* EventProducer::send, one attempt at a time.
ProduceAcked(e) ==
    /\ pc = "produce" /\ current = {e}
    /\ copies' = [copies EXCEPT ![e] = @ + 1]
    /\ pc' = "mark"
    /\ UNCHANGED <<batch, current, attempt, lru, conn, stopping, fastPoll,
                   upstream, redis, redisUp, dlq, counters>>

\* Mutant of ProduceFailed: one attempt too many is made.
ProduceFailedOffByOne(e) ==
    /\ pc = "produce" /\ current = {e} /\ faults < MaxFaults
    /\ faults' = faults + 1
    /\ IF attempt + 1 <= MaxAttempts
         THEN attempt' = attempt + 1 /\ pc' = pc
         ELSE attempt' = 0 /\ pc' = "reject"
    /\ UNCHANGED <<batch, current, lru, conn, stopping, fastPoll, outside,
                   restarts, redisFaults, ambiguous, unmarked, evictions>>

\* The attempt is reported as failed; the broker may have stored it all the
\* same (the delivery timed out while the acknowledgement was on its way).
ProduceFailed(e) ==
    /\ pc = "produce" /\ current = {e} /\ faults < MaxFaults
    /\ \E stored \in {0, 1} :
         /\ copies' = [copies EXCEPT ![e] = @ + stored]
         /\ ambiguous' = [ambiguous EXCEPT ![e] = @ + stored]
    /\ faults' = faults + 1
    /\ IF attempt + 1 < MaxAttempts
         THEN attempt' = attempt + 1 /\ pc' = pc
         ELSE attempt' = 0 /\ pc' = "reject"
    /\ UNCHANGED <<batch, current, lru, conn, stopping, fastPoll,
                   upstream, redis, redisUp, dlq, restarts, redisFaults, unmarked, evictions>>

\* Deduplicator::mark_seen, and the adaptive window of a significant event.
\* current is not in the LRU (IsDuplicate was false), so put appends it and
\* drops the oldest entry of a full cache.
MarkSeen(e) ==
    /\ pc = "mark" /\ current = {e}
    /\ IF Len(lru) < LruCapacity
         THEN lru' = Append(lru, e) /\ UNCHANGED evictions
         ELSE lru' = Append(Tail(lru), e) /\ evictions' = evictions + 1
    /\ redis' = IF conn /\ redisUp THEN redis \cup {e} ELSE redis
    /\ fastPoll' = (fastPoll \/ e \in Significant)
    /\ pc' = "process" /\ current' = {} /\ attempt' = 0
    /\ UNCHANGED <<batch, conn, stopping, upstream, redisUp, copies, dlq,
                   restarts, faults, redisFaults, ambiguous, unmarked>>

\* Mutant of Reject: a rejected event is marked, so that it is not rejected
\* again by every poll.
RejectAndMark(e) ==
    /\ pc = "reject" /\ current = {e}
    /\ dlq' = dlq \cup {e}
    /\ redis' = IF conn /\ redisUp THEN redis \cup {e} ELSE redis
    /\ pc' = "process" /\ current' = {}
    /\ UNCHANGED <<batch, attempt, lru, conn, stopping, fastPoll, upstream, redisUp, copies, counters>>

\* Dead-letter delivery is best effort; its failure is only logged.
Reject(e) ==
    /\ pc = "reject" /\ current = {e}
    /\ \/ dlq' = dlq \cup {e} /\ UNCHANGED faults
       \/ faults < MaxFaults /\ faults' = faults + 1 /\ UNCHANGED dlq
    /\ pc' = "process" /\ current' = {}
    /\ UNCHANGED <<batch, attempt, lru, conn, stopping, fastPoll, upstream, redis, redisUp, copies,
                   restarts, redisFaults, ambiguous, unmarked, evictions>>

\* The adaptive deadline may have passed by now.
EndCycle ==
    /\ pc = "process" /\ batch = {}
    /\ pc' = "sleep"
    /\ fastPoll' \in {FALSE, fastPoll}
    /\ UNCHANGED <<batch, current, attempt, lru, conn, stopping, outside, counters>>

\* The sleep ends with the interval, or at once on a shutdown signal.
Wake ==
    /\ pc = "sleep"
    /\ pc' = IF stopping THEN "stopped" ELSE "fetch"
    /\ UNCHANGED <<batch, current, attempt, lru, conn, stopping, fastPoll, outside, counters>>

-----------------------------------------------------------------------------
(* The environment *)

Shutdown ==
    /\ Running /\ ~stopping /\ restarts < MaxRestarts
    /\ stopping' = TRUE /\ restarts' = restarts + 1
    /\ UNCHANGED <<pc, batch, current, attempt, lru, conn, fastPoll, outside,
                   faults, redisFaults, ambiguous, unmarked, evictions>>

Crash ==
    /\ Running /\ restarts < MaxRestarts
    /\ pc' = "down" /\ batch' = {} /\ current' = {} /\ attempt' = 0
    /\ restarts' = restarts + 1
    /\ unmarked' = IF pc = "mark"
                     THEN [e \in Event |-> unmarked[e] + IF e \in current THEN 1 ELSE 0]
                     ELSE unmarked
    /\ UNCHANGED <<lru, conn, stopping, fastPoll, outside, faults, redisFaults, ambiguous, evictions>>

Appear(e) ==
    /\ upstream[e] = "unborn"
    /\ upstream' = [upstream EXCEPT ![e] = "window"]
    /\ UNCHANGED <<process, redis, redisUp, copies, dlq, counters>>

LeaveWindow(e) ==
    /\ upstream[e] = "window"
    /\ upstream' = [upstream EXCEPT ![e] = "gone"]
    /\ UNCHANGED <<process, redis, redisUp, copies, dlq, counters>>

RedisFails ==
    /\ redisUp /\ redisFaults < MaxRedisFaults
    /\ redisUp' = FALSE /\ redisFaults' = redisFaults + 1
    /\ UNCHANGED <<process, upstream, redis, copies, dlq,
                   restarts, faults, ambiguous, unmarked, evictions>>

RedisRecovers ==
    /\ ~redisUp
    /\ redisUp' = TRUE
    /\ UNCHANGED <<process, upstream, redis, copies, dlq, counters>>

\* A key expires with its TTL, or is evicted: maxmemory-policy is allkeys-lru.
LoseKey(e) ==
    /\ e \in redis /\ redisFaults < MaxRedisFaults
    /\ redis' = redis \ {e} /\ redisFaults' = redisFaults + 1
    /\ UNCHANGED <<process, upstream, redisUp, copies, dlq,
                   restarts, faults, ambiguous, unmarked, evictions>>

-----------------------------------------------------------------------------

PollLoop ==
    \/ Start \/ FetchAll \/ EndCycle \/ Wake
    \/ \E e \in Event : \/ SkipDuplicate(e) \/ Admit(e) \/ ProduceAcked(e)
                        \/ ProduceFailed(e) \/ MarkSeen(e) \/ Reject(e)

Environment ==
    \/ Shutdown \/ Crash \/ RedisFails \/ RedisRecovers
    \/ \E e \in Event : Appear(e) \/ LeaveWindow(e) \/ LoseKey(e)

Next == PollLoop \/ Environment

(* The loop is one task that never waits forever: every call in it has a   *)
(* timeout, and the container runtime restarts it.                         *)
Fairness == WF_vars(PollLoop)

Spec == Init /\ [][Next]_vars /\ Fairness

-----------------------------------------------------------------------------
(* Properties *)

\* An event the deduplicator knows, in the LRU or in Redis, is on the topic:
\* a produce that failed never suppresses the event (dedup.rs protocol).
SeenIsPublished == \A e \in Cached \cup redis : copies[e] > 0

\* Whatever Redis does, an event is published again only because an attempt
\* reported as failed had been stored, the process restarted and lost its LRU,
\* or the LRU overflowed: polling the same window again is not a cause.
DuplicatesArePaidFor ==
    \A e \in Event : copies[e] <= 1 + ambiguous[e] + restarts + evictions

\* While Redis works, restarts and a full LRU cause no duplicate at all: only a
\* crash between the acknowledgement and the mark does, or a stored failure.
HealthyRedisDeduplicates ==
    redisFaults = 0 => \A e \in Event : copies[e] <= 1 + ambiguous[e] + unmarked[e]

\* An event that can be parsed and encoded is published, unless it leaves the
\* lookback window, is cut off at the limit or comes with an unreadable record
\* first: no dedup state, rejection or restart suppresses it.
EventuallyPublished ==
    \A e \in Event \ (Malformed \cup Unencodable) :
        (upstream[e] = "window")
          ~> \/ copies[e] > 0
             \/ upstream[e] = "gone" \/ e \notin Page(SourceOf[e]) \/ ~Readable(SourceOf[e])
=============================================================================
