-------------------------- MODULE StorageConsumer --------------------------
(***************************************************************************)
(* The storage service (services/storage): a consumer of earthquakes.raw   *)
(* that validates each message, drops it when another network's row        *)
(* already covers the earthquake, upserts the rest in seismic_events,      *)
(* dead-letters what fails, and commits offsets itself, asynchronously.    *)
(*                                                                         *)
(* The environment appends messages, crashes or stops the process, fails   *)
(* calls (counted by faults), executes spawned cache evictions, and lets   *)
(* the analysis service insert rows of its own.                            *)
(***************************************************************************)
EXTENDS Integers, Sequences, FiniteSets

CONSTANTS
    Partition,    \* partitions of earthquakes.raw
    PartitionOf,  \* the partition of a source_id, its message key
    Network,
    NetworkOf,    \* the source_network of a source_id
    Message,      \* records [id, time, rank, place, kind]
    Close,        \* pairs of places within 55 km of each other
    Window,       \* 30 s
    NoRow,
    AnalysisWrites,         \* messages the analysis service may insert as rows
    MaxLog, MaxRestarts, MaxFaults   \* bounds

Id == DOMAIN NetworkOf

ASSUME StorageAssumption ==
    /\ NetworkOf \in [Id -> Network] /\ PartitionOf \in [Id -> Partition]
    /\ \A m \in Message : /\ m.id \in Id /\ m.time \in Int /\ m.rank \in 1..4
                          /\ m.kind \in {"ok", "undecodable", "invalid", "tombstone"}
    /\ AnalysisWrites \subseteq Message
    /\ Window \in Nat /\ NoRow \notin Message
    /\ {MaxLog, MaxRestarts, MaxFaults} \subseteq Nat

VARIABLES
    log,        \* earthquakes.raw
    committed,  \* the group's committed offsets at the broker
    pending,    \* the offset of the last commit request, committed if none is in flight
    position,   \* the next offset the consumer fetches
    pc,         \* where the consume loop is
    cur,        \* <<partition, offset>> of the message in hand, or NoMessage
    conn,       \* the Redis connection made at startup
    stopping,   \* the shutdown signal was received
    rows,       \* seismic_events
    evicting,   \* ids whose api:event key a spawned task has still to DEL
    dlq,        \* messages on earthquakes.dead-letter
    skipped,    \* messages dropped as cross-source duplicates
    unrouted,   \* messages that failed and whose dead-letter delivery failed too
    restarts, faults

kafka == <<log, committed, pending>>
process == <<position, pc, cur, conn, stopping>>
store == <<rows, evicting>>
outcome == <<dlq, skipped, unrouted>>
vars == <<kafka, process, store, outcome, restarts, faults>>

NoMessage == <<>>

Running == pc \notin {"down", "stopped"}

Offsets(p) == 0..(Len(log[p]) - 1)

At(p, o) == log[p][o + 1]

Produced == UNION {{p} \X Offsets(p) : p \in Partition}

FlagsOK == conn \in BOOLEAN /\ stopping \in BOOLEAN

TypeOK ==
    /\ log \in [Partition -> Seq(Message)]
    /\ committed \in [Partition -> Nat] /\ pending \in [Partition -> Nat]
    /\ position \in [Partition -> Nat]
    /\ \A p \in Partition : {committed[p], pending[p], position[p]} \subseteq 0..Len(log[p])
    /\ pc \in {"down", "stopped", "recv", "check", "upsert", "deadletter"}
    /\ cur \in {NoMessage} \cup Produced
    /\ cur = NoMessage <=> pc \in {"down", "stopped", "recv"}
    /\ FlagsOK
    /\ rows \in [Id -> Message \cup {NoRow}]
    /\ evicting \subseteq Id
    /\ dlq \subseteq Produced /\ skipped \subseteq Produced /\ unrouted \subseteq Produced
    /\ restarts \in Nat /\ faults \in Nat

Init ==
    /\ log = [p \in Partition |-> <<>>]
    /\ committed = [p \in Partition |-> 0] /\ pending = committed /\ position = committed
    /\ pc = "down" /\ cur = NoMessage /\ conn = FALSE /\ stopping = FALSE
    /\ rows = [i \in Id |-> NoRow] /\ evicting = {}
    /\ dlq = {} /\ skipped = {} /\ unrouted = {}
    /\ restarts = 0 /\ faults = 0

-----------------------------------------------------------------------------
(* Decoding, validation and the database *)

\* AvroDecoder::decode finds the wire format, the schema's fields and types.
Decodable(m) == m.kind # "undecodable"

\* RawFields::validate accepts what the CHECKs of the table do.
Valid(m) == Decodable(m) /\ m.kind # "invalid"

Stored == {i \in Id : rows[i] # NoRow}

Near(m, r) ==
    /\ m.time - r.time <= Window /\ r.time - m.time <= Window
    /\ <<m.place, r.place>> \in Close

\* Mutant of Matches: rows of the message's own network match too.
MatchesOwnNetwork(m) == {rows[i] : i \in {j \in Stored : Near(m, rows[j])}}

\* The rows find_cross_source_match chooses from: LIMIT 1 without an ORDER BY.
Matches(m) ==
    {rows[i] : i \in {j \in Stored : NetworkOf[j] # NetworkOf[m.id] /\ Near(m, rows[j])}}

\* Mutant of Written: the DO UPDATE has no WHERE.
WrittenAlways(m) == [rows EXCEPT ![m.id] = m]

\* The upsert: an existing row is replaced only by a later event_time.
Written(m) ==
    IF rows[m.id] = NoRow \/ m.time > rows[m.id].time
      THEN [rows EXCEPT ![m.id] = m]
      ELSE rows

-----------------------------------------------------------------------------
(* The consume loop *)

\* Mutant of Start: the consumer begins at the end of the log.
StartLatest ==
    /\ ~Running
    /\ pc' = "recv" /\ cur' = NoMessage /\ stopping' = FALSE
    /\ conn' \in BOOLEAN
    /\ position' = [p \in Partition |-> Len(log[p])]
    /\ UNCHANGED <<kafka, store, outcome, restarts, faults>>

\* Redis is optional; without it the process evicts nothing until its end.
Start ==
    /\ ~Running
    /\ pc' = "recv" /\ cur' = NoMessage /\ stopping' = FALSE
    /\ conn' \in BOOLEAN
    /\ position' = committed
    /\ UNCHANGED <<kafka, store, outcome, restarts, faults>>

\* commit_message(Async): the offset after the message is on its way.
CommitRequest(p, o) == pending' = [pending EXCEPT ![p] = o + 1]

Done == pc' = "recv" /\ cur' = NoMessage

Recv(p) ==
    /\ pc = "recv" /\ ~stopping /\ position[p] < Len(log[p])
    /\ position' = [position EXCEPT ![p] = @ + 1]
    /\ IF At(p, position[p]).kind = "tombstone"
         THEN CommitRequest(p, position[p]) /\ UNCHANGED <<pc, cur>>
         ELSE pc' = "check" /\ cur' = <<p, position[p]>> /\ UNCHANGED pending
    /\ UNCHANGED <<log, committed, conn, stopping, store, outcome, restarts, faults>>

InHand(p, o) == cur = <<p, o>>

\* A match of equal or better quality: the message is dropped.
Skip(p, o) ==
    /\ pc = "check" /\ InHand(p, o) /\ Valid(At(p, o))
    /\ \E r \in Matches(At(p, o)) : At(p, o).rank <= r.rank
    /\ skipped' = skipped \cup {cur}
    /\ CommitRequest(p, o) /\ Done
    /\ UNCHANGED <<log, committed, position, conn, stopping, store, dlq, unrouted, restarts, faults>>

\* No match, or one of lower quality: the message goes on to the upsert.
Pass(p, o) ==
    /\ pc = "check" /\ InHand(p, o) /\ Valid(At(p, o))
    /\ \/ Matches(At(p, o)) = {}
       \/ \E r \in Matches(At(p, o)) : r.rank < At(p, o).rank
    /\ pc' = "upsert"
    /\ UNCHANGED <<kafka, position, cur, conn, stopping, store, outcome, restarts, faults>>

\* Decoding or validation fails for good; the schema registry and the
\* database may fail for a moment.  Both go to the dead-letter topic.
CheckFails(p, o) ==
    /\ pc = "check" /\ InHand(p, o)
    /\ \/ ~Decodable(At(p, o)) /\ UNCHANGED faults
       \/ ~Valid(At(p, o)) /\ UNCHANGED faults
       \/ faults < MaxFaults /\ faults' = faults + 1
    /\ pc' = "deadletter"
    /\ UNCHANGED <<kafka, position, cur, conn, stopping, store, outcome, restarts>>

\* The eviction is spawned whether or not the upsert changed a row.
Upsert(p, o) ==
    /\ pc = "upsert" /\ InHand(p, o)
    /\ rows' = Written(At(p, o))
    /\ evicting' = IF conn THEN evicting \cup {At(p, o).id} ELSE evicting
    /\ CommitRequest(p, o) /\ Done
    /\ UNCHANGED <<log, committed, position, conn, stopping, outcome, restarts, faults>>

\* The statement fails, possibly after the database has executed it.
UpsertFails(p, o) ==
    /\ pc = "upsert" /\ InHand(p, o) /\ faults < MaxFaults
    /\ faults' = faults + 1
    /\ rows' \in {rows, Written(At(p, o))}
    /\ pc' = "deadletter"
    /\ UNCHANGED <<kafka, position, cur, conn, stopping, evicting, outcome, restarts>>

\* Mutant of DeadLetter: the offset is committed without waiting for delivery.
DeadLetterUnawaited(p, o) ==
    /\ pc = "deadletter" /\ InHand(p, o)
    /\ CommitRequest(p, o) /\ Done
    /\ UNCHANGED <<log, committed, position, conn, stopping, store, outcome, restarts, faults>>

DeadLetter(p, o) ==
    /\ pc = "deadletter" /\ InHand(p, o)
    /\ dlq' = dlq \cup {cur}
    /\ CommitRequest(p, o) /\ Done
    /\ UNCHANGED <<log, committed, position, conn, stopping, store, skipped, unrouted, restarts, faults>>

\* The retries are exhausted: the offset is left uncommitted and the loop goes on.
DeadLetterFails(p, o) ==
    /\ pc = "deadletter" /\ InHand(p, o) /\ faults < MaxFaults
    /\ faults' = faults + 1
    /\ unrouted' = unrouted \cup {cur}
    /\ Done
    /\ UNCHANGED <<kafka, position, conn, stopping, store, dlq, skipped, restarts>>

\* The shutdown branch of the select is the first; requests in flight are lost.
Stop ==
    /\ pc = "recv" /\ stopping
    /\ pc' = "stopped" /\ pending' = committed
    /\ UNCHANGED <<log, committed, position, cur, conn, stopping, store, outcome, restarts, faults>>

-----------------------------------------------------------------------------
(* The environment *)

Publish(m) ==
    /\ Len(log[PartitionOf[m.id]]) < MaxLog
    /\ log' = [log EXCEPT ![PartitionOf[m.id]] = Append(@, m)]
    /\ UNCHANGED <<committed, pending, process, store, outcome, restarts, faults>>

CommitLands(p) ==
    /\ pending[p] # committed[p]
    /\ committed' = [committed EXCEPT ![p] = pending[p]]
    /\ UNCHANGED <<log, pending, process, store, outcome, restarts, faults>>

Evict(i) ==
    /\ i \in evicting
    /\ evicting' = evicting \ {i}
    /\ UNCHANGED <<kafka, process, rows, outcome, restarts, faults>>

\* The analysis service inserts a row without a cross-source check, and leaves
\* the columns of an existing one alone.
AnalysisInserts(m) ==
    /\ m \in AnalysisWrites /\ rows[m.id] = NoRow
    /\ \E p \in Partition : \E o \in Offsets(p) : At(p, o) = m
    /\ rows' = [rows EXCEPT ![m.id] = m]
    /\ UNCHANGED <<kafka, process, evicting, outcome, restarts, faults>>

Signal ==
    /\ Running /\ ~stopping /\ restarts < MaxRestarts
    /\ stopping' = TRUE /\ restarts' = restarts + 1
    /\ UNCHANGED <<kafka, position, pc, cur, conn, store, outcome, faults>>

Crash ==
    /\ Running /\ restarts < MaxRestarts
    /\ pc' = "down" /\ cur' = NoMessage /\ restarts' = restarts + 1
    /\ pending' = committed /\ evicting' = {}
    /\ UNCHANGED <<log, committed, position, conn, stopping, rows, outcome, faults>>

-----------------------------------------------------------------------------

Process(p, o) ==
    \/ Skip(p, o) \/ Pass(p, o) \/ CheckFails(p, o)
    \/ Upsert(p, o) \/ UpsertFails(p, o) \/ DeadLetter(p, o) \/ DeadLetterFails(p, o)

Consumer ==
    \/ Start \/ Stop
    \/ \E p \in Partition : Recv(p) \/ \E o \in Offsets(p) : Process(p, o)

Environment ==
    \/ Signal \/ Crash
    \/ \E m \in Message : Publish(m) \/ AnalysisInserts(m)
    \/ \E p \in Partition : CommitLands(p)
    \/ \E i \in Id : Evict(i)

Next == Consumer \/ Environment

(* One task runs the loop; each call in it has a timeout, and the container *)
(* is restarted when it exits.                                              *)
Fairness == WF_vars(Consumer)

Spec == Init /\ [][Next]_vars /\ Fairness

-----------------------------------------------------------------------------
(* Properties *)

\* What became of a message: its row is at least as recent, or it was dropped
\* as a duplicate, or dead-lettered, or it was a tombstone.
Handled(p, o) ==
    \/ At(p, o).kind = "tombstone"
    \/ rows[At(p, o).id] # NoRow /\ rows[At(p, o).id].time >= At(p, o).time
    \/ <<p, o>> \in dlq \cup skipped

Settled(p, o) == Handled(p, o) \/ <<p, o>> \in unrouted

\* The commit protocol of main.rs: over crashes, lost commits and redelivery
\* no committed offset covers a message that vanished, except the one whose
\* dead-letter delivery failed.
CommittedIsSettled ==
    \A p \in Partition : \A o \in Offsets(p) : o < committed[p] => Settled(p, o)

ALO == INSTANCE AtLeastOnce WITH
         len <- [p \in Partition |-> Len(log[p])],
         settled <- {r \in Produced : Settled(r[1], r[2])}

\* The service is an at-least-once consumer in the sense of ADR-0001, if a
\* message whose dead-letter delivery failed counts as settled: what is
\* settled stays so, and offsets move forward over settled messages only.
ImplementsAtLeastOnce == ALO!Spec

\* main.rs:252-254: a message whose dead-letter delivery failed is redelivered
\* after a restart.  Its offset is then never covered by a commit, unless it
\* was handled after all.
UnroutedIsRedelivered ==
    \A p \in Partition : \A o \in Offsets(p) :
        <<p, o>> \in unrouted /\ ~Handled(p, o) => o >= committed[p]

\* db.rs: the upsert is idempotent and monotonic, whatever is redelivered in
\* whatever order: a row is replaced only by a later event_time.
RowsOnlyAdvance ==
    [][\A i \in Id : rows[i] # NoRow =>
         /\ rows'[i] # NoRow
         /\ rows'[i] # rows[i] => rows'[i].time > rows[i].time]_vars

\* A message dropped as a duplicate leaves the earthquake on record: another
\* network has a row that is not older than the match was.
SkippedIsOnRecord ==
    \A r \in skipped :
        LET m == At(r[1], r[2])
        IN  \E i \in Stored : /\ NetworkOf[i] # NetworkOf[m.id]
                              /\ rows[i].time >= m.time - Window

\* Every message is handled in the end, unless its dead-letter delivery fails:
\* no poison message or restart blocks a partition.
EventuallySettled ==
    \A p \in Partition : \A o \in 0..(MaxLog - 1) :
        (o < Len(log[p])) ~> (o < Len(log[p]) /\ Settled(p, o))
=============================================================================
