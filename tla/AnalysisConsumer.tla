-------------------------- MODULE AnalysisConsumer --------------------------
(***************************************************************************)
(* The analysis service (services/analysis): one thread takes a message of *)
(* earthquakes.raw at a time, enriches it, publishes it on                 *)
(* earthquakes.enriched and, from a magnitude on, on earthquakes.alerts,   *)
(* writes the enrichment and a ShakeMap to its row of seismic_events, and  *)
(* commits its offset synchronously whatever became of it.                 *)
(*                                                                         *)
(* The environment appends messages, inserts the rows of the storage       *)
(* service, fails calls (counted by faults) and crashes or stops the       *)
(* process (counted by restarts).                                          *)
(***************************************************************************)
EXTENDS Integers, Sequences, FiniteSets

CONSTANTS
    Partition,    \* partitions of earthquakes.raw
    PartitionOf,  \* the partition of a source_id, its message key
    Message,      \* records [id, kind, alert, shakemap]
    MaxLog, MaxRestarts, MaxFaults   \* bounds

Id == DOMAIN PartitionOf

\* alert: the refined magnitude has a level and reaches the threshold;
\* shakemap: it is an event of USGS of magnitude 3.5 or more.
ASSUME AnalysisAssumption ==
    /\ PartitionOf \in [Id -> Partition]
    /\ \A m \in Message : /\ m.id \in Id /\ m.kind \in {"ok", "undecodable", "tombstone"}
                          /\ m.alert \in BOOLEAN /\ m.shakemap \in BOOLEAN
    /\ {MaxLog, MaxRestarts, MaxFaults} \subseteq Nat

VARIABLES
    log,         \* earthquakes.raw
    committed,   \* the group's committed offsets
    position,    \* the next offset the consumer fetches
    pc,          \* where the consume loop is
    cur,         \* <<partition, offset>> of the message in hand, or NoMessage
    stopping,    \* the shutdown event is set
    reason,      \* failure_reason of the dead letter to be sent
    enriched,    \* offsets of the records on earthquakes.enriched, in their order
    alerts,      \* records with an alert on earthquakes.alerts
    dlq,         \* <<record, failure_reason>> on earthquakes.dead-letter
    unanswered,  \* records whose enriched message was still queued when flush() gave up
    lostLetters, \* records whose dead letter was refused or not answered
    inDb,        \* ids with a row in seismic_events
    enrichedBy,  \* the offset of the record the row's enrichment columns are from
    shakemaps,   \* ids whose row has a ShakeMap
    restarts, faults

process == <<position, pc, cur, stopping, reason>>
topics == <<enriched, alerts, dlq, unanswered, lostLetters>>
database == <<inDb, enrichedBy, shakemaps>>
vars == <<log, committed, process, topics, database, restarts, faults>>

NoMessage == <<>>
NoOffset == -1

Reason == {"avro_decode_error", "enriched_produce_error", "unexpected_error"}

Running == pc \notin {"down", "stopped"}

Offsets(p) == 0..(Len(log[p]) - 1)

At(p, o) == log[p][o + 1]

Produced == UNION {{p} \X Offsets(p) : p \in Partition}

OnTopic(p, o) == \E i \in DOMAIN enriched[p] : enriched[p][i] = o

TypeOK ==
    /\ log \in [Partition -> Seq(Message)]
    /\ committed \in [Partition -> Nat] /\ position \in [Partition -> Nat]
    /\ \A p \in Partition : committed[p] <= position[p] /\ position[p] <= Len(log[p])
    /\ pc \in {"down", "stopped", "poll", "decode", "lookup", "produce", "alert", "upsert",
               "shakemap", "cache", "deadletter", "commit"}
    /\ cur \in {NoMessage} \cup Produced
    /\ cur = NoMessage <=> pc \in {"down", "stopped", "poll"}
    /\ stopping \in BOOLEAN
    /\ reason \in Reason
    /\ enriched \in [Partition -> Seq(Nat)]
    /\ {alerts, unanswered, lostLetters} \subseteq SUBSET Produced
    /\ dlq \subseteq Produced \X Reason
    /\ inDb \subseteq Id /\ shakemaps \subseteq inDb
    /\ enrichedBy \in [Id -> Nat \cup {NoOffset}]
    /\ \A i \in Id : enrichedBy[i] # NoOffset => i \in inDb
    /\ restarts \in Nat /\ faults \in Nat

Init ==
    /\ log = [p \in Partition |-> <<>>]
    /\ committed = [p \in Partition |-> 0] /\ position = committed
    /\ pc = "down" /\ cur = NoMessage /\ stopping = FALSE /\ reason = "unexpected_error"
    /\ enriched = [p \in Partition |-> <<>>] /\ alerts = {} /\ dlq = {}
    /\ unanswered = {} /\ lostLetters = {}
    /\ inDb = {} /\ enrichedBy = [i \in Id |-> NoOffset] /\ shakemaps = {}
    /\ restarts = 0 /\ faults = 0

-----------------------------------------------------------------------------
(* The consume loop *)

Start ==
    /\ ~Running
    /\ pc' = "poll" /\ cur' = NoMessage /\ stopping' = FALSE /\ position' = committed
    /\ UNCHANGED <<log, committed, reason, topics, database, restarts, faults>>

Fault == faults < MaxFaults /\ faults' = faults + 1

InHand(p, o) == cur = <<p, o>>

Goto(step) == pc' = step /\ UNCHANGED <<position, cur, stopping, reason>>

\* produce_dead_letter comes next, then the commit.
DeadLetterWith(r) == pc' = "deadletter" /\ reason' = r /\ UNCHANGED <<position, cur, stopping>>

\* Mutant of Poll: a tombstone is passed over, and not committed.
PollSkips(p) ==
    /\ pc = "poll" /\ ~stopping /\ position[p] < Len(log[p])
    /\ position' = [position EXCEPT ![p] = @ + 1]
    /\ IF At(p, position[p]).kind = "tombstone"
         THEN UNCHANGED <<pc, cur>>
         ELSE pc' = "decode" /\ cur' = <<p, position[p]>>
    /\ UNCHANGED <<log, committed, stopping, reason, topics, database, restarts, faults>>

Poll(p) ==
    /\ pc = "poll" /\ ~stopping /\ position[p] < Len(log[p])
    /\ position' = [position EXCEPT ![p] = @ + 1]
    /\ pc' = "decode" /\ cur' = <<p, position[p]>>
    /\ UNCHANGED <<log, committed, stopping, reason, topics, database, restarts, faults>>

\* Mutant of Decode: what cannot be decoded is logged and committed.
DecodeDrops(p, o) ==
    /\ pc = "decode" /\ InHand(p, o)
    /\ Goto(IF At(p, o).kind = "ok" THEN "lookup" ELSE "commit")
    /\ UNCHANGED <<log, committed, topics, database, restarts, faults>>

\* The decoder may have to ask the schema registry.  Of a tombstone the error
\* handler takes the hex dump, and raises.
Decode(p, o) ==
    /\ pc = "decode" /\ InHand(p, o)
    /\ \/ At(p, o).kind = "ok" /\ Goto("lookup") /\ UNCHANGED faults
       \/ At(p, o).kind = "ok" /\ DeadLetterWith("avro_decode_error") /\ Fault
       \/ At(p, o).kind = "undecodable" /\ DeadLetterWith("avro_decode_error") /\ UNCHANGED faults
       \/ At(p, o).kind = "tombstone" /\ DeadLetterWith("unexpected_error") /\ UNCHANGED faults
    /\ UNCHANGED <<log, committed, topics, database, restarts>>

\* A query that fails is caught and means no mainshock; get_conn() stands
\* before the try, and its exception ends process_message.
Lookup(p, o) ==
    /\ pc = "lookup" /\ InHand(p, o)
    /\ \/ Goto("produce") /\ (Fault \/ UNCHANGED faults)
       \/ DeadLetterWith("unexpected_error") /\ Fault
    /\ UNCHANGED <<log, committed, topics, database, restarts>>

OnEnriched(p, o) == enriched' = [enriched EXCEPT ![p] = Append(@, o)]

Produce(p, o) ==
    /\ pc = "produce" /\ InHand(p, o)
    /\ OnEnriched(p, o)
    /\ Goto(IF At(p, o).alert THEN "alert" ELSE "upsert")
    /\ UNCHANGED <<log, committed, alerts, dlq, unanswered, lostLetters, database, restarts, faults>>

\* flush() gives up while the message is queued: no error was reported, and
\* the message is stored later or dropped.
ProduceUnanswered(p, o) ==
    /\ pc = "produce" /\ InHand(p, o) /\ Fault
    /\ OnEnriched(p, o) \/ UNCHANGED enriched
    /\ unanswered' = unanswered \cup {cur}
    /\ Goto(IF At(p, o).alert THEN "alert" ELSE "upsert")
    /\ UNCHANGED <<log, committed, alerts, dlq, lostLetters, database, restarts>>

\* Mutant of ProduceFails: the handler forgets its return.
ProduceFailsOn(p, o) ==
    /\ pc = "produce" /\ InHand(p, o) /\ Fault
    /\ OnEnriched(p, o) \/ UNCHANGED enriched
    /\ Goto(IF At(p, o).alert THEN "alert" ELSE "upsert")
    /\ UNCHANGED <<log, committed, alerts, dlq, unanswered, lostLetters, database, restarts>>

\* The delivery is reported as failed; the broker may have stored it all the same.
ProduceFails(p, o) ==
    /\ pc = "produce" /\ InHand(p, o) /\ Fault
    /\ OnEnriched(p, o) \/ UNCHANGED enriched
    /\ DeadLetterWith("enriched_produce_error")
    /\ UNCHANGED <<log, committed, alerts, dlq, unanswered, lostLetters, database, restarts>>

\* A failed alert is only logged.
Alert(p, o) ==
    /\ pc = "alert" /\ InHand(p, o)
    /\ \/ alerts' = alerts \cup {cur} /\ UNCHANGED faults
       \/ alerts' \in {alerts, alerts \cup {cur}} /\ Fault
    /\ Goto("upsert")
    /\ UNCHANGED <<log, committed, enriched, dlq, unanswered, lostLetters, database, restarts>>

\* INSERT writes all columns, ON CONFLICT the enrichment; a failure is counted.
Upsert(p, o) ==
    /\ pc = "upsert" /\ InHand(p, o)
    /\ \/ /\ inDb' = inDb \cup {At(p, o).id}
          /\ enrichedBy' = [enrichedBy EXCEPT ![At(p, o).id] = o]
          /\ Fault \/ UNCHANGED faults
       \/ Fault /\ UNCHANGED <<inDb, enrichedBy>>
    /\ Goto("shakemap")
    /\ UNCHANGED <<log, committed, topics, shakemaps, restarts>>

\* The UPDATE finds no row if the upsert failed and storage has written none;
\* a fetch that fails is counted, but get_conn() stands before the try here too.
Shakemap(p, o) ==
    /\ pc = "shakemap" /\ InHand(p, o)
    /\ \/ Goto("cache") /\ UNCHANGED <<shakemaps, faults>> /\ ~At(p, o).shakemap
       \/ /\ Goto("cache") /\ At(p, o).shakemap /\ (Fault \/ UNCHANGED faults)
          /\ shakemaps' \in {shakemaps, shakemaps \cup ({At(p, o).id} \cap inDb)}
       \/ DeadLetterWith("unexpected_error") /\ Fault /\ UNCHANGED shakemaps
    /\ UNCHANGED <<log, committed, topics, inDb, enrichedBy, restarts>>

\* The analysis:event key is written and never read.
CacheSet(p, o) ==
    /\ pc = "cache" /\ InHand(p, o)
    /\ Goto("commit")
    /\ UNCHANGED <<log, committed, topics, database, restarts, faults>>

\* Best effort: an error, or no answer within the flush, is not fatal.
DeadLetter(p, o) ==
    /\ pc = "deadletter" /\ InHand(p, o)
    /\ \/ dlq' = dlq \cup {<<cur, reason>>} /\ UNCHANGED <<lostLetters, faults>>
       \/ /\ Fault /\ lostLetters' = lostLetters \cup {cur}
          /\ dlq' \in {dlq, dlq \cup {<<cur, reason>>}}
    /\ Goto("commit")
    /\ UNCHANGED <<log, committed, enriched, alerts, unanswered, database, restarts>>

Commit(p, o) ==
    /\ pc = "commit" /\ InHand(p, o)
    /\ committed' = [committed EXCEPT ![p] = o + 1]
    /\ pc' = "poll" /\ cur' = NoMessage
    /\ UNCHANGED <<log, position, stopping, reason, topics, database, restarts, faults>>

\* Mutant of CommitFails: the exception is swallowed.
CommitFailsQuietly(p, o) ==
    /\ pc = "commit" /\ InHand(p, o) /\ Fault
    /\ pc' = "poll" /\ cur' = NoMessage
    /\ UNCHANGED <<log, committed, position, stopping, reason, topics, database, restarts>>

\* The commit is refused (ShakeMap retries can outlast max.poll.interval.ms and
\* cost the consumer its membership) or not answered: the exception leaves the
\* loop and the process.
CommitFails(p, o) ==
    /\ pc = "commit" /\ InHand(p, o) /\ Fault
    /\ committed' \in {committed, [committed EXCEPT ![p] = o + 1]}
    /\ pc' = "down" /\ cur' = NoMessage
    /\ UNCHANGED <<log, position, stopping, reason, topics, database, restarts>>

\* The event is looked at before every poll(1.0).
Stop ==
    /\ pc = "poll" /\ stopping
    /\ Goto("stopped")
    /\ UNCHANGED <<log, committed, topics, database, restarts, faults>>

-----------------------------------------------------------------------------
(* The environment *)

Publish(m) ==
    /\ Len(log[PartitionOf[m.id]]) < MaxLog
    /\ log' = [log EXCEPT ![PartitionOf[m.id]] = Append(@, m)]
    /\ UNCHANGED <<committed, process, topics, database, restarts, faults>>

StorageInserts(p, o) ==
    /\ At(p, o).kind = "ok"
    /\ inDb' = inDb \cup {At(p, o).id}
    /\ UNCHANGED <<log, committed, process, topics, enrichedBy, shakemaps, restarts, faults>>

Signal ==
    /\ Running /\ ~stopping /\ restarts < MaxRestarts
    /\ stopping' = TRUE /\ restarts' = restarts + 1
    /\ UNCHANGED <<log, committed, position, pc, cur, reason, topics, database, faults>>

\* A kill, or a hard error of poll().
Crash ==
    /\ Running /\ restarts < MaxRestarts
    /\ pc' = "down" /\ cur' = NoMessage /\ restarts' = restarts + 1
    /\ UNCHANGED <<log, committed, position, stopping, reason, topics, database, faults>>

-----------------------------------------------------------------------------

ProcessMessage(p, o) ==
    \/ Decode(p, o) \/ Lookup(p, o) \/ Produce(p, o) \/ ProduceUnanswered(p, o) \/ ProduceFails(p, o)
    \/ Alert(p, o) \/ Upsert(p, o) \/ Shakemap(p, o) \/ CacheSet(p, o)
    \/ DeadLetter(p, o) \/ Commit(p, o) \/ CommitFails(p, o)

Consumer ==
    \/ Start \/ Stop
    \/ \E p \in Partition : Poll(p) \/ \E o \in Offsets(p) : ProcessMessage(p, o)

Environment ==
    \/ Signal \/ Crash
    \/ \E m \in Message : Publish(m)
    \/ \E p \in Partition : \E o \in Offsets(p) : StorageInserts(p, o)

Next == Consumer \/ Environment

(* One thread; every call has a timeout, retries are bounded, and the      *)
(* container is restarted when the process exits.                          *)
Fairness == WF_vars(Consumer)

Spec == Init /\ [][Next]_vars /\ Fairness

-----------------------------------------------------------------------------
(* Properties *)

DeadLettered(r) == \E why \in Reason : <<r, why>> \in dlq

Settled(p, o) == OnTopic(p, o) \/ DeadLettered(<<p, o>>) \/ <<p, o>> \in unanswered \cup lostLetters

ALO == INSTANCE AtLeastOnce WITH
         len <- [p \in Partition |-> Len(log[p])],
         settled <- {r \in Produced : Settled(r[1], r[2])}

\* "Always commit" (main.py:483) is still at-least-once processing: an offset
\* is committed only when its record was enriched or dead-lettered, or when a
\* delivery of it went unanswered.
ImplementsAtLeastOnce == ALO!Spec

\* The records of a partition stay in their order on earthquakes.enriched:
\* since each commit is awaited, a redelivery repeats the last record only, and
\* no client sees an older solution of an event after a newer one.  Nor does the
\* upsert, which overwrites the enrichment columns unconditionally, make them
\* those of an older record.
EnrichedInOrder ==
    /\ [](\A p \in Partition : \A i, j \in DOMAIN enriched[p] :
            i < j => enriched[p][i] <= enriched[p][j])
    /\ [][\A i \in Id : enrichedBy[i] <= enrichedBy'[i]]_vars

\* An alert is raised only for an event that earthquakes.enriched has, unless
\* the delivery was not answered.
AlertIsEnriched == \A r \in alerts : OnTopic(r[1], r[2]) \/ r \in unanswered

\* Every message is dealt with in the end, whatever fails: the bound on the
\* faults is the only patience the loop needs.
EventuallySettled ==
    \A p \in Partition : \A o \in 0..(MaxLog - 1) :
        (o < Len(log[p])) ~> (o < committed[p] /\ Settled(p, o))
=============================================================================
