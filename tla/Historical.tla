----------------------------- MODULE Historical -----------------------------
(***************************************************************************)
(* The historical ingestion job (services/historical_ingestion): a one-    *)
(* shot process that downloads USGS ComCat in pages and then AFAD in time  *)
(* windows.  Each page is upserted in one transaction with the checkpoint  *)
(* of its source, from which the next run of the job resumes.              *)
(*                                                                         *)
(* Time is counted in ticks, Tick of them to the second: the APIs take     *)
(* whole seconds, the events have fractions.  The counter events_ingested  *)
(* of the checkpoint row is left out: nothing reads it.                    *)
(***************************************************************************)
EXTENDS Integers, FiniteSets

CONSTANTS
    Event, SourceOf,
    Catalogs,            \* the catalogues considered: the time of each event
    Malformations,       \* sets of events whose records the source's parser rejects
    Tick,                \* ticks per second
    PageLimit,           \* _PAGE_LIMIT of a ComCat query
    Width,               \* _WINDOW_DAYS of an AFAD query
    StartTime, EndTime,
    MaxRuns              \* bound: runs of the job

Source == {"USGS", "AFAD"}

ASSUME HistoricalAssumption ==
    /\ IsFiniteSet(Event)
    /\ SourceOf \in [Event -> Source] /\ Catalogs \subseteq [Event -> Nat] /\ Malformations \subseteq SUBSET Event
    /\ Tick \in Nat \ {0} /\ PageLimit \in Nat \ {0} /\ Width \in Nat \ {0}
    /\ StartTime \in Nat /\ EndTime \in Nat /\ MaxRuns \in Nat
    /\ StartTime % Tick = 0 /\ \E w \in 1..Width : Width = w * Tick

VARIABLES
    time, malformed,   \* the catalogue: it does not change while the job runs
    pc,          \* "idle" before the first run, then where the job is
    source,      \* the source being ingested
    cursor,      \* start of the next query
    page,        \* the events of the last answer
    stored,      \* historical_events
    checkpoint,  \* last_event_time of each source's job, or None
    runs

catalogue == <<time, malformed>>
vars == <<catalogue, pc, source, cursor, page, stored, checkpoint, runs>>

None == -1

TypeOK ==
    /\ time \in Catalogs /\ malformed \in Malformations
    /\ pc \in {"idle", "fetch", "upsert", "done", "failed"}
    /\ source \in Source
    /\ cursor \in Nat
    /\ page \subseteq Event \ malformed /\ \A e \in page : SourceOf[e] = source
    /\ page # {} <=> pc = "upsert"
    /\ stored \subseteq Event \ malformed
    /\ checkpoint \in [Source -> Nat \cup {None}]
    /\ runs \in Nat

Init ==
    /\ time \in Catalogs /\ malformed \in Malformations
    /\ pc = "idle" /\ source = "USGS" /\ cursor = StartTime /\ page = {}
    /\ stored = {} /\ checkpoint = [s \in Source |-> None]
    /\ runs = 0

-----------------------------------------------------------------------------
(* Queries *)

\* strftime("%H:%M:%S") drops the fraction of a second.
Second(t) == (t \div Tick) * Tick

\* Events of s in the answer to a query from one time to another.
Between(s, from, to) ==
    {e \in Event : SourceOf[e] = s /\ Second(from) <= time[e] /\ time[e] <= Second(to)}

\* The first PageLimit events, orderby=time-asc; equal times in any order.
Pages(found) ==
    {P \in SUBSET found :
        /\ Cardinality(P) = IF Cardinality(found) < PageLimit THEN Cardinality(found) ELSE PageLimit
        /\ \A e \in P : \A f \in found \ P : time[e] <= time[f]}

\* _parse_afad_event gives None for a record it cannot parse; _parse_feature raises.
AfadEvents(found) == found \ malformed
Parses(P) == P \cap malformed = {}

Latest(P) == CHOOSE t \in {time[e] : e \in P} : \A e \in P : time[e] <= t

WindowEnd == IF cursor + Width < EndTime THEN cursor + Width ELSE EndTime

\* Mutant of Advance: one millisecond, as the documentation has it.
AdvanceTick(P) == Latest(P) + 1

\* The next whole second after the latest event.
Advance(P) == Second(Latest(P)) + Tick

\* Mutant of ResumeAt: the checkpoint is taken for an exclusive bound.
ResumeAfter(s) == IF checkpoint[s] > StartTime THEN Second(checkpoint[s]) + 2 * Tick ELSE StartTime

\* run_source_ingestion starts from the checkpoint when that is later.
ResumeAt(s) == IF checkpoint[s] > StartTime THEN checkpoint[s] ELSE StartTime

-----------------------------------------------------------------------------
(* The job *)

Begin(s) == source' = s /\ cursor' = ResumeAt(s)

Start ==
    /\ pc \in {"idle", "done", "failed"} /\ runs < MaxRuns
    /\ runs' = runs + 1
    /\ pc' = "fetch" /\ page' = {} /\ Begin("USGS")
    /\ UNCHANGED <<catalogue, stored, checkpoint>>

\* The sources are ingested one after the other, then the process exits.
FinishSource ==
    /\ pc = "fetch"
    /\ \/ cursor >= EndTime
       \/ source = "USGS" /\ Between("USGS", cursor, EndTime) = {}
    /\ IF source = "USGS"
         THEN pc' = pc /\ Begin("AFAD")
         ELSE pc' = "done" /\ UNCHANGED <<source, cursor>>
    /\ UNCHANGED <<catalogue, page, stored, checkpoint, runs>>

\* iter_turkey_events: a record that cannot be parsed ends the job,
\* and every later one, which begins at the same page.
FetchPage ==
    /\ pc = "fetch" /\ source = "USGS" /\ cursor < EndTime
    /\ \E P \in Pages(Between("USGS", cursor, EndTime)) :
         /\ P # {}
         /\ IF Parses(P)
              THEN pc' = "upsert" /\ page' = P
              ELSE pc' = "failed" /\ UNCHANGED page
    /\ UNCHANGED <<catalogue, source, cursor, stored, checkpoint, runs>>

\* iter_afad_events: such a record is skipped, and an empty window moves the
\* cursor a second past its end.
FetchWindow ==
    /\ pc = "fetch" /\ source = "AFAD" /\ cursor < EndTime
    /\ LET events == AfadEvents(Between("AFAD", cursor, WindowEnd))
       IN  IF events # {}
             THEN pc' = "upsert" /\ page' = events /\ UNCHANGED cursor
             ELSE cursor' = WindowEnd + Tick /\ UNCHANGED <<pc, page>>
    /\ UNCHANGED <<catalogue, source, stored, checkpoint, runs>>

\* upsert_batch is one transaction; then the generator advances its cursor.
Upsert ==
    /\ pc = "upsert"
    /\ stored' = stored \cup page
    /\ checkpoint' = [checkpoint EXCEPT ![source] = Latest(page)]
    /\ cursor' = Advance(page)
    /\ pc' = "fetch" /\ page' = {}
    /\ UNCHANGED <<catalogue, source, runs>>

\* Mutant of Fail: the checkpoint is written outside the transaction, before it.
FailAfterCheckpoint ==
    /\ pc \in {"fetch", "upsert"}
    /\ checkpoint' = IF pc = "upsert" THEN [checkpoint EXCEPT ![source] = Latest(page)] ELSE checkpoint
    /\ pc' = "failed" /\ page' = {}
    /\ UNCHANGED <<catalogue, source, cursor, stored, runs>>

\* The retries of a request are exhausted, the transaction fails, or the
\* process is killed: the exception is fatal.
Fail ==
    /\ pc \in {"fetch", "upsert"}
    /\ pc' = "failed" /\ page' = {}
    /\ UNCHANGED <<catalogue, source, cursor, stored, checkpoint, runs>>

Job == FinishSource \/ FetchPage \/ FetchWindow \/ Upsert

Next == Start \/ Job \/ Fail

(* Every call of the job has a timeout; nobody has to start it again.      *)
Spec == Init /\ [][Next]_vars /\ WF_vars(Job)

-----------------------------------------------------------------------------
(* Properties *)

\* The events the job is to bring: in the period and accepted by their parser.
\* (The query ends at the whole second of EndTime.)
Wanted == {e \in Event \ malformed : StartTime <= time[e] /\ time[e] < Second(EndTime)}

\* S has a full page that ended within the second of e, at or before it:
\* comcat.py:207 goes on with the next second.
AfterFullPage(e, S) ==
    /\ SourceOf[e] = "USGS"
    /\ \E P \in SUBSET (S \ {e}) :
         /\ Cardinality(P) = PageLimit
         /\ \A f \in P : SourceOf[f] = "USGS" /\ time[f] <= time[e]
         /\ \E f \in P : Second(time[f]) = Second(time[e])

\* A window may have ended at the whole second before e: the last event found was
\* at that second, or there was none in the whole width up to it.  afad.py:287
\* and 295 go on with the next second.
AfterWindow(e, S) ==
    /\ SourceOf[e] = "AFAD" /\ time[e] # Second(time[e])
    /\ \/ \E f \in S : SourceOf[f] = "AFAD" /\ time[f] = Second(time[e])
       \/ \A f \in Event \ malformed :
            SourceOf[f] = "AFAD" => ~(Second(time[e]) - Width <= time[f] /\ time[f] <= Second(time[e]))

\* e is in S, or lies at the seam of two queries.
Covered(e, S) == e \in S \/ AfterFullPage(e, S) \/ AfterWindow(e, S)

\* While a source is fetched, all its events before the cursor are stored but for
\* those at the seam of two queries: no page, window, malformed record, failure
\* or resumption leaves any other gap.
StoredUpToCursor ==
    pc = "fetch" => \A e \in Wanted :
        SourceOf[e] = source /\ time[e] < Second(cursor) => Covered(e, stored)

\* A run that ends well has every event of both sources, but for those.
DoneIsComplete == pc = "done" => \A e \in Wanted : Covered(e, stored)

\* A checkpoint is never ahead of the data: every event before it is stored, but
\* for those, whatever failed when.
CheckpointIsCovered ==
    \A e \in Wanted :
        checkpoint[SourceOf[e]] # None /\ time[e] < Second(checkpoint[SourceOf[e]])
        => Covered(e, stored)

\* comcat.py:180-181: "the next page starts strictly after the last returned
\* event"; afad.py:254-255: "Empty windows advance the cursor by the full window
\* width".  So two queries that follow each other leave no event between them.
NoGap ==
    pc = "fetch" => \A e \in Wanted : SourceOf[e] = source /\ time[e] < Second(cursor) => e \in stored

\* Pagination makes progress: a run ends.
RunEnds == pc = "fetch" ~> pc \in {"done", "failed"}
=============================================================================
