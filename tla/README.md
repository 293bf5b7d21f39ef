# Seismosis in TLA+

Seismosis collects earthquakes from public catalogues, stores and enriches them,
and shows them through an API, a websocket and forecasts. Six services share two
Kafka topics and their successors, one PostgreSQL database and one Redis. This
directory has a TLA+ module for each service whose behaviour depends on the
order of things, two that put services together over what they share (the
catalogue's table, the browser's connection), the TLC configurations that check
them on small instances, and TLAPS proofs of the results that hold for every
instance.

Paths below are relative to `src/`.

## 1. The system

```
USGS EMSC FDSN AFAD --poll--> ingestion --earthquakes.raw--> storage ----> seismic_events
                                 |                  \                        |   ^      |
                               Redis                 --> analysis -----------+---+      |
                                                           |                 v          v
                                    earthquakes.enriched / .alerts        forecast     api
                                                           |            (grids, models) (Redis cache)
                                                           v
ComCat, AFAD --batch--> historical import              websocket --> browsers
```

| Component | State | Operations | What is hard | What makes it correct |
|---|---|---|---|---|
| **ingestion** `services/ingestion` (Rust) | the LRU and the Redis keys of events seen, the fast-poll timer | poll all sources, check, encode, produce with retries, mark as seen, dead-letter, back off, shut down | an acknowledgement that is lost, a crash between produce and mark, Redis failing half-way, answers cut at a limit | an event marked as seen is on the topic; a duplicate has a cause; every event in the lookback window is published |
| **storage** `services/storage` (Rust) | consumer position, asynchronous commits; rows of `seismic_events` | decode, validate, match across networks, upsert, evict the API's key, commit, dead-letter | crash between upsert and commit, commits that do not arrive, a failed dead letter, updates out of order | no committed message vanishes; a row only moves to a later solution; a dropped duplicate leaves the earthquake on record |
| **analysis** `services/analysis` (Python) | consumer position; enrichment columns and ShakeMaps of a row | decode, aftershock lookup, convert the magnitude, publish, alert, upsert, fetch a ShakeMap, commit | delivery without an answer, commit whatever happened, failures of every side effect | at-least-once; order of a partition kept; an alert has its event |
| **websocket** `services/websocket` (Rust) | client map, bounded channels, stored and committed offset, shutdown channel | accept, subscribe, fan out, send, drain | clients that come, go or stall during a fan-out; a lost session with live clients; a shutdown with live clients | a client gets what it asked for, in order, but for counted drops, and a record again only after a lost session; nothing is left behind by a shutdown |
| **api** `services/api` (Rust) | the Redis keys of single events and of the statistics | read-through, spawned fill, keyset pages, counts by magnitude band, maps of newest rows | a fill racing an eviction, rows that change under a walk or between two counts | a stale answer does not last; a walk neither repeats nor skips; an event is in one band |
| **forecast** `services/forecast` (Python) | three timers, a fitted model, `model_registry`, result tables | Gutenberg-Richter grid, ETAS, training, registration, labelling | failures between two statements of a registration, a failed fit, rows the classifier raises on, result tables that only grow, read up to a limit | one active version; results stay on the map; events are labelled unless such a row blocks them; no task starves |
| **historical import** `services/historical_ingestion` (Python) | a cursor, a checkpoint per source | pages of ComCat, windows of AFAD, upsert with checkpoint, resume | cursor arithmetic at page and window ends, failures between sources | what lies before the cursor is stored, but at known seams |
| **frontend** `frontend` (TypeScript) | the list of events and the list of alerts of a browser, a connection, a timer | fetch once, receive, fold into the lists, reconnect | a message that overtakes the effect of the one before, an answer that comes after messages, redeliveries | one row for an event; a message that is missing has a reason; the connection comes back |
| **schema, Redis, Compose** `config`, `docker-compose.yml` | constraints, eviction policy, restart policy | - | - | appear as assumptions and environment actions |

Interactions: ingestion -> storage and analysis, analysis -> websocket by Kafka;
storage and analysis write the same rows of `seismic_events`, without
coordination; storage and analysis invalidate keys the API fills; forecast and
API read what the others write. No service calls another.

`PROJECT.json` lists the parts file by file with their status, and under
`hazards` the places of the code a test would hardly reach, with the property
that would notice.

## 2. Modules

| Module | Models | MC module, configuration |
|---|---|---|
| `Ingestion` | `services/ingestion/src/{main,dedup,producer,dead_letter}.rs`, `sources/` as far as limits and failures go | `MCIngestion`, `Ingestion.cfg` |
| `StorageConsumer` | `services/storage/src/{main,db,dead_letter}.rs` | `MCStorageConsumer`, `Storage.cfg`, `StorageRedelivery.cfg` |
| `AnalysisConsumer` | `services/analysis/src/analysis/{main,producer,consumer,db,cache,shakemap}.py` | `MCAnalysisConsumer`, `Analysis.cfg` |
| `Catalogue` | storage and analysis over one log and one table: the two upserts of a row, the cross-source match, `aftershock.py` | `MCCatalogue`, `Catalogue.cfg`, `CatalogueSelf.cfg` |
| `Websocket` | `services/websocket/src/{main,hub,handler}.rs` | `MCWebsocket`, `Websocket.cfg` |
| `LiveClient` | `frontend/src/hooks/useWebSocket.ts`, `components/AppShell.tsx` | `MCLiveClient`, `LiveClient.cfg` |
| `EventApi` | `services/api/src/routes/{events,stats}.rs`, `cache.rs`, queries of `db.rs` | `MCEventApi`, `EventApi.cfg` |
| `Forecast` | `services/forecast/src/forecast/{main,db}.py`, the map queries of the API | `MCForecast`, `Forecast.cfg` |
| `Historical` | `services/historical_ingestion/` | `MCHistorical`, `Historical.cfg`, `HistoricalSplit.cfg` |
| `AtLeastOnce` | abstract: what ADR-0001 asks of a consumer | refined by `StorageConsumer`, `AnalysisConsumer` and `Websocket` |
| `Records` | parsers of ingestion, the Avro record and its decoder, `RawFields::validate`, columns, parsers of the historical import | checked with `Storage.cfg` |
| `Enrichment` | `magnitude.py`, `risk.py` | checked with `Analysis.cfg` |
| `Filters` | `services/websocket/src/filter.rs`, the subscribe message | checked with `Websocket.cfg` |
| `IngestionProofs`, `StorageProofs`, `AnalysisProofs`, `CatalogueProofs`, `WebsocketProofs`, `HistoricalProofs`, `ForecastProofs`, `EventApiProofs` | theorems | - |

Each service module has its state as variables in three groups, the process
(lost by a crash), what outlives it (Kafka, PostgreSQL, Redis), and counters of
faults that exist in the model only; one action per step between two points at
which another actor can act or the process can die; and an environment. A step
that fails is an action or a disjunct of its own.

`Records`, `Enrichment` and `Filters` have no state: they are the functions of
the code over fixed-point numbers. Their properties compare two functions of
the code over all inputs of an instance that lie on both sides of every bound.
TLC evaluates them in the initial states of the run named above.

### Ingestion

`pc` follows `main`: `Start` (Redis is connected to once, at start-up, and a
failure lasts for the life of the process), `FetchAll`, then for each event
`IsDuplicate`, the encoder (`Reject` or `Admit`), up to `MaxAttempts` produce
attempts, `MarkSeen`, and `EndCycle`, `Wake`. An attempt that is reported as
failed may have stored its message (`ambiguous` counts it); `Crash` after an
acknowledgement and before the mark is counted by `unmarked`; an entry that the
LRU drops by `evictions`. So the properties say what a duplicate costs.
`Redis` may fail between two calls and recover, and lose keys
(`allkeys-lru`, TTL). An answer has at most `FetchLimit` records, the newest or,
from FDSN nodes, the oldest of the window; one `Unreadable` record in it fails
it as a whole.

### StorageConsumer

`Recv` takes the next message of a partition; `Skip` and `Pass` are the two
outcomes of the cross-source match; `Upsert` replaces a row only by a later
`event_time`; the eviction is spawned and may run any time later (`Evict`);
`CommitRequest` is asynchronous, the broker applies it later (`CommitLands`) or
never. `DeadLetterFails` leaves the offset uncommitted, and the loop goes on.
After a restart the position is the committed offset. Quality ranks stand in
for the quality indicator, places for coordinates, `Close` for 55 km.

### AnalysisConsumer

The steps of `process_message` in their order: decode, aftershock lookup,
enriched produce, alert, upsert, ShakeMap, cache, commit. A produce is
acknowledged, refused, or unanswered when `flush()` gives up (`unanswered`): the
message is then stored at once or never, since the producer is idempotent and
keeps its order. `get_conn()` outside the guarded blocks raises
(`unexpected_error`). The commit is synchronous; it fails or not
(`CommitFails`), and the loop goes on.

### Catalogue

Every report is valid here; `StorageConsumer` and `AnalysisConsumer` have the
other messages and the failing deliveries. Storage takes a report (`Fetch`),
finds a match (`Skip`) or not (`Pass`), and upserts it as a step of its own,
between which analysis may write the same row. Analysis searches (`Found`:
`ORDER BY magnitude DESC, event_time DESC LIMIT 1`), checks the window of what
it found and publishes (`Enrich`), upserts (`UpsertEnriched`: INSERT writes all
columns, ON CONFLICT those of the enrichment) and commits. `raw` and
`enrichment` are the two halves of a row: a report, and a verdict. The
Gardner-Knopoff radii are parameters (`GKTime`, `GKSpace`), for they are powers
of ten; the instance has values of the formula, rounded. A row's magnitude is
the one of its message: that the column `NUMERIC(4,2)` rounds it to hundredths,
so that the search compares an unrounded number with rounded ones, is left out.

### Websocket

`Receive` takes a snapshot of the matching clients, `TrySend` serves one of them,
so that clients come, leave and change their filter between two sends. A task
is in its handshake, sends its welcome, or is in the select loop (`SeeShutdown`,
`TakeMessage`, `Send`, `Subscribe`). The main task goes `serving` -> `draining`
-> `joined` -> `closed` -> down. A filter is the set of records it matches
(`Filters` has the real one), the two topics are one partition, and the metrics
server is left out.

What the stream yields to a process is numbered (`yielded` has the record of
each delivery), since it may be the same record again: a consumer that loses its
session (`Rejoin`) goes on at the committed offset, up to five seconds old,
while its clients stay connected. `Start` and `Rejoin` share `Assign`, with
`auto.offset.reset = latest` while nothing is committed. `due` is the set of
deliveries whose snapshot had the client as a match, `dropped` those for which
its channel had no room. `ClientGetsItsStream` excuses a record that comes
again, or after a later one, by a rejoin in between that went back behind it
(`Reassigned`), and by nothing else.

What takes the peer's part, the handshake and the sends (`Peer`), is awaited
without a timeout, so that a peer may leave its task there for good
(`Stalled`), and `ShutdownCompletes` excuses exactly that.

### LiveClient

The page sends one request when it is mounted, and opens the connection. A
message becomes `pending` (the state `lastMessage`), an effect folds it into a
list later (`ShowEvent`, `ShowAlert`), and the answer of the request replaces
the list (`Loaded`). `received` is what the browser was given, `excused` what
has a reason not to be shown any more. The service at the other end may send any
message in any order and any number of times, which covers what `Websocket`
does, and its restart cuts the connection (`Cut`).

### EventApi

A GET that misses reads the row (`Read`) and spawns the fill (`Fill`); storage's
upsert spawns the eviction (`Evict`); all are free to run in any order. A walk
follows `next_cursor` over rows ordered by (event_time, source_id), both
descending, while storage replaces rows and analysis inserts some. The
statistics are one statement for each magnitude band (`CountMiss`, `CountBand`),
and a key nobody evicts (`StatsFill`, `StatsExpire`).

### Forecast

One coroutine: which tasks are `due` is decided at the start of a cycle, each
runs to its end, and the time they take passes at their end (`Elapse`).
Training, deactivating the other versions and activating its own are three
steps, each of which may fail or be the last. A fit that raises leaves an
object that is there but not fitted. Results are inserted, never updated, and
the API reads the newest `RowLimit` rows.

An event without a depth (`NoDepth`) raises wherever its row is read: for the
answer with the unclassified events, for that with the mainshocks, for that with
the neighbours of an event. One of magnitude -0.1 (`Undivided`) raises in the
division of its features. Neither goes away, so the newest events without a
label may stay the same (`Blocked`), and `EventuallyClassified` excuses that
only. An event keeps its depth, its magnitude and its place in the order: what a
revision changes in them is left out, in `ResultsStayShown` too. An analysis has
a result for a cell once it has the 30 events it takes.

### Historical

Both generators with their arithmetic in milliseconds and seconds
(`Tick` instants per second), the transaction that stores a page together with
its checkpoint, failures between any two of them, and the next run's
resumption. `malformed` events are those whose record the parser of the source
skips: they are not stored, and they must not disturb the others. The skip flags
are off, the end date is fixed and the catalogue does not change.

Queries follow each other with a seam: a full ComCat page is followed by the
next second (`AfterFullPage`), an AFAD window by the second after its end, or
after its last event (`AfterWindow`; AFAD's times have fractions). `Covered` is
stored, or at such a seam. The properties hold for all catalogues, with that
exception; `NoGap`, which two comments of the code claim (comcat.py:180-181,
afad.py:254-255), has none and is violated.

### Records

A record goes through its parser (`ParseUsgs` and so on), `Encoded`, which wraps
an optional field in the branch of its union, `Decoded`, which takes it out by
name and type, `Validated`, and the columns (`TableAccepts`). The historical
parsers read the same upstream record; Python's dates end at the years 1 and
9999, and the import skips a blank event ID. `PathsAgree` is about the numbers
of a record that both paths take. Which records each takes is not compared.

### Filters

Two parsers: the pairs of a query string (`Listed` splits, trims, upper-cases
and drops empty names), and a subscribe message (`FromSubscribe` upper-cases
only). Names are model values with their case, their trimmed form and their
pieces as functions. The two agree on settings whose names need neither
splitting nor trimming (`PlainName`); for others they differ.

## 3. Runs

All bounds are constants of a configuration or of an MC module. The fault and
restart bounds are guards of the environment's actions, never of the service's.

| Run | States | Question and answer |
|---|---|---|
| `ingestion` | 1.0 M | three events of a source that answers with the oldest one only, the second of which cannot be encoded and is rejected by every poll; an LRU of one entry, two attempts, one restart, two produce faults, one Redis fault. `SeenIsPublished`, `DuplicatesArePaidFor`, `HealthyRedisDeduplicates`, `EventuallyPublished` hold |
| `storage` | 351 k | three messages out of six kinds, two solutions of one event, one of the same earthquake by another network, one restart, one fault; plus the records of `Records`. No committed message vanishes, rows only advance, a dropped duplicate leaves its earthquake on record, the service implements `AtLeastOnce`, every message is settled; what is parsed can be stored, and the two paths agree |
| `storage_redelivery` | violation | main.rs:252-254 says a message whose dead letter failed is redelivered; the next message's commit covers it |
| `analysis` | 135 k | two messages, one restart, two faults: implements `AtLeastOnce`, order kept, alerts have their event, everything is settled; stronger reports do not lower an alert |
| `catalogue` | 2.0 M | two partitions of two messages, two solutions of an event, one of the same earthquake by another network, a large event before them; one restart, one fault. Both ends of a row are consistent when both services have read everything, a mainshock is real, and one that came before is found |
| `catalogue_self` | violation | aftershock.py:4-6 wants the mainshock to be a larger event; the search may return an earlier solution of the event itself, or the same earthquake of another network |
| `websocket` | 3.2 M | two clients that need not answer or read, channels of one message, three records of which the second is unusable, one stop, one lost session, one subscription: streams complete and in order but for counted drops and for what a rejoin brings again, clean join, `AtLeastOnce`; a shutdown ends unless a task waits for its peer for good, every record is fanned out whoever stalls; query string and message agree |
| `live_client` | 781 k | three events, lists of two events and of one alert, four messages, one fault: one row for an event, every message is shown or has a reason not to be, the connection comes back |
| `event_api` | 695 k | two events, three solutions, pages of one, two requests, one Redis fault: walks are faithful, bands count an event once, stale keys do not last |
| `forecast` | 2.5 M | three events, one a run labels, the newest of them without depth, the others mainshocks; maps of three rows, two classifier versions, one restart, one fault: one active version, results stay shown, every event is labelled unless a row that raises stays among the newest, no task starves, the registry recovers |
| `historical` | 1.8 M | five events at any instants of ten, two to a second, equal ones included; none, an AFAD or a ComCat record malformed; pages of one, two runs with failures anywhere: no gap before cursor or checkpoint but at the seams, runs end |
| `historical_split` | violation | two events of one second and a page that ends between them (comcat.py:180-181) |

**Why the instances are enough.** What can go wrong takes two events or messages
(one that is committed after, or cut off by, the other), one of each kind of
fault, and one restart to see its consequence. Limits (`LruCapacity`,
`FetchLimit`, `Capacity`, `PageSize`, `BatchLimit`, `RowLimit`) are set so small
that they are exceeded. In `Ingestion.cfg` `Malformed` and `Unreadable` are
empty: with them the state space outgrows the machine, and a malformed event
never leaves its parser; the proofs cover both for all four safety properties.
`Catalogue.cfg` has one partition where order is promised and another where it
is not, and windows that shrink from 6.4 to 6.5 as those of the formula do.
`ResultsStayShown` binds for the ETAS rows only: with one grid cell TLC cannot
overflow the map of cells; the theorem covers any number of cells.
`Historical.cfg` has the events of a source in order, since they are otherwise
alike. `Forecast.cfg` has no event of magnitude -0.1 (`Undivided`): it would fail
a batch as a model that cannot predict does, and the proofs allow for it.
`EventuallyClassified`, `ShutdownCompletes` and `EventuallyFannedOut` are stated
with `[]<>` only: an event that is stored or classified stays so, a record that
was handled too, and a shutdown is over only when the process has ended, so this
says the same as `~>` for each of them.

**Deadlock** is checked where the service never waits for good (`ingestion`,
`forecast`). The other runs have `CHECK_DEADLOCK FALSE`: a consumer that has read
everything waits, an API without requests does, the import ends, and the bounds
on messages and faults end the environment.

**Fairness.** Ingestion, storage, analysis, import: one weak fairness condition
on the loop. It is one task or thread, every call in it has a timeout or a
bounded number of retries, and the container has `restart: unless-stopped`. No
fairness on faults, crashes, or the environment's progress. Websocket: the
runtime polls every ready task, so each server task has its own condition
(`ServerFairness`); nothing is assumed of the peers, for handler.rs:56-65, 109,
126, 151 and 181 await them without a timeout, nor of the commit timer. API:
spawned tasks run, and keys have a TTL. Forecast: the loop, and time: intervals
pass (`Tick`) and events get old (`LeaveLookback`). LiveClient: the browser runs
its handlers, effects and timers; nothing is assumed of the service. Catalogue
has no liveness property and no fairness.

## 4. Proofs

| Theorem | Says | Argument |
|---|---|---|
| `IngestionProofs!TypeCorrect` | `TypeOK` is invariant | it is inductive |
| `IngestionProofs!SeenIsPublishedCorrect` | an event known to either store is on the topic | `SeenInv` adds: the event that waits for its mark is on the topic |
| `IngestionProofs!DuplicatesArePaidForCorrect` | copies are bounded by their causes | `PaidInv`: an event has one copy more than its causes only while the LRU holds it or it waits for its mark (`Owned`), and the restart that a stop leads to is counted in advance (`Debt`); so a copy is made only with credit left, and every way to lose the credit raises a counter |
| `IngestionProofs!HealthyRedisDeduplicatesCorrect` | while Redis works, restarts and evictions cost nothing | `HealthyInv`: without a Redis fault the process is connected, an event under way is not in Redis, and one that is (or waits for its mark) has one copy more than its causes |
| `StorageProofs!TypeCorrect`, `RowsOnlyAdvanceCorrect` | a row is replaced by a later solution only | the guard of the upsert, from the type invariant |
| `StorageProofs!CommittedIsSettledCorrect` | no committed message vanishes | `CommitInv`: committed, pending and position are ordered, and everything below the position is settled but the message in hand; settled is stable, because rows only advance |
| `StorageProofs!SkippedIsOnRecordCorrect` | a dropped duplicate leaves its earthquake on record | the match was within the window, and its row only advances |
| `StorageProofs!ImplementsAtLeastOnceCorrect` | the service implements `AtLeastOnce` | each step maps to appending, settling, committing, or nothing |
| `AnalysisProofs!TypeCorrect`, `EnrichedInOrderCorrect` | the enriched messages of a partition are in the order of the raw ones | `LoopInv` puts the message in hand at the committed offset of its partition, and `Behind` says that the topic is sorted and nothing on it, nor in a row, is beyond that offset |
| `AnalysisProofs!AlertIsEnrichedCorrect` | an alert has its event | `SettledInv`: from the alert on, the message in hand is on the enriched topic or its delivery had no answer |
| `AnalysisProofs!ImplementsAtLeastOnceCorrect` | the service implements `AtLeastOnce` | the rest of `SettledInv`: everything below the committed offset is settled, and the message in hand is when its commit is next |
| `AnalysisProofs!AlertNeverFallsCorrect`, `AlertsRiseCorrect` | a stronger report never lowers the alert | only Mw is not monotone: at 3.5 there is no alert yet, at 6.0 both sides are ORANGE, or the threshold is in the gap that is excluded |
| `CatalogueProofs!RawOnlyAdvancesCorrect` | the raw columns are those of a report, and move to a later one only | `RawInv`: a row, the report in hand and a verdict are of reports in the log |
| `CatalogueProofs!MainshockIsRealCorrect` | a published mainshock is real | `EnrichedInv`: the check of the window is on the report that was found, and a report, unlike a row, does not change |
| `CatalogueProofs!PredecessorIsFoundCorrect` | the search misses no earlier event of the partition that qualifies | `RowsInv`, `FoundInv`: analysis has committed only what it wrote a row for, so storage's pace does not matter |
| `CatalogueProofs!ConsistentAtTheEndCorrect` | when all is read, a row is as recent as its reports and its enrichment the last message | `StorageInv` (below its position a report is skipped, in hand, or not ahead of its row), `LastInv` (the enrichment is of the last verdict on the event, but for the one in hand), `EndInv` |
| `WebsocketProofs!NoClientAfterJoinCorrect` | the join leaves nobody behind | `HubInv`: a client is registered exactly while its task is alive, and from the join on nobody accepts and every task has ended |
| `WebsocketProofs!ClientGetsItsStreamCorrect` | a client gets the deliveries that matched, each once and in order, but for drops; a record again only over a rejoin | `StreamInv`: sent, in hand and in the channel, one after the other, are rising, and are `due` without `dropped` and without the delivery the fan-out still owes; `OrderInv`: a record that is not beyond an earlier delivery's has a rejoin in between that went back behind it, as has the position |
| `WebsocketProofs!ImplementsAtLeastOnceCorrect` | the fan-out implements `AtLeastOnce` | `OffsetsInv`: committed, stored and position are ordered, and all records up to the position but the one in the fan-out are handled or unusable |
| `HistoricalProofs!StoredUpToCursorCorrect`, `CheckpointIsCoveredCorrect`, `DoneIsCompleteCorrect` | no gap before cursor and checkpoint, none at the end, but at the seams of two queries | `JobInv`: what is wanted before the second of the cursor is covered, and what is from there to the end of the page's last second is on the page, covered, or cut off by it; an empty window was looked through in its whole width, which is whole seconds (`HistoricalAssumption`: it is in days), so that its end is a seam only for what follows a width without events |
| `ForecastProofs!AtMostOneActiveCorrect` | one active version at most | `RegistryInv`: between deactivating and activating no version is active |
| `ForecastProofs!TypeCorrect`, `ResultsStayShownCorrect` | an item that was written stays within the newest rows the map reads, as long as `RowLimit` has room for the runs that were broken off | `ShownInv` bounds the rows ahead of an item's newest one: one for each item the order of a run puts between (`Slack`), and the rows of one run for each restart and fault (`Reach`) |
| `EventApiProofs!TypeCorrect` | types, and a fill under way is of a row that exists and is not older | `FillsInv`: a row only advances, so what was read is never ahead of it |
| `EventApiProofs!WalkIsFaithfulCorrect` | a walk returns nothing twice, and misses nothing that stayed as it was | `WalkInv`: a returned row is not behind the cursor, written or not, because the walk goes back in time and rows go forward (`ReturnedIsPassed`), and an unwritten one that matches is returned or behind it (`RestIsToCome`); ranks in a finite set give a page its last row |
| `EventApiProofs!CountedOnceCorrect` | the bands count an untouched event once | `CountInv`: an unwritten event is in a counted band exactly if its row still is; one interval has its magnitude (`OneBand`) |
| `EventApiProofs!LiveTypeCorrect`, `RowsAreUniqueCorrect` | the page lists an event once, and no more than its limit | `LiveOnce` has it of the list and of an answer under way: taking the old row out keeps the others, each once (`RestIsOthers`), and an answer is a set in its order |
| `EventApiProofs!MissingHasAReasonCorrect` | what the browser was given is shown, or has a reason not to be | with `LiveTyped` (what is pending or excused was received, an alert that is listed too); a list loses an entry only when it is full and the new event is not in it (`ListedKeepsOthers`) |
| `WebsocketProofs!FiltersAgreeCorrect`, `QueryAndMessageAgreeCorrect` | a query string and a subscribe message with the same settings, whose names have no comma, no blank at an end and a character, let the same records pass; with other names the message lets none pass that the query string does not | the loop over the pairs sets a key to its last readable value: the shortest prefix for which it did not would be a counterexample one pair shorter (`LoopReads`); plain names are upper-cased alike by both |
| `StorageProofs!ValidatedFitsTableCorrect` | rounding moves no accepted number out of the table's CHECKs | the bounds are multiples of the rounding step |
| `StorageProofs!ParsedIsStorableCorrect`, `RecordsAreStorableCorrect` | validation refuses a parsed record for a range or a length only | every parser builds its record from checked fields, and decoding undoes encoding |
| `StorageProofs!PathsAgreeCorrect`, `RecordPathsAgreeCorrect` | the live and the historical parsers read the same numbers in a record both take | what ingestion takes has finite numbers, none of which the import replaces |

They hold for all events, sources, messages, clients, limits and fault bounds
that satisfy the modules' assumptions (`IngestionAssumption`,
`StorageAssumption`, `AnalysisAssumption`, `CatalogueAssumption`,
`WebsocketAssumption`, `HistoricalAssumption`, `ForecastAssumption`,
`EventApiAssumption`, `LiveClientAssumption`, `EnrichmentAssumption`,
`RecordsAssumption`, `FiltersAssumption`, `NamesAssumption`); TLC evaluates the
assumptions in the runs. There is no other hypothesis.

`EventApiProofs` extends `LiveClient` as well, whose specification is called
`LiveSpec` and whose names differ from those of `EventApi`: the page is a reader
of this API, and both orders are ranks in a finite set.

The three refinements are of one abstract specification: `AtLeastOnce` says that
a committed offset covers settled records only. What settled means is the
mapping: stored, superseded, dropped as a duplicate or dead-lettered (storage);
published and written, or dead-lettered (analysis); offered to every client of
the snapshot, or unusable (websocket).

Every invariant and every action property of a passing run is a theorem. Only
model-checked are the liveness properties, because fairness is out of the
prover's reach: `EventuallyPublished`, `EventuallySettled` (storage and
analysis), `ShutdownCompletes`, `EventuallyFannedOut`, `RunEnds`, `FreshInTheEnd`,
`EventuallyClassified`, `EveryTaskRuns`, `RegistryRecovers`, `Reconnects`.
Induction over data is, too; the loop of `Filters` is the exception, because the
property of its pairs could be had from a least counterexample.

## 5. What the checks say about the code

Disagreements with a comment, each shown by a run: see the three
violations above. Other remarks met on the way, not stated as properties:

- Ingestion: the window of dedup.rs:47-49 is not the only one, a crash between
  acknowledgement and mark publishes again. FDSN queries ascend in time, so an
  answer at the limit lacks the newest events, while the warning (fdsn.rs:364)
  speaks of older ones. One record with a null depth fails the whole answer of
  USGS or FDSN, although sources/mod.rs:28-29 speaks of individual failures. A
  revised solution is dropped for seven days, by its source_id.
- Storage: db.rs:200-201 has the eviction keep the API from serving a stale row,
  but a fill that was read before the upsert may land after it (events.rs:237);
  the TTL ends it. An earthquake has two rows if the better solution comes
  second (main.rs:320-322). `validate()` does not look at region names over 512
  characters, NUL characters or times before 4713 BC, which the table refuses.
- Analysis: main.py:134-136 says the database is never fatal, but `get_conn()`
  stands outside the guarded blocks (lines 178 and 343), and a failure of it is
  an unexpected error that dead-letters the message. A produce whose flush times
  out counts as acknowledged. ShakeMap retries may take 270 s of the 300 s of
  `max.poll.interval.ms`. A tombstone is dead-lettered. The conversion of Mw
  falls by 0.2 at 3.5 and 0.6 at 6.0; a threshold of 6.01 to 6.66 makes a
  stronger report lose its alert. With a trained model classifier.py would
  decode the alphabetical labels of its encoder in the order of `CLASSES`:
  tectonic and induced swap.
- Catalogue: the search takes the largest candidate and only then looks at its
  window, so a smaller one whose window the event is in is missed;
  completed-phases-summary.md:83 calls it the closest. The window of the search
  is that of the magnitude plus one, which is too small for an aftershock far
  below its mainshock. Gardner-Knopoff windows shrink at M 6.5. A mainshock that
  arrives after its aftershock, or on another partition, does not correct it;
  revisions can make two events each other's mainshock. Storage ignores a
  revision with an earlier origin time, analysis enriches with it, so that a row
  may have the raw columns of one report and the enrichment of another; analysis
  also inserts the row of a report that storage drops as a duplicate. The
  cross-source match has LIMIT 1 and no ORDER BY.
- Websocket: main.rs:485-486 says each task exits promptly, but it waits for its
  peer without a timeout in the handshake (handler.rs:56-65), the welcome and the
  close (109, 126, 151) and a message (181): a stalled peer holds the shutdown up
  until the container is killed. A consumer that loses its session sends its live
  connections records again, as ADR-0001:35 expects. `auto.offset.reset = latest`
  passes over uncommitted records of a first start or a rejoin, against ADR-0001.
  filter.rs:37 calls 0.0 "all events", which
  drops negative magnitudes; an omitted minimum is 0.0 in a message, the
  service's default in a query. A bound out of its domain takes an earlier valid
  one back (filter.rs:12-13 says ignored). Names of networks are split, trimmed
  and dropped if empty in a query string (filter.rs:124-128), but only
  upper-cased in a message (handler.rs:284-289): the name " usgs", or the empty
  one, matches nothing there.
- Frontend: ADR-0001:35 and 42 leaves duplicates to the client and names
  Dashboard.tsx; the page uses AppShell. A redelivered alert is twice in the
  list of alerts, a redelivered or revised event loses the mark of its alert, an
  alert that comes before its event marks nothing. There is no request after a
  reconnect, so what was published in between stays missing. A malformed
  address leaves the status at "error" for good.
- API: stats.rs:17 calls the first band "< 2.0", but a negative magnitude is in
  none. An event that is rewritten between two counts may be in two bands or in
  none.
- Forecast: phase3-spec.md:359 has inference run on every new event. A stored
  event without a depth raises in db.py:38 for the whole answer, so no run that
  has one among its newest 500 unlabelled events labels anything, for good; so
  does magnitude -0.1 for its batch (main.py:525). `last_* = 0.0` is compared with a monotonic clock, so "first run"
  does not hold on a freshly booted host. No forecast is published
  (`publish_etas_forecast` has no caller). A mainshock without depth stops all
  aftershock forecasts for its 30 days (db.py:38).
- Import: an AFAD event in the fractions of the second at which an empty window
  ends is in no query (afad.py:295, against 254-255), nor is one of the second of
  the last event found (287). A missing magnitude or depth becomes 0.0, quarry blasts and negative
  depths are kept, the default scale of AFAD is "ML"; the live parsers differ.
  The live AFAD parser knows no fractions of a second and no dots in a date, the
  import reads both; the import refuses years outside 1 to 9999 and blank event
  IDs, which ingestion takes. `events_ingested` is not cumulative.
- Schema: a comment wants upper-case source_id prefixes; those of FDSN are not.
  `event_class` stays when a revised solution replaces a row.

## 6. Not modelled

- Configuration, metrics, health routes, schema registration at start-up: I/O and
  counters that no decision of the modelled code reads.
- Numerical fits (ETAS, Gutenberg-Richter, gradient boosting, the analysis
  service's classifier): floating point. `Forecast` has when a fit replaces a
  model and when a prediction raises.
- Felt radius and intensity, `magnitude_uncertainty`: no decision depends on them.
- API routes other than events and statistics: SELECTs without state. The maps
  of the newest rows are in `Forecast`, where they are written.
- The forecast service's producer and cache: the loop calls neither.
- Frontend: the pages that render, the statistics and the subscribe message.
- A revised solution at the ingestion service: an event of `Ingestion` has one
  solution. `StorageConsumer`, `Catalogue` and `EventApi` have revisions.
- The bytes of Avro and of the cursor token: they are those of a library, and a
  record, or a pair.

## 7. Plan

Done: ingestion, storage with `AtLeastOnce`, analysis, websocket, import, event
API, forecast; the functions `Records`, `Enrichment`, `Filters`; the
compositions `Catalogue` and `LiveClient`; and the proofs of section 4.

What would come next:
1. `Ingestion` with several solutions of an event, to say which of them the
   seven days of the dedup keys let through.
2. `LiveClient` and `Websocket` as one, to say what a reconnect may lose.
