------------------------------ MODULE Forecast ------------------------------
(***************************************************************************)
(* The forecast service (services/forecast): one loop runs three tasks     *)
(* when their interval has passed: the Gutenberg-Richter grid ("gr"), the  *)
(* aftershock forecasts ("etas") and the classifier.  Each writes tables   *)
(* other services read.  Its upserts of results are plain inserts, so the  *)
(* API reads the newest rows up to a limit.                                *)
(*                                                                         *)
(* Events and cells are numbers: events in order of their origin time,     *)
(* cells in the order of build_grid_cells.  What the models compute is     *)
(* left out.  The environment stores events, extends the historical        *)
(* catalogue, lets time pass, fails calls and restarts the process, maybe  *)
(* with another version of the classifier or on a rebooted host.           *)
(***************************************************************************)
EXTENDS Naturals, Sequences, FiniteSets

CONSTANTS
    Event,        \* events of seismic_events
    Mainshock,    \* those at or above ETAS_MIN_MAG
    NoDepth,      \* those whose row has no depth_km
    Undivided,    \* those of magnitude -0.1
    Cell,         \* grid cells, and the region as a whole
    Unmapped,     \* items whose row has no geometry: the region (grid_cell IS
                  \* NULL), mainshocks without a catalogue around them
    Version,      \* classifier versions that get deployed
    FirstVersion, \* the one deployed first
    Interval,     \* ticks between two runs of a task
    RowLimit,     \* rows a map of the API reads: 2000 cells, 50 heatmaps
    BatchLimit,   \* events classified in one run
    MaxRestarts, MaxFaults   \* bounds of the fault counters

Task == {"gr", "etas", "classifier"}
Grid == {"gr", "etas"}   \* the tasks that write one row for each item

Items == [t \in Grid |-> IF t = "gr" THEN Cell ELSE Mainshock]

ASSUME ForecastAssumption ==
    /\ Event \subseteq Nat /\ Cell \subseteq Nat /\ IsFiniteSet(Event) /\ IsFiniteSet(Cell)
    /\ {Mainshock, NoDepth, Undivided} \subseteq SUBSET Event /\ Unmapped \subseteq Cell \cup Mainshock
    /\ Cell \cap Mainshock = {}
    /\ Interval \in [Task -> Nat \ {0}] /\ RowLimit \in [Grid -> Nat \ {0}]
    /\ FirstVersion \in Version
    /\ BatchLimit \in Nat \ {0} /\ {MaxRestarts, MaxFaults} \subseteq Nat

VARIABLES
    pc,           \* the next step of the loop
    due,          \* tasks left in this cycle; the clock at its start fixed them
    todo,         \* items of the running task without a row yet
    batch,        \* events read for classification
    model,        \* _model: "none", "fitted", or "unfitted" by a fit that raised
    trained,      \* _is_trained
    version,      \* the classifier version of the running build
    age,          \* ticks since a task ended, up to its interval
    stage,        \* an event is "unborn", "recent" (of the last 30 days) or "old"
    ripe,         \* cells with the 30 catalogue events an analysis takes
    trainable,    \* the catalogue has the 50 events a training takes
    rows,         \* the newest rows with a geometry, newest first
    written,      \* items that have a row with a geometry
    classified,   \* events with an event_class
    registry,     \* model_registry: is_active of each version's row
    restarts, faults

process == <<pc, due, todo, batch, model, trained, version, age>>
tables == <<rows, written, classified, registry>>
world == <<stage, ripe, trainable>>
counters == <<restarts, faults>>
vars == <<process, tables, world, counters>>

Running == pc # "down"

MaxInterval == CHOOSE n \in {Interval[t] : t \in Task} : \A t \in Task : Interval[t] <= n

Bounded(n, bound) == IF n < bound THEN n ELSE bound

TypeOK ==
    /\ pc \in {"down", "sleep", "gr", "gr rows", "etas", "etas rows", "train", "deactivate",
               "activate", "read", "predict"}
    /\ due \subseteq Task
    /\ todo \subseteq Cell \cup Mainshock
    /\ batch \subseteq Event /\ Cardinality(batch) <= BatchLimit
    /\ model \in {"none", "fitted", "unfitted"} /\ trained \in BOOLEAN
    /\ version \in Version
    /\ age \in [Task -> Nat]
    /\ stage \in [Event -> {"unborn", "recent", "old"}]
    /\ ripe \subseteq Cell /\ trainable \in BOOLEAN
    /\ rows \in [Grid -> Seq(Cell \cup Mainshock)]
    /\ written \in [Grid -> SUBSET (Cell \cup Mainshock)]
    /\ classified \subseteq Event
    /\ registry \in [Version -> {"absent", "inactive", "active"}]
    /\ restarts \in Nat /\ faults \in Nat

Init ==
    /\ pc = "down" /\ due = {} /\ todo = {} /\ batch = {}
    /\ model = "none" /\ trained = FALSE /\ version = FirstVersion
    /\ age = [t \in Task |-> 0]
    /\ stage = [e \in Event |-> "unborn"] /\ ripe = {} /\ trainable = FALSE
    /\ rows = [t \in Grid |-> <<>>] /\ written = [t \in Grid |-> {}]
    /\ classified = {}
    /\ registry = [v \in Version |-> "absent"]
    /\ restarts = 0 /\ faults = 0

-----------------------------------------------------------------------------
(* The cycle *)

\* The last_* times start as 0.0 and are compared with the monotonic clock:
\* what seems to have passed is the time since the host booted.
Start ==
    /\ pc = "down"
    /\ pc' = "sleep"
    /\ \E uptime \in 0..MaxInterval : age' = [t \in Task |-> Bounded(uptime, Interval[t])]
    /\ UNCHANGED <<due, todo, batch, model, trained, version, tables, world, counters>>

DueTasks == {t \in Task : age[t] >= Interval[t]}

First(tasks) ==
    IF "gr" \in tasks THEN "gr"
    ELSE IF "etas" \in tasks THEN "etas"
    ELSE IF "classifier" \in tasks THEN "train" ELSE "sleep"

\* Mutant of Planned: the three checks are an if / elif chain.
PlannedElif ==
    IF "gr" \in DueTasks THEN {"gr"} ELSE IF "etas" \in DueTasks THEN {"etas"} ELSE DueTasks

\* Every check is made, with the time read at the start of the cycle.
Planned == DueTasks

\* A cycle with nothing due only goes back to sleep and is left out.
BeginCycle ==
    /\ pc = "sleep" /\ Planned # {}
    /\ due' = Planned /\ pc' = First(Planned)
    /\ UNCHANGED <<todo, batch, model, trained, version, age, tables, world, counters>>

Elapse(ticks) == [u \in Task |-> Bounded(age[u] + ticks, Interval[u])]

\* A task takes any time.  None lets an exception out, so that its end is
\* noted however it went.
EndTask(t) ==
    /\ due' = due \ {t} /\ pc' = First(due')
    /\ \E ticks \in 0..MaxInterval : age' = [Elapse(ticks) EXCEPT ![t] = 0]

Fault == faults < MaxFaults /\ faults' = faults + 1

-----------------------------------------------------------------------------
(* The two grid tasks: read the items, then compute and insert one by one. *)

Rows == [t \in Grid |-> IF t = "gr" THEN "gr rows" ELSE "etas rows"]

Selected(t) == IF t = "gr" THEN ripe ELSE {m \in Mainshock : stage[m] = "recent"}

\* Cells ascend; get_recent_mainshocks orders by event_time DESC.
Before(t, i, j) == IF t = "gr" THEN i < j ELSE i > j

\* _row_to_catalog_event: float(None) of a row without depth raises, for all rows
\* of the query.  The import gives all rows of historical_events a depth.
Readable(t) == t = "etas" => Selected(t) \cap NoDepth = {}

ReadItems(t) ==
    /\ pc = t
    /\ \/ /\ Readable(t)
          /\ pc' = Rows[t] /\ todo' = Selected(t) /\ UNCHANGED <<due, age, counters>>
       \/ ~Readable(t) /\ EndTask(t) /\ UNCHANGED <<todo, counters>>
       \/ Fault /\ EndTask(t) /\ UNCHANGED <<todo, restarts>>
    /\ UNCHANGED <<batch, model, trained, version, tables, world>>

\* Mutant of NextItem: the query has no ORDER BY.
NextUnordered(t, i) == i \in todo

NextItem(t, i) == i \in todo /\ \A j \in todo \ {i} : Before(t, i, j)

Newest(s, n) == SubSeq(s, 1, Bounded(Len(s), n))

\* upsert_gr_analysis and upsert_etas_forecast insert.
Insert(t, i) ==
    IF i \in Unmapped
      THEN UNCHANGED <<rows, written>>
      ELSE /\ rows' = [rows EXCEPT ![t] = Newest(<<i>> \o @, RowLimit[t])]
           /\ written' = [written EXCEPT ![t] = @ \cup {i}]

\* A failed item is logged and the next one is taken.
WriteRow(t, i) ==
    /\ pc = Rows[t] /\ NextItem(t, i)
    /\ \/ Insert(t, i) /\ UNCHANGED counters
       \/ Fault /\ UNCHANGED <<rows, written, restarts>>
    /\ todo' = todo \ {i}
    /\ UNCHANGED <<pc, due, batch, model, trained, version, age, classified, registry, world>>

EndRows(t) ==
    /\ pc = Rows[t] /\ todo = {}
    /\ EndTask(t)
    /\ UNCHANGED <<todo, batch, model, trained, version, tables, world, counters>>

\* get_gr_cells and get_regional_heatmaps: ORDER BY computed_at DESC LIMIT n.
Shown(t) == {rows[t][k] : k \in DOMAIN rows[t]}

-----------------------------------------------------------------------------
(* The classifier: train and register, then label the newest events.       *)

TrainSkip ==
    /\ pc = "train" /\ ~trainable
    /\ pc' = "read"
    /\ UNCHANGED <<due, todo, batch, model, trained, version, age, tables, world, counters>>

Train ==
    /\ pc = "train" /\ trainable
    /\ pc' = "deactivate" /\ model' = "fitted" /\ trained' = TRUE
    /\ UNCHANGED <<due, todo, batch, version, age, tables, world, counters>>

\* Reading the catalogue or the cross-validation fails before _model is
\* replaced, the final fit after it.
TrainFails ==
    /\ pc = "train" /\ Fault
    /\ pc' = "read"
    /\ model' \in {model} \cup (IF trainable THEN {"unfitted"} ELSE {})
    /\ UNCHANGED <<due, todo, batch, trained, version, age, tables, world, restarts>>

\* Mutant of Deactivate: the older versions stay as they are.
DeactivateNothing ==
    /\ pc = "deactivate" /\ pc' = "activate"
    /\ UNCHANGED <<due, todo, batch, model, trained, version, age, tables, world, counters>>

Deactivate ==
    /\ pc = "deactivate"
    /\ \/ /\ registry' = [v \in Version |-> IF registry[v] = "active" THEN "inactive" ELSE registry[v]]
          /\ pc' = "activate" /\ UNCHANGED counters
       \/ Fault /\ pc' = "read" /\ UNCHANGED <<registry, restarts>>
    /\ UNCHANGED <<due, todo, batch, model, trained, version, age, rows, written, classified, world>>

\* Mutant of Activate: ON CONFLICT leaves is_active as it is.
ActivateNew ==
    /\ pc = "activate" /\ pc' = "read"
    /\ registry' = [registry EXCEPT ![version] = IF @ = "absent" THEN "active" ELSE @]
    /\ UNCHANGED <<due, todo, batch, model, trained, version, age, rows, written, classified, world, counters>>

Activate ==
    /\ pc = "activate" /\ pc' = "read"
    /\ \/ registry' = [registry EXCEPT ![version] = "active"] /\ UNCHANGED counters
       \/ Fault /\ UNCHANGED <<registry, restarts>>
    /\ UNCHANGED <<due, todo, batch, model, trained, version, age, rows, written, classified, world>>

Stored == {e \in Event : stage[e] # "unborn"}

NewestEvents(S) == {e \in S : Cardinality({f \in S : f > e}) < BatchLimit}

\* Mutant of Unclassified: the WHERE clause is missing.
UnclassifiedNewest == NewestEvents(Stored)

Unclassified == NewestEvents(Stored \ classified)

ReadUnclassified ==
    /\ pc = "read"
    /\ \/ /\ Unclassified # {} /\ Unclassified \cap NoDepth = {}
          /\ pc' = "predict" /\ batch' = Unclassified /\ UNCHANGED <<due, age, counters>>
       \/ /\ Unclassified = {} \/ Unclassified \cap NoDepth # {}
          /\ EndTask("classifier") /\ UNCHANGED <<batch, counters>>
       \/ Fault /\ EndTask("classifier") /\ UNCHANGED <<batch, restarts>>
    /\ UNCHANGED <<todo, model, trained, version, tables, world>>

\* Without a training the rule labels; a trained classifier raises if its
\* model is unfitted.
CanPredict == trained => model = "fitted"

\* A row without depth among those read around an event of the batch, of the
\* last 24 hours and 50 km: it may be one of the last 30 days.
NearbyUnreadable == \E e \in NoDepth : stage[e] = "recent"

\* depth_mag_ratio divides by the magnitude + 0.1.
Dividable == batch \cap Undivided = {}

\* The UPDATEs of a batch are one transaction, and what raises for one of its
\* events raises for the batch.
Predict ==
    /\ pc = "predict" /\ EndTask("classifier") /\ batch' = {}
    /\ \/ /\ CanPredict /\ Dividable
          /\ classified' = classified \cup batch
          /\ UNCHANGED counters
       \/ /\ ~CanPredict \/ ~Dividable \/ NearbyUnreadable
          /\ UNCHANGED <<classified, counters>>
       \/ Fault /\ UNCHANGED <<classified, restarts>>
    /\ UNCHANGED <<todo, model, trained, version, rows, written, registry, world>>

-----------------------------------------------------------------------------
(* The environment *)

\* The container is killed (the service handles no SIGTERM); the image may be
\* another one when it comes back.
Crash ==
    /\ Running /\ restarts < MaxRestarts
    /\ restarts' = restarts + 1
    /\ pc' = "down" /\ due' = {} /\ todo' = {} /\ batch' = {}
    /\ model' = "none" /\ trained' = FALSE
    /\ version' \in Version
    /\ age' = [t \in Task |-> 0]
    /\ UNCHANGED <<tables, world, faults>>

Tick ==
    /\ pc = "sleep"
    /\ age' = Elapse(1)
    /\ UNCHANGED <<pc, due, todo, batch, model, trained, version, tables, world, counters>>

Ages(e, old, new) ==
    /\ stage[e] = old /\ stage' = [stage EXCEPT ![e] = new]
    /\ UNCHANGED <<process, tables, ripe, trainable, counters>>

StoreEvent(e) == Ages(e, "unborn", "recent")

LeaveLookback(e) == Ages(e, "recent", "old")

CatalogueGrows ==
    /\ \/ \E c \in Cell \ ripe : ripe' = ripe \cup {c} /\ UNCHANGED trainable
       \/ ~trainable /\ trainable' = TRUE /\ UNCHANGED ripe
    /\ UNCHANGED <<process, tables, stage, counters>>

-----------------------------------------------------------------------------

MainLoop ==
    \/ Start \/ BeginCycle \/ TrainSkip \/ Train \/ TrainFails
    \/ Deactivate \/ Activate \/ ReadUnclassified \/ Predict
    \/ \E t \in Grid : \/ ReadItems(t) \/ EndRows(t)
                       \/ \E i \in Items[t] : WriteRow(t, i)

Environment ==
    \/ Crash \/ Tick \/ CatalogueGrows
    \/ \E e \in Event : StoreEvent(e) \/ LeaveLookback(e)

Next == MainLoop \/ Environment

(* The loop is one coroutine whose calls return or raise, the container    *)
(* restarts (restart: unless-stopped), time passes and events get old.     *)
Fairness ==
    WF_vars(MainLoop) /\ WF_vars(Tick) /\ WF_vars(\E e \in Event : LeaveLookback(e))

Spec == Init /\ [][Next]_vars /\ Fairness

-----------------------------------------------------------------------------
(* Properties *)

\* "Only one version per model_type may be active at a time; that constraint
\* is enforced at the application layer" (04_phase3_schema.sql), whatever is
\* deployed and wherever a training run is cut.
AtMostOneActive ==
    \A v, w \in Version : registry[v] = "active" /\ registry[w] = "active" => v = w

\* An item that has a result is on the API's map although every run inserts
\* new rows and the map reads the newest RowLimit only: each cut or failed run
\* moves an item back by the other items at most, because all runs write in
\* the same order.
ResultsStayShown ==
    \A t \in Grid :
        LET others == Cardinality(Items[t] \ Unmapped) - 1
        IN  others * (restarts + faults + 1) < RowLimit[t]
              => \A i \in written[t] : i \in Shown(t) \/ (t = "etas" /\ stage[i] = "old")

\* A row the classifier raises on is among the newest without a class.
Blocked == NewestEvents(Stored \ classified) \cap (NoDepth \cup Undivided) # {}

\* Every stored event is labelled, though a run labels the newest BatchLimit
\* only, a failed fit leaves a model that cannot predict and a row without depth
\* cuts the runs of its day: only a row that raises and stays among the newest
\* without a class for good holds the others up.
EventuallyClassified == []<>(~Blocked) => []<>(Stored \subseteq classified)

\* No task starves the others, however long one takes.
EveryTaskRuns ==
    []<>(pc = "gr") /\ []<>(pc = "etas") /\ []<>(pc = "train")

\* With enough of a catalogue the deployed version is active again and again,
\* whichever step of a registration was lost and whatever ran before.
RegistryRecovers == []<>(trainable => registry[version] = "active")
=============================================================================
