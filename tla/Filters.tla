------------------------------ MODULE Filters ------------------------------
(***************************************************************************)
(* The subscription filters of the websocket service (filter.rs): how one  *)
(* is read from the query string of the upgrade request and from a         *)
(* "subscribe" message, and which records pass it.  Module Websocket takes *)
(* a filter for the set of the records that pass.                          *)
(*                                                                         *)
(* Degrees and magnitudes are integers, in tenths.                         *)
(***************************************************************************)
EXTENDS Integers, SequencesExt

CONSTANTS
    Setting,      \* what a client asks for: records [min, bounds, networks], see below
    Located,      \* records [ml, lat, lon, network] of earthquakes.enriched
    UpperOf,      \* to_uppercase of each name of a network
    TrimOf,       \* each name without the blanks around it
    SplitOf,      \* the pieces of each name between its commas
    Empty,        \* the name without characters
    Unset,        \* a field that is not given
    NoNumber,     \* a text that is no number, no finite one for a magnitude
    Default       \* default_min_magnitude

Bound == {"lat_min", "lat_max", "lon_min", "lon_max"}

Name == DOMAIN UpperOf

\* A name without commas and without blanks around it.
PlainName(n) == SplitOf[n] = {n} /\ TrimOf[n] = n /\ n # Empty

\* Upper-casing neither makes nor takes away a comma or a blank.
ASSUME NamesAssumption ==
    /\ Empty \in Name
    /\ UpperOf \in [Name -> Name] /\ TrimOf \in [Name -> Name] /\ SplitOf \in [Name -> SUBSET Name]
    /\ SplitOf[Empty] = {Empty} /\ TrimOf[Empty] = Empty
    /\ \A n \in Name : UpperOf[n] = Empty <=> n = Empty
    /\ \A n, m \in Name : UpperOf[n] = UpperOf[m] => (PlainName(n) <=> PlainName(m))

ASSUME FiltersAssumption ==
    /\ \A s \in Setting : /\ s.min \in Int \cup {Unset}
                          /\ s.bounds \in [Bound -> Int \cup {Unset}]
                          /\ s.networks \subseteq Name
    /\ \A e \in Located : /\ {e.ml, e.lat, e.lon} \subseteq Int
                          /\ e.network \in Name /\ PlainName(e.network)
    /\ {Unset, NoNumber} \cap Int = {} /\ Default \in Int

Reach(b) == IF b \in {"lat_min", "lat_max"} THEN 900 ELSE 1800

\* validated_coord: a value out of the domain unsets the bound.
Validated(b, v) == IF v \in -Reach(b)..Reach(b) THEN v ELSE Unset

-----------------------------------------------------------------------------
(* The query string: pairs, taken one after the other *)

NoFilter == [min |-> Default, bounds |-> [b \in Bound |-> Unset], networks |-> {}]

\* The names of a list: split, trimmed, upper-cased, without the empty ones.
Listed(N) == {UpperOf[TrimOf[p]] : p \in UNION {SplitOf[n] : n \in N}} \ {Empty}

\* A pair whose value does not parse changes nothing, one whose bound is out of
\* the domain takes back what an earlier pair set.
Apply(f, pair) ==
    CASE pair.key = "source_networks" -> [f EXCEPT !.networks = Listed(pair.value)]
      [] pair.key # "source_networks" /\ pair.value = NoNumber -> f
      [] pair.key = "min_magnitude" /\ pair.value # NoNumber -> [f EXCEPT !.min = pair.value]
      [] pair.key \in Bound /\ pair.value # NoNumber ->
             [f EXCEPT !.bounds[pair.key] = Validated(pair.key, pair.value)]

\* The filter after the first n pairs, for each n.
Loop(pairs) == LET filter[n \in 0..Len(pairs)] == IF n = 0 THEN NoFilter ELSE Apply(filter[n - 1], pairs[n])
               IN  filter

FromQuery(pairs) == Loop(pairs)[Len(pairs)]

-----------------------------------------------------------------------------
(* The message: all fields at once *)

\* The names as they come, upper-cased.
Upper(N) == {UpperOf[n] : n \in N}

\* Mutant of FromSubscribe: the bounds are taken as they come.
FromSubscribeUnchecked(s) ==
    [min |-> IF s.min = Unset THEN 0 ELSE s.min, bounds |-> s.bounds, networks |-> Upper(s.networks)]

\* An omitted magnitude is 0, not the default of the service.
FromSubscribe(s) ==
    [min |-> IF s.min = Unset THEN 0 ELSE s.min,
     bounds |-> [b \in Bound |-> IF s.bounds[b] = Unset THEN Unset ELSE Validated(b, s.bounds[b])],
     networks |-> Upper(s.networks)]

-----------------------------------------------------------------------------
(* Matching *)

WithinBbox(f, e) ==
    /\ f.bounds["lat_min"] # Unset => e.lat >= f.bounds["lat_min"]
    /\ f.bounds["lat_max"] # Unset => e.lat <= f.bounds["lat_max"]
    /\ f.bounds["lon_min"] # Unset => e.lon >= f.bounds["lon_min"]
    /\ f.bounds["lon_max"] # Unset => e.lon <= f.bounds["lon_max"]

\* An alert has no network.
MatchesAlert(f, a) == a.ml >= f.min /\ WithinBbox(f, a)

MatchesEnriched(f, e) ==
    /\ e.ml >= f.min /\ WithinBbox(f, e)
    /\ f.networks # {} => UpperOf[e.network] \in f.networks

-----------------------------------------------------------------------------
(* Properties *)

\* The pairs of a setting, with one that does not parse among them; a pair whose
\* value is the empty text is no pair.
Pairs(s) ==
    LET given == {b \in Bound : s.bounds[b] # Unset}
        texts == [i \in 1..Cardinality(given) |->
                    LET b == SetToSeq(given)[i] IN [key |-> b, value |-> s.bounds[b]]]
    IN  texts \o <<[key |-> "lat_min", value |-> NoNumber]>>
              \o (IF s.min = Unset THEN <<>> ELSE <<[key |-> "min_magnitude", value |-> s.min]>>)
              \o (IF s.networks \subseteq {Empty} THEN <<>> ELSE <<[key |-> "source_networks", value |-> s.networks]>>)

\* The two ways to set a filter, for every setting that names a magnitude (without
\* one, the message admits what a default of 0 does): what passes a message
\* passes the query string, and they let the same events pass when no name has a
\* comma, a blank around it or nothing in it, which the query string takes away
\* (filter.rs:124-128) and the message keeps (handler.rs:284-289), where it is the
\* name of no event.  A client that gets an event gets its alert.
FiltersAgree ==
    \A s \in Setting :
        LET q == FromQuery(Pairs(s))
            m == FromSubscribe(s)
        IN  \A e \in Located :
              /\ s.min # Unset \/ Default = 0 =>
                   /\ MatchesEnriched(m, e) => MatchesEnriched(q, e)
                   /\ (\A n \in s.networks : PlainName(n)) =>
                        (MatchesEnriched(q, e) => MatchesEnriched(m, e))
              /\ MatchesEnriched(m, e) => MatchesAlert(m, e)
              /\ MatchesEnriched(q, e) => MatchesAlert(q, e)
=============================================================================
