------------------------------- MODULE Records -------------------------------
(***************************************************************************)
(* What becomes of one upstream record: the parsers of the ingestion       *)
(* service (services/ingestion/src/sources), the validation of the storage *)
(* service (services/storage/src/model.rs), the columns of seismic_events  *)
(* (config/postgres/init/02_schema.sql), and the parsers of the historical *)
(* import, which read the same catalogues a second time.                   *)
(*                                                                         *)
(* Degrees, kilometres and magnitudes are integers in 1/10000, times are   *)
(* years: no rule below tells apart what is closer.  A text that only one  *)
(* of two parsers takes for a date (AFAD's with dots or fractions) or for  *)
(* a number (with underscores) is left out, and an empty one is absent.    *)
(***************************************************************************)
EXTENDS Integers

CONSTANTS
    Feature,             \* upstream records
    Absent,              \* a field that is missing or null
    NaN,                 \* a text that parses to NaN or an infinity
    Garbage,             \* a text that is no number, a null among coordinates
    PrefixLength,        \* of the network's part of a source_id, with its colon
    MaxText              \* bound on the length of a text

One == 10000

Number == Int \cup {Absent, NaN, Garbage}

\* Lengths only; len() of the Rust code counts bytes, VARCHAR(n) characters.
Text == {t \in [chars : 0..MaxText, bytes : 0..MaxText] : t.chars <= t.bytes}

ASSUME RecordsAssumption ==
    /\ Int \cap {Absent, NaN, Garbage} = {}
    /\ NaN # Absent /\ Garbage # Absent
    /\ {PrefixLength, MaxText} \subseteq Nat
    /\ \A f \in Feature :
        /\ {f.mag, f.lat, f.lon, f.depth, f.time} \subseteq Number
        /\ {f.id, f.magType, f.place} \subseteq Text \cup {Absent}
        /\ f.blast \in BOOLEAN     \* its type says it is no earthquake
        /\ f.hint \in BOOLEAN      \* reviewed (USGS), known (EMSC), updated (AFAD)
        /\ f.nul \in BOOLEAN       \* its place holds a NUL character
        /\ f.blank \in BOOLEAN     \* its id has nothing but blanks
        /\ f.id # Absent /\ f.id.chars = 0 => f.blank

\* The formats: three GeoJSON services, AFAD's JSON of strings, FDSN text rows.
Source == {"USGS", "EMSC", "FDSN", "AFAD", "FDSNText"}

JsonNumbers == {"USGS", "EMSC", "FDSN"}

Finite(x) == x \in Int

\* A JSON number is finite, and one ill-typed field fails the whole answer;
\* so does a feature of USGS or EMSC without an id.
Readable(s, f) ==
    /\ s \in JsonNumbers => {f.mag, f.lat, f.lon, f.depth} \cap {NaN, Garbage} = {}
    /\ s = "USGS" => f.time \notin {NaN, Garbage}
    /\ s \in {"USGS", "EMSC"} => f.id # Absent

-----------------------------------------------------------------------------
(* Ingestion: the five parsers *)

Rejected == [ok |-> FALSE]

\* validate_coordinates: finite, and inside the WGS-84 bounds.
OnEarth(f) ==
    /\ Finite(f.lat) /\ f.lat \in -90 * One..90 * One
    /\ Finite(f.lon) /\ f.lon \in -180 * One..180 * One

Usable(f) == f.id # Absent /\ Finite(f.mag) /\ Finite(f.time) /\ OnEarth(f)

Unknown == [chars |-> 7, bytes |-> 7]

\* normalise_mag_type of the given scale or of "UNKNOWN".
ScaleOf(f) == IF f.magType = Absent THEN Unknown ELSE f.magType

Parsed(f, depth, quality) ==
    [ok |-> TRUE, id |-> f.id, mag |-> f.mag, lat |-> f.lat, lon |-> f.lon, time |-> f.time,
     depth |-> depth, magType |-> ScaleOf(f), place |-> f.place, nul |-> f.nul,
     quality |-> quality]

\* USGS and FDSN keep any finite depth, EMSC and AFAD none below zero.
AnyDepth(f) == IF Finite(f.depth) THEN f.depth ELSE Absent

\* Mutant of BelowSurface: a negative depth is kept.
BelowSurfaceUnchecked(f) == AnyDepth(f)

BelowSurface(f) == IF Finite(f.depth) /\ f.depth >= 0 THEN f.depth ELSE Absent

ParseUsgs(f) ==
    IF ~f.blast /\ Usable(f)
      THEN Parsed(f, AnyDepth(f), IF f.hint THEN "A" ELSE "D")
      ELSE Rejected

ParseEmsc(f) ==
    IF Usable(f) THEN Parsed(f, BelowSurface(f), IF f.hint THEN "C" ELSE "D") ELSE Rejected

ParseAfad(f) ==
    IF Usable(f) THEN Parsed(f, BelowSurface(f), IF f.hint THEN "B" ELSE "C") ELSE Rejected

\* The network's code, or else its numeric eventId, is the identifier.
ParseFdsn(f) == IF Usable(f) THEN Parsed(f, AnyDepth(f), "C") ELSE Rejected

\* A row of at least 11 columns; an empty one is an absent field.
ParseFdsnText(f) == IF Usable(f) THEN Parsed(f, AnyDepth(f), "C") ELSE Rejected

ParseOf(s, f) ==
    CASE s = "USGS" -> ParseUsgs(f)
      [] s = "EMSC" -> ParseEmsc(f)
      [] s = "AFAD" -> ParseAfad(f)
      [] s = "FDSN" -> ParseFdsn(f)
      [] s = "FDSNText" -> ParseFdsnText(f)

-----------------------------------------------------------------------------
(* The message: Avro without names, read by the schema of its writer *)

\* nullable_double, nullable_string: the branch of a union, then the value.
Nullable(x) == IF x = Absent THEN <<0>> ELSE <<1, x>>

\* event_to_avro
Encoded(e) ==
    [string |-> [id |-> e.id, magType |-> e.magType, quality |-> e.quality],
     double |-> [lat |-> e.lat, lon |-> e.lon, mag |-> e.mag],
     millis |-> e.time,
     union |-> [depth |-> Nullable(e.depth), place |-> Nullable(e.place)],
     nul |-> e.nul]

\* take_optional_double, take_optional_string
Taken(u) == IF u[1] = 0 THEN Absent ELSE u[2]

\* extract_fields: each field by its name and type.
Decoded(m) ==
    [id |-> m.string.id, magType |-> m.string.magType, quality |-> m.string.quality,
     lat |-> m.double.lat, lon |-> m.double.lon, mag |-> m.double.mag,
     time |-> m.millis,
     depth |-> Taken(m.union.depth), place |-> Taken(m.union.place), nul |-> m.nul]

-----------------------------------------------------------------------------
(* Storage: the validation, and the row *)

\* Mutant of Validated: the depth is not looked at.
ValidatedExceptDepth(e) ==
    /\ PrefixLength + e.id.bytes <= 255
    /\ e.magType.bytes <= 10
    /\ OnEarth(e)
    /\ Finite(e.mag) /\ e.mag \in -2 * One..10 * One
    /\ e.quality \in {"A", "B", "C", "D"}
    /\ -262143 <= e.time /\ e.time <= 262142

\* RawFields::validate; the years are those of a chrono DateTime.
Validated(e) ==
    /\ PrefixLength + e.id.bytes <= 255
    /\ e.magType.bytes <= 10
    /\ OnEarth(e)
    /\ e.depth # Absent => Finite(e.depth) /\ e.depth \in -5 * One..800 * One
    /\ Finite(e.mag) /\ e.mag \in -2 * One..10 * One
    /\ e.quality \in {"A", "B", "C", "D"}
    /\ -262143 <= e.time /\ e.time <= 262142

\* NUMERIC(p, s): rounded half away from zero to a multiple of 10^-s.
RoundTo(x, step) ==
    IF x >= 0 THEN step * ((2 * x + step) \div (2 * step))
              ELSE -(step * ((step - 2 * x) \div (2 * step)))

\* The values the CHECK constraints and the types of the columns see.
TableAccepts(e) ==
    /\ RoundTo(e.mag, 100) \in -2 * One..10 * One
    /\ e.depth # Absent => RoundTo(e.depth, 10) \in -5 * One..800 * One
    /\ e.quality \in {"A", "B", "C", "D"}
    /\ PrefixLength + e.id.chars <= 255
    /\ e.magType.chars <= 10
    /\ e.place # Absent => e.place.chars <= 512
    /\ ~e.nul
    /\ -4712 <= e.time /\ e.time <= 294275

-----------------------------------------------------------------------------
(* Historical import: the same catalogues, read by _parse_feature and      *)
(* _parse_afad_event, without validation                                   *)

\* A missing value becomes zero.
ZeroIfAbsent(x) == IF x = Absent THEN 0 ELSE x

\* The years of a Python datetime; the constructors raise for any other.
Datetime(t) == Finite(t) /\ t \in 1..9999

\* Mutant of HistoricalAfad: the sign of the depth is turned, as for an altitude.
HistoricalAfadAltitude(f) ==
    IF /\ f.id # Absent /\ ~f.blank /\ Datetime(f.time)
       /\ {f.lat, f.lon} \cap {Absent, Garbage} = {} /\ Garbage \notin {f.depth, f.mag}
      THEN [ok |-> TRUE, lat |-> f.lat, lon |-> f.lon, mag |-> ZeroIfAbsent(f.mag),
            depth |-> IF Finite(f.depth) THEN -f.depth ELSE ZeroIfAbsent(f.depth)]
      ELSE Rejected

\* float() takes "nan", and nothing is compared with the WGS-84 bounds.
HistoricalAfad(f) ==
    IF /\ f.id # Absent /\ ~f.blank /\ Datetime(f.time)
       /\ {f.lat, f.lon} \cap {Absent, Garbage} = {} /\ Garbage \notin {f.depth, f.mag}
      THEN [ok |-> TRUE, lat |-> f.lat, lon |-> f.lon, mag |-> ZeroIfAbsent(f.mag),
            depth |-> ZeroIfAbsent(f.depth)]
      ELSE Rejected

\* ComCat: blasts are kept, a null depth is zero; a missing id, time or
\* coordinate, or one that is no value of its type, raises and fails the page.
HistoricalComCat(f) ==
    IF /\ f.id # Absent /\ Datetime(f.time)
       /\ Absent \notin {f.lat, f.lon, f.depth} /\ Garbage \notin {f.lat, f.lon, f.mag}
      THEN [ok |-> TRUE, lat |-> f.lat, lon |-> f.lon, mag |-> ZeroIfAbsent(f.mag),
            depth |-> IF f.depth = Garbage THEN 0 ELSE f.depth]
      ELSE Rejected

-----------------------------------------------------------------------------
(* Properties *)

Accepted(s) == {e \in {ParseOf(s, f) : f \in {g \in Feature : Readable(s, g)}} : e.ok}

\* What storage decodes of the messages of s.
Record(s) == {Decoded(Encoded(e)) : e \in Accepted(s)}

\* Of the records RawFields::validate accepts the table refuses only those
\* with a NUL, a region of more than 512 characters or a time before 4713 BC
\* (model.rs:53-54 claims it for the CHECKs): none is refused for a number that
\* rounding moves, a quality, an identifier or a scale.
ValidatedFitsTable ==
    \A s \in Source : \A e \in Record(s) :
        Validated(e) =>
            \/ TableAccepts(e)
            \/ e.nul \/ e.time < -4712 \/ (e.place # Absent /\ e.place.chars > 512)

\* What a parser lets through, validation refuses for a range or a length only,
\* and a record of EMSC or AFAD never for a depth above the surface.
ParsedIsStorable ==
    \A s \in Source : \A e \in Record(s) :
        \/ Validated(e)
        \/ e.mag < -2 * One \/ e.mag > 10 * One
        \/ e.depth # Absent /\ e.depth > 800 * One
        \/ e.depth # Absent /\ e.depth < -5 * One /\ s \in {"USGS", "FDSN", "FDSNText"}
        \/ PrefixLength + e.id.bytes > 255 \/ e.magType.bytes > 10
        \/ e.time < -262143 \/ e.time > 262142

\* The live parsers (Rust) and the historical ones (Python) agree on position,
\* magnitude and depth of every record that both take, its depth given and, for
\* AFAD, not above the surface: the forecasts read both tables.  Which records
\* each takes differs, and nothing is claimed of those only one takes.
PathsAgree ==
    \A f \in Feature :
        /\ ParseAfad(f).ok /\ HistoricalAfad(f).ok /\ Finite(f.depth) /\ f.depth >= 0 =>
            \A c \in {"lat", "lon", "mag", "depth"} : ParseAfad(f)[c] = HistoricalAfad(f)[c]
        /\ Readable("USGS", f) /\ ParseUsgs(f).ok /\ HistoricalComCat(f).ok /\ Finite(f.depth) =>
            \A c \in {"lat", "lon", "mag", "depth"} : ParseUsgs(f)[c] = HistoricalComCat(f)[c]
=============================================================================
