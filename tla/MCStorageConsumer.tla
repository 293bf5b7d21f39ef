------------------------- MODULE MCStorageConsumer -------------------------
(* Instances of StorageConsumer for TLC: "u" is an event of USGS, "e" one  *)
(* of EMSC, both of the same earthquake.  The records of module Records    *)
(* stand on both sides of every bound, three fields varied at a time.      *)
EXTENDS StorageConsumer, Records

MCNetworkOf == [i \in {"u", "e"} |-> IF i = "u" THEN "USGS" ELSE "EMSC"]
MCPartitionOf == [i \in {"u", "e"} |-> IF i = "u" THEN 1 ELSE 2]
MCOnePartition == [i \in {"u", "e"} |-> 1]

Solution(i, t, r, k) == [id |-> i, time |-> t, rank |-> r, place |-> "here", kind |-> k]

\* Two solutions of "u", the second later and of lower quality, one of "e", and
\* a message of each other kind.
MCMessage == {Solution("u", 0, 3, "ok"), Solution("u", 2, 1, "ok"), Solution("e", 1, 2, "ok"),
              Solution("u", 0, 1, "invalid"), Solution("u", 0, 1, "undecodable"),
              Solution("u", 0, 1, "tombstone")}

MCFailing == {Solution("u", 0, 1, "invalid"), Solution("u", 1, 4, "ok")}

MCClose == {<<"here", "here">>}

Plain == [mag |-> 4 * One, lat |-> 38 * One, lon |-> 27 * One, depth |-> 10 * One,
          time |-> 2026, id |-> [chars |-> 9, bytes |-> 9],
          magType |-> [chars |-> 2, bytes |-> 2], place |-> Absent,
          blast |-> FALSE, hint |-> TRUE, nul |-> FALSE, blank |-> FALSE]

Around(x) == {x - 1, x, x + 1}

Unusual == {Absent, NaN, Garbage}

Lengths(S) == {Absent} \cup {[chars |-> n, bytes |-> n] : n \in S}
                      \cup {[chars |-> n, bytes |-> n + 1] : n \in S}

MCFeature ==
    {[Plain EXCEPT !.mag = m, !.depth = d, !.hint = h] :
        m \in Unusual \cup {-2 * One - 50} \cup Around(-2 * One) \cup {0} \cup Around(10 * One),
        d \in Unusual \cup {-6 * One, -5 * One - 5, -1, 0}
                \cup Around(-5 * One) \cup Around(800 * One),
        h \in BOOLEAN}
    \cup
    {[Plain EXCEPT !.lat = x, !.lon = y, !.time = t] :
        x \in Unusual \cup Around(-90 * One) \cup Around(90 * One),
        y \in Unusual \cup Around(-180 * One) \cup Around(180 * One),
        t \in {Absent, Garbage, -262144, -262143, -4713, -4712, 0, 1, 9999, 10000}}
    \cup
    {[Plain EXCEPT !.id = i, !.magType = k, !.place = p, !.nul = n, !.blast = b] :
        i \in Lengths({9, 250, 251}), k \in Lengths({2, 10, 11}), p \in Lengths({512, 513}),
        n \in BOOLEAN, b \in BOOLEAN}
    \cup
    {[Plain EXCEPT !.id = [chars |-> n, bytes |-> n], !.blank = TRUE] : n \in {0, 1}}

MCEmscOnly == {m \in Message : m.id = "e" /\ Valid(m)}

-----------------------------------------------------------------------------
(* The properties of Records do not depend on the state: TLC evaluates     *)
(* them where nothing has been published yet.                              *)

NothingPublished == pc = "down" /\ Produced = {}

\* Storage rejects a record of a live parser for a range or a length only, and
\* no record that RawFields::validate accepts is refused by the table for its
\* numbers, quality, identifier or scale (see ParsedIsStorable and
\* ValidatedFitsTable).
RecordsAreStorable == NothingPublished => ParsedIsStorable /\ ValidatedFitsTable

\* The live and the historical parsers read the same position, magnitude and
\* depth out of a record that both take (see PathsAgree).
RecordPathsAgree == NothingPublished => PathsAgree
=============================================================================
