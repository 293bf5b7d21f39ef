--------------------------- MODULE EventApiProofs ---------------------------
(***************************************************************************)
(* What the readers of the table get, for any ids, solutions, filters and  *)
(* page sizes, while storage and analysis write: a keyset walk returns     *)
(* nothing twice and misses nothing that stayed as it was, the bands of    *)
(* the statistics count an event once, and a key never holds a solution    *)
(* that is newer than the row.  The second half is about a reader, the     *)
(* live page: its list has an event once, and what is missing in it has    *)
(* one of three reasons.                                                   *)
(***************************************************************************)
EXTENDS EventApi, LiveClient, FiniteSetTheorems, SequenceTheorems, TLAPS

(* The next-state relation, unfolded.                                      *)
LEMMA Steps ==
    ASSUME [Next]_vars
    PROVE  \/ NextPage \/ EndWalk \/ CountMiss \/ CountBand \/ CountDone \/ StatsExpire
           \/ \E q \in Query : BeginWalk(q)
           \/ \E c \in statsFills : StatsFill(c)
           \/ \E i \in Id : Miss(i) \/ Evict(i) \/ Expire(i) \/ Read(i)
           \/ \E i \in Id, s \in Solution : Fill(i, s) \/ StorageUpserts(i, s) \/ AnalysisInserts(i, s)
           \/ UNCHANGED vars
  BY Zenon DEF Next, Reads, Background, Writers

-----------------------------------------------------------------------------
(* Types, and what is in the keys *)

\* A solution that waits to be cached is one the row had.
FillsInv == \A f \in fills : rows[f[1]] # NoRow /\ f[2].time <= rows[f[1]].time

TypeInv == TypeOK /\ FillsInv

-----------------------------------------------------------------------------
(* The walk *)

\* The row of a returned event is not behind the cursor: the walk goes back in
\* time and the rows go forward.
ReturnedIsPassed ==
    \A i \in Id : returned[i] = 1 => /\ cursor # NoCursor
                                     /\ rows[i] # NoRow /\ ~Behind(i)

\* What matched at the beginning and was not written is returned or to come.
RestIsToCome ==
    \A i \in Id \ touched : Matches(query, rows[i]) => returned[i] = 1 \/ Behind(i)

WalkInv ==
    /\ \A i \in Id : returned[i] \in {0, 1}
    /\ query = NoWalk => cursor = NoCursor /\ ~complete
    /\ query # NoWalk => \A i \in Id \ touched : initial[i] = rows[i]
    /\ query # NoWalk /\ ~complete => ReturnedIsPassed /\ RestIsToCome
    /\ WalkIsFaithful

-----------------------------------------------------------------------------
(* The statistics *)

\* Each band has been counted as the row of an unwritten event still is.
CountInv ==
    \A i \in Id \ moved : \A b \in DOMAIN counts : i \in counts[b] <=> InBand(b, rows[i])

-----------------------------------------------------------------------------
(* The order of a page.  The rank of an event of S is the number of events *)
(* of S before it; in a finite S every rank below the size is somebody's,  *)
(* so that a page has a last row.                                          *)

Stored == {i \in Id : rows[i] # NoRow}

Rank(S, i) == Cardinality({j \in S : Before(j, i)})

LEMMA StoredTyped ==
    ASSUME TypeOK, NEW i \in Stored
    PROVE  rows[i] \in Solution /\ rows[i].time \in Int /\ i \in Nat
  BY EventApiAssumption DEF TypeOK, Stored, Row

LEMMA BeforeIsAnOrder ==
    ASSUME TypeOK
    PROVE  /\ \A i \in Stored : ~Before(i, i)
           /\ \A i, j \in Stored : i = j \/ Before(i, j) \/ Before(j, i)
           /\ \A i, j \in Stored : ~(Before(i, j) /\ Before(j, i))
           /\ \A i, j, k \in Stored : Before(i, j) /\ Before(j, k) => Before(i, k)
  BY StoredTyped DEF Before

LEMMA RankRises ==
    ASSUME TypeOK, NEW S \in SUBSET Stored, NEW i \in S
    PROVE  /\ IsFiniteSet(S) /\ Cardinality(S) \in Nat
           /\ Rank(S, i) \in Nat /\ Rank(S, i) < Cardinality(S)
           /\ \A j \in S : Before(i, j) => Rank(S, i) < Rank(S, j)
  <1>1. IsFiniteSet(S) /\ Cardinality(S) \in Nat
    BY EventApiAssumption, FS_Subset, FS_CardinalityType DEF Stored
  <1> DEFINE Ahead(j) == {k \in S : Before(k, j)}
  <1>2. \A j \in S : IsFiniteSet(Ahead(j)) /\ Cardinality(Ahead(j)) \in Nat
    BY <1>1, FS_Subset, FS_CardinalityType
  <1>3. Ahead(i) \subseteq S /\ Ahead(i) # S
    BY BeforeIsAnOrder
  <1>4. Cardinality(Ahead(i)) < Cardinality(S)
    BY <1>1, <1>2, <1>3, FS_Subset
  <1>5. ASSUME NEW j \in S, Before(i, j) PROVE Cardinality(Ahead(i)) < Cardinality(Ahead(j))
    <2>1. Ahead(i) \subseteq Ahead(j)
      BY <1>5, BeforeIsAnOrder
    <2>2. i \in Ahead(j) /\ i \notin Ahead(i)
      BY <1>5, BeforeIsAnOrder
    <2> QED
      BY <1>2, <2>1, <2>2, FS_Subset
  <1> QED
    BY <1>1, <1>2, <1>4, <1>5 DEF Rank

LEMMA RankIsReached ==
    ASSUME TypeOK, NEW S \in SUBSET Stored, NEW n \in 0..(Cardinality(S) - 1)
    PROVE  \E i \in S : Rank(S, i) = n
  <1>1. IsFiniteSet(S) /\ Cardinality(S) \in Nat
    BY EventApiAssumption, FS_Subset, FS_CardinalityType DEF Stored
  <1> DEFINE T == 0..(Cardinality(S) - 1)
             f == [i \in S |-> Rank(S, i)]
  <1>2. IsFiniteSet(T) /\ Cardinality(T) = Cardinality(S)
    BY <1>1, FS_Interval
  <1>3. f \in [S -> T]
    BY <1>1, RankRises
  <1>4. \A i, j \in S : f[i] = f[j] => i = j
    BY RankRises, BeforeIsAnOrder
  <1>5. f \in Injection(S, T)
    BY <1>3, <1>4 DEF Injection, IsInjective
  <1>6. f \in Surjection(S, T)
    BY <1>2, <1>5, FS_Injection
  <1> QED
    BY <1>6 DEF Surjection

LEMMA FoundIsStored == Found \subseteq Stored
  BY DEF Found, Stored, Matches

\* Without a next cursor the page is the rest.
LEMMA LastPage == ASSUME TypeOK, ~HasMore PROVE Page = Found
  <1>1. Page \subseteq Found
    BY DEF Page
  <1>2. ASSUME NEW i \in Found PROVE i \in Page
    BY RankRises, FoundIsStored, EventApiAssumption DEF Page, Rank, HasMore
  <1> QED
    BY <1>1, <1>2

\* With one, it is at the last row, behind which all others are that were found.
LEMMA LastOfPage ==
    ASSUME TypeOK, HasMore
    PROVE  /\ Last \in Page
           /\ \A j \in Page : j = Last \/ Before(j, Last)
           /\ \A i \in Found \ Page : Before(Last, i)
  <1>1. \A i \in Page : i \in Found /\ Rank(Found, i) < PageSize
    BY DEF Page, Rank
  <1>2. \A i \in Found \ Page : ~(Rank(Found, i) < PageSize)
    BY DEF Page, Rank
  <1>3. PICK k \in Found : Rank(Found, k) = PageSize - 1
    <2>1. IsFiniteSet(Found)
      BY FoundIsStored, EventApiAssumption, FS_Subset DEF Stored
    <2>2. PageSize - 1 \in 0..(Cardinality(Found) - 1)
      BY <2>1, FS_CardinalityType, EventApiAssumption DEF HasMore
    <2> QED
      BY <2>2, RankIsReached, FoundIsStored
  <1>4. k \in Page
    BY <1>2, <1>3, EventApiAssumption
  <1>5. \A j \in Page : j = k \/ Before(j, k)
    BY <1>1, <1>3, RankRises, FoundIsStored, BeforeIsAnOrder, EventApiAssumption
  <1>6. Last \in Page /\ \A j \in Page : j = Last \/ Before(j, Last)
    <2>1. \E i \in Page : \A j \in Page : j = i \/ Before(j, i)
      BY <1>4, <1>5
    <2> QED
      BY <2>1 DEF Last
  <1>7. ASSUME NEW i \in Found \ Page PROVE Before(Last, i)
    <2>1. Rank(Found, Last) < PageSize /\ ~(Rank(Found, i) < PageSize)
      BY <1>1, <1>2, <1>6
    <2>2. Last \in Found /\ i \in Found /\ i # Last
      BY <1>1, <1>6
    <2>3. Rank(Found, Last) \in Nat /\ Rank(Found, i) \in Nat
      BY <2>2, RankRises, FoundIsStored
    <2>4. ~Before(i, Last)
      BY <2>1, <2>2, <2>3, RankRises, FoundIsStored, EventApiAssumption
    <2> QED
      BY <2>2, <2>4, BeforeIsAnOrder, FoundIsStored
  <1> QED
    BY <1>6, <1>7

-----------------------------------------------------------------------------
(* Types *)

LEMMA TypeInit == Init => TypeInv
<1> SUFFICES ASSUME Init PROVE TypeInv
  OBVIOUS
<1>1. <<>> \in Count
  BY DEF Count
<1>2. rows \in [Id -> Row] /\ cache = rows /\ initial = rows /\ \A i \in Id : rows[i] = NoRow
  BY DEF Init, Row
<1>3. returned \in [Id -> Nat]
  BY DEF Init
<1> QED
  BY <1>1, <1>2, <1>3 DEF Init, TypeInv, TypeOK, FillsInv, NoCount

\* A row that is replaced only moves forward, so keys and fills stay behind it.
LEMMA TypeWritten ==
    ASSUME TypeInv, NEW i \in Id, NEW s \in Solution, Replaces(s, i), Write(i, s),
           evicting' \subseteq Id, UNCHANGED elsewhere
    PROVE  TypeInv'
  <1>1. rows' \in [Id -> Row] /\ rows'[i] = s /\ \A j \in Id \ {i} : rows'[j] = rows[j]
    BY DEF Write, TypeInv, TypeOK, Row
  <1>2. s # NoRow /\ s.time \in Int
    BY EventApiAssumption
  <1>3. \A j \in Id : rows[j] # NoRow =>
             rows'[j] # NoRow /\ \A t \in Int : t <= rows[j].time => t <= rows'[j].time
    BY <1>1, <1>2, EventApiAssumption DEF Replaces, TypeInv, TypeOK, Row
  <1>4. \A j \in Id : cache[j] # NoRow => cache[j].time \in Int
    BY EventApiAssumption DEF TypeInv, TypeOK, Row
  <1>5. \A f \in fills : f[1] \in Id /\ f[2].time \in Int
    BY EventApiAssumption DEF TypeInv, TypeOK
  <1>6. \A j \in Id : cache'[j] # NoRow => rows'[j] # NoRow /\ cache'[j].time <= rows'[j].time
    BY <1>3, <1>4 DEF TypeInv, TypeOK, elsewhere, point
  <1>7. FillsInv'
    BY <1>3, <1>5 DEF TypeInv, FillsInv, elsewhere, point
  <1>8. touched' \subseteq Id /\ moved' \subseteq Id
    BY DEF Write, TypeInv, TypeOK
  <1> QED
    BY <1>1, <1>6, <1>7, <1>8 DEF TypeInv, TypeOK, elsewhere, point

\* The actions of the walk and of the statistics leave rows and keys alone.
LEMMA TypeRowsUntouched ==
    ASSUME TypeInv, UNCHANGED <<table, point>>,
           query' \in Query \cup {NoWalk}, cursor' \in {NoCursor} \cup (Int \X Id),
           returned' \in [Id -> Nat], initial' \in [Id -> Row], touched' \subseteq Id,
           complete' \in BOOLEAN,
           counts' \in Count, moved' \subseteq Id, statsKey' \in Count, statsFills' \subseteq Count,
           requests' \in Nat, faults' \in Nat
    PROVE  TypeInv'
  BY DEF TypeInv, TypeOK, FillsInv, table, point

\* The others leave rows, walk and statistics alone.
LEMMA TypeReadersUntouched ==
    ASSUME TypeInv, UNCHANGED <<rows, walk, stats>>,
           cache' \in [Id -> Row], evicting' \subseteq Id, reading' \subseteq Id,
           fills' \subseteq Id \X Solution, requests' \in Nat, faults' \in Nat,
           \A i \in Id : cache'[i] # NoRow => rows[i] # NoRow /\ cache'[i].time <= rows[i].time,
           \A f \in fills' : rows[f[1]] # NoRow /\ f[2].time <= rows[f[1]].time
    PROVE  TypeInv'
  BY DEF TypeInv, TypeOK, FillsInv, walk, stats

LEMMA TypeStep == TypeInv /\ [Next]_vars => TypeInv'
<1> SUFFICES ASSUME TypeInv, [Next]_vars PROVE TypeInv'
  OBVIOUS
<1>0. TypeOK /\ FillsInv
  BY DEF TypeInv
<1>1. CASE NextPage
  <2>1. cursor' \in {NoCursor} \cup (Int \X Id) /\ complete' \in BOOLEAN
    <3>1. CASE HasMore
      <4>1. Last \in Stored
        BY <1>0, <3>1, LastOfPage, FoundIsStored DEF Page
      <4>2. <<rows[Last].time, Last>> \in Int \X Id
        BY <1>0, <4>1, StoredTyped DEF Stored
      <4> QED
        BY <1>0, <1>1, <3>1, <4>2 DEF NextPage, TypeOK
    <3>2. CASE ~HasMore
      BY <1>0, <1>1, <3>2 DEF NextPage, TypeOK
    <3> QED
      BY <3>1, <3>2
  <2>2. returned' \in [Id -> Nat]
    BY <1>0, <1>1 DEF NextPage, TypeOK
  <2> QED
    BY <1>0, <1>1, <2>1, <2>2, TypeRowsUntouched DEF NextPage, TypeOK, stats
<1>2. CASE EndWalk
  BY <1>0, <1>2, TypeRowsUntouched DEF EndWalk, TypeOK, stats
<1>3. ASSUME NEW q \in Query, BeginWalk(q) PROVE TypeInv'
  <2>1. returned' \in [Id -> Nat] /\ initial' \in [Id -> Row] /\ touched' \subseteq Id
    BY <1>0, <1>3 DEF BeginWalk, TypeOK
  <2>2. query' \in Query \cup {NoWalk} /\ cursor' = NoCursor /\ complete' \in BOOLEAN
    BY <1>3 DEF BeginWalk
  <2>3. requests' \in Nat
    BY <1>0, <1>3 DEF BeginWalk, Request, TypeOK
  <2> QED
    BY <1>0, <1>3, <2>1, <2>2, <2>3, TypeRowsUntouched DEF BeginWalk, TypeOK, stats
<1>4. CASE CountMiss
  <2>1. Counted(1) \subseteq Id
    BY DEF Counted
  <2>2. counts' \in Count
    BY <1>4, <2>1 DEF CountMiss, Count
  <2> QED
    BY <1>0, <1>4, <2>2, TypeRowsUntouched DEF CountMiss, Request, TypeOK, walk
<1>5. CASE CountBand
  <2>1. Counted(Len(counts) + 1) \in SUBSET Id
    BY DEF Counted
  <2>2. counts' \in Count
    BY <1>0, <1>5, <2>1 DEF CountBand, TypeOK, Count
  <2> QED
    BY <1>0, <1>5, <2>2, TypeRowsUntouched DEF CountBand, TypeOK, walk
<1>6. CASE CountDone
  <2>1. NoCount \in Count
    BY DEF NoCount, Count
  <2> QED
    BY <1>0, <1>6, <2>1, TypeRowsUntouched DEF CountDone, TypeOK, walk
<1>7. CASE StatsExpire
  <2>1. NoCount \in Count
    BY DEF NoCount, Count
  <2> QED
    BY <1>0, <1>7, <2>1, TypeRowsUntouched DEF StatsExpire, TypeOK, walk
<1>8. ASSUME NEW c \in statsFills, StatsFill(c) PROVE TypeInv'
  BY <1>0, <1>8, TypeRowsUntouched DEF StatsFill, TypeOK, walk
<1>9. ASSUME NEW i \in Id, Miss(i) PROVE TypeInv'
  BY <1>0, <1>9, TypeReadersUntouched DEF Miss, Request, TypeOK, FillsInv, table
<1>10. ASSUME NEW i \in Id, Evict(i) PROVE TypeInv'
  <2>1. cache' \in [Id -> Row] /\ \A j \in Id : cache'[j] \in {cache[j], NoRow}
    BY <1>0, <1>10 DEF Evict, TypeOK, Row
  <2> QED
    BY <1>0, <1>10, <2>1, TypeReadersUntouched DEF Evict, TypeOK, FillsInv
<1>11. ASSUME NEW i \in Id, Expire(i) PROVE TypeInv'
  <2>1. cache' \in [Id -> Row] /\ \A j \in Id : cache'[j] \in {cache[j], NoRow}
    BY <1>0, <1>11 DEF Expire, TypeOK, Row
  <2> QED
    BY <1>0, <1>11, <2>1, TypeReadersUntouched DEF Expire, TypeOK, FillsInv, table
<1>12. ASSUME NEW i \in Id, Read(i) PROVE TypeInv'
  <2>1. CASE rows[i] = NoRow
    BY <1>0, <1>12, <2>1, TypeReadersUntouched DEF Read, TypeOK, FillsInv, table
  <2>2. CASE rows[i] # NoRow
    <3>1. rows[i] \in Solution /\ rows[i].time \in Int
      BY <1>0, <2>2, StoredTyped DEF Stored
    <3>2. fills' = fills \cup {<<i, rows[i]>>}
      BY <1>12, <2>2 DEF Read
    <3>3. fills' \subseteq Id \X Solution
      BY <1>0, <3>1, <3>2 DEF TypeOK
    <3>4. \A f \in fills' : rows[f[1]] # NoRow /\ f[2].time <= rows[f[1]].time
      BY <1>0, <2>2, <3>1, <3>2 DEF FillsInv
    <3> QED
      BY <1>0, <1>12, <3>3, <3>4, TypeReadersUntouched DEF Read, TypeOK, table
  <2> QED
    BY <2>1, <2>2
<1>13. ASSUME NEW i \in Id, NEW s \in Solution, Fill(i, s) PROVE TypeInv'
  <2>1. rows[i] # NoRow /\ s.time <= rows[i].time
    BY <1>0, <1>13 DEF Fill, FillsInv
  <2>2. \A j \in Id : cache'[j] = cache[j] \/ (j = i /\ cache'[j] = s)
    BY <1>0, <1>13 DEF Fill, TypeOK
  <2>3. cache' \in [Id -> Row]
    BY <1>0, <1>13 DEF Fill, TypeOK, Row
  <2> QED
    BY <1>0, <1>13, <2>1, <2>2, <2>3, TypeReadersUntouched DEF Fill, TypeOK, FillsInv, table
<1>14. ASSUME NEW i \in Id, NEW s \in Solution, StorageUpserts(i, s) PROVE TypeInv'
  <2>1. evicting' \subseteq Id
    BY <1>0, <1>14 DEF StorageUpserts, TypeOK
  <2>2. CASE Replaces(s, i)
    BY <1>14, <2>1, <2>2, TypeWritten DEF StorageUpserts
  <2>3. CASE ~Replaces(s, i)
    BY <1>0, <1>14, <2>1, <2>3, TypeReadersUntouched
       DEF StorageUpserts, elsewhere, point, walk, stats, TypeOK, FillsInv
  <2> QED
    BY <2>2, <2>3
<1>15. ASSUME NEW i \in Id, NEW s \in Solution, AnalysisInserts(i, s) PROVE TypeInv'
  BY <1>0, <1>15, TypeWritten DEF AnalysisInserts, Replaces, TypeOK
<1>16. CASE UNCHANGED vars
  BY <1>16 DEF vars, table, point, walk, stats, TypeInv, TypeOK, FillsInv
<1> QED
  BY Steps, <1>1, <1>2, <1>3, <1>4, <1>5, <1>6, <1>7, <1>8, <1>9, <1>10, <1>11, <1>12, <1>13,
     <1>14, <1>15, <1>16

\* Every variable has its type, and a key never holds a solution newer than the
\* row: late fills (routes/events.rs:223-242) can make it older only.
THEOREM TypeCorrect == Spec => []TypeOK
<1>1. TypeInv => TypeOK
  BY DEF TypeInv
<1> QED
  BY <1>1, TypeInit, TypeStep, PTL DEF Spec

-----------------------------------------------------------------------------
(* The walk returns what it should *)

LEMMA WalkInit == Init => WalkInv
  BY DEF Init, WalkInv, WalkIsFaithful

LEMMA WalkUntouched ==
    ASSUME WalkInv, UNCHANGED <<rows, walk>>
    PROVE  WalkInv'
  BY DEF WalkInv, WalkIsFaithful, ReturnedIsPassed, RestIsToCome, Behind, walk

\* A write moves the row away from what is still to come, or is a first row of
\* the event, which then was not returned.
LEMMA WalkWritten ==
    ASSUME TypeInv, WalkInv, NEW i \in Id, NEW s \in Solution, Replaces(s, i), Write(i, s),
           UNCHANGED elsewhere
    PROVE  WalkInv'
  <1>0. TypeOK
    BY DEF TypeInv
  <1>1. /\ query' = query /\ cursor' = cursor /\ returned' = returned /\ initial' = initial
        /\ complete' = complete /\ touched' = touched \cup {i}
    BY DEF Write, elsewhere
  <1>2. rows'[i] = s /\ \A j \in Id \ {i} : rows'[j] = rows[j]
    BY <1>0 DEF Write, TypeOK
  <1>3. s # NoRow /\ s.time \in Int
    BY EventApiAssumption
  <1>4. \A j \in Id \ {i} : Behind(j)' <=> Behind(j)
    BY <1>1, <1>2 DEF Behind
  <1>5. ASSUME ReturnedIsPassed PROVE ReturnedIsPassed'
    <2>1. ASSUME returned[i] = 1 PROVE ~Behind(i)'
      <3>1. cursor # NoCursor /\ rows[i] # NoRow /\ ~Behind(i)
        BY <1>5, <2>1 DEF ReturnedIsPassed
      <3>2. rows[i].time \in Int /\ s.time > rows[i].time
        BY <1>0, <3>1, StoredTyped DEF Replaces, Stored
      <3>3. cursor[1] \in Int /\ cursor[2] \in Nat /\ i \in Nat
        BY <1>0, <3>1, EventApiAssumption DEF TypeOK
      <3> QED
        BY <1>1, <1>2, <1>3, <3>1, <3>2, <3>3 DEF Behind
    <2> QED
      BY <1>1, <1>2, <1>3, <1>4, <1>5, <2>1 DEF ReturnedIsPassed
  <1>6. ASSUME RestIsToCome PROVE RestIsToCome'
    BY <1>1, <1>2, <1>4, <1>6 DEF RestIsToCome
  <1>7. WalkIsFaithful'
    BY <1>1 DEF WalkInv, WalkIsFaithful
  <1>8. query' # NoWalk => \A j \in Id \ touched' : initial'[j] = rows'[j]
    BY <1>1, <1>2 DEF WalkInv
  <1> QED
    BY <1>1, <1>5, <1>6, <1>7, <1>8 DEF WalkInv

\* An event on a page was not returned before.
LEMMA PageIsNew ==
    ASSUME WalkInv, query # NoWalk, ~complete, NEW i \in Page
    PROVE  i \in Id /\ returned[i] = 0
  BY DEF WalkInv, ReturnedIsPassed, Page, Found

LEMMA WalkTurnsPage ==
    ASSUME TypeInv, WalkInv, NextPage
    PROVE  WalkInv'
  <1>0. TypeOK /\ query # NoWalk /\ ~complete
    BY DEF TypeInv, NextPage
  <1>1. /\ rows' = rows /\ query' = query /\ initial' = initial /\ touched' = touched
        /\ \A i \in Id : returned'[i] = IF i \in Page THEN returned[i] + 1 ELSE returned[i]
    <2>1. \A i \in Id : returned[i] \in Nat
      BY <1>0 DEF TypeOK
    <2> QED
      BY <2>1 DEF NextPage, table
  <1>2. \A i \in Id : returned'[i] = IF i \in Page THEN 1 ELSE returned[i]
    BY <1>0, <1>1, PageIsNew
  <1>3. \A i \in Id : returned'[i] \in {0, 1}
    BY <1>2 DEF WalkInv
  <1>4. \A i \in Id \ touched : initial[i] = rows[i]
    BY <1>0 DEF WalkInv
  <1>5. CASE HasMore
    <2>1. cursor' = <<rows[Last].time, Last>> /\ complete' = complete
      BY <1>5 DEF NextPage
    <2>2. cursor' # NoCursor /\ cursor'[1] = rows[Last].time /\ cursor'[2] = Last
      BY <2>1 DEF NoCursor
    <2>3. \A j \in Id : Behind(j)' <=> Before(Last, j)
      <3>1. \A j \in Id : Behind(j)' <=>
                 \/ rows[j].time < rows[Last].time
                 \/ rows[j].time = rows[Last].time /\ j < Last
        BY <1>1, <2>2 DEF Behind
      <3> QED
        BY <3>1 DEF Before
    <2>4. Last \in Page /\ Last \in Found /\ Last \in Stored /\ Last \in Id
      BY <1>0, <1>5, LastOfPage, FoundIsStored DEF Page, Stored
    <2>5. ReturnedIsPassed'
      <3>1. ASSUME NEW j \in Page PROVE rows[j] # NoRow /\ ~Before(Last, j)
        <4>1. j \in Stored
          BY FoundIsStored DEF Page
        <4> QED
          BY <1>0, <1>5, <2>4, <4>1, LastOfPage, BeforeIsAnOrder DEF Stored
      <3>2. ASSUME NEW j \in Id, returned[j] = 1 PROVE rows[j] # NoRow /\ ~Before(Last, j)
        <4>1. cursor # NoCursor /\ rows[j] # NoRow /\ ~Behind(j)
          BY <1>0, <3>2 DEF WalkInv, ReturnedIsPassed
        <4>2. Behind(Last)
          BY <2>4 DEF Found
        <4>3. /\ rows[j].time \in Int /\ j \in Nat
              /\ rows[Last].time \in Int /\ Last \in Nat
              /\ cursor[1] \in Int /\ cursor[2] \in Nat
          BY <1>0, <2>4, <4>1, StoredTyped, EventApiAssumption DEF TypeOK, Stored
        <4> QED
          BY <4>1, <4>2, <4>3 DEF Behind, Before
      <3> QED
        BY <1>1, <1>2, <2>2, <2>3, <3>1, <3>2 DEF ReturnedIsPassed
    <2>6. RestIsToCome'
      <3> SUFFICES ASSUME NEW j \in Id \ touched, Matches(query, rows[j])
                   PROVE  returned'[j] = 1 \/ Before(Last, j)
        BY <1>1, <2>3 DEF RestIsToCome, Matches
      <3>1. CASE j \in Page \/ returned[j] = 1
        BY <1>2, <3>1
      <3>2. CASE j \notin Page /\ returned[j] # 1
        <4>1. j \in Found
          BY <1>0, <3>2 DEF WalkInv, RestIsToCome, Found
        <4> QED
          BY <1>0, <1>5, <3>2, <4>1, LastOfPage
      <3> QED
        BY <3>1, <3>2
    <2>7. WalkIsFaithful'
      BY <1>0, <1>3, <2>1 DEF WalkIsFaithful
    <2> QED
      BY <1>0, <1>1, <1>3, <1>4, <2>1, <2>5, <2>6, <2>7 DEF WalkInv
  <1>6. CASE ~HasMore
    <2>1. complete' = TRUE
      BY <1>6 DEF NextPage
    <2>2. Page = Found
      BY <1>0, <1>6, LastPage
    <2>3. ASSUME NEW i \in Id \ touched, Matches(query, rows[i]) PROVE returned'[i] = 1
      BY <1>0, <1>2, <2>2, <2>3 DEF WalkInv, RestIsToCome, Found
    <2>4. WalkIsFaithful'
      BY <1>1, <1>3, <1>4, <2>3 DEF WalkIsFaithful, Matches
    <2> QED
      BY <1>0, <1>1, <1>3, <1>4, <2>1, <2>4 DEF WalkInv
  <1> QED
    BY <1>5, <1>6

LEMMA WalkBegins ==
    ASSUME NEW q \in Query, TypeInv, BeginWalk(q)
    PROVE  WalkInv'
  <1>1. query' # NoWalk /\ cursor' = NoCursor /\ complete' = FALSE /\ initial' = rows'
    BY EventApiAssumption DEF BeginWalk, table
  <1>2. \A i \in Id : returned'[i] = 0
    BY DEF BeginWalk
  <1>3. RestIsToCome' /\ ReturnedIsPassed' /\ WalkIsFaithful'
    BY <1>1, <1>2 DEF RestIsToCome, ReturnedIsPassed, WalkIsFaithful, Behind
  <1> QED
    BY <1>1, <1>2, <1>3 DEF WalkInv

LEMMA WalkEnds ==
    ASSUME WalkInv, EndWalk
    PROVE  WalkInv'
  BY DEF WalkInv, EndWalk, WalkIsFaithful

LEMMA WalkStep == TypeInv /\ WalkInv /\ [Next]_vars => WalkInv'
<1> SUFFICES ASSUME TypeInv, WalkInv, [Next]_vars PROVE WalkInv'
  OBVIOUS
<1>1. CASE CountMiss \/ CountBand \/ CountDone \/ StatsExpire
  BY <1>1, WalkUntouched DEF CountMiss, CountBand, CountDone, StatsExpire, table
<1>2. ASSUME NEW c \in statsFills, StatsFill(c) PROVE WalkInv'
  BY <1>2, WalkUntouched DEF StatsFill, table
<1>3. ASSUME NEW i \in Id, Miss(i) \/ Evict(i) \/ Expire(i) \/ Read(i) PROVE WalkInv'
  BY <1>3, WalkUntouched DEF Miss, Evict, Expire, Read, table
<1>4. ASSUME NEW i \in Id, NEW s \in Solution, Fill(i, s) PROVE WalkInv'
  BY <1>4, WalkUntouched DEF Fill, table
<1>5. ASSUME NEW i \in Id, NEW s \in Solution, StorageUpserts(i, s) PROVE WalkInv'
  <2>1. CASE Replaces(s, i)
    BY <1>5, <2>1, WalkWritten DEF StorageUpserts
  <2>2. CASE ~Replaces(s, i)
    BY <1>5, <2>2, WalkUntouched DEF StorageUpserts, elsewhere, walk
  <2> QED
    BY <2>1, <2>2
<1>6. ASSUME NEW i \in Id, NEW s \in Solution, AnalysisInserts(i, s) PROVE WalkInv'
  BY <1>6, WalkWritten DEF AnalysisInserts, Replaces
<1>7. CASE UNCHANGED vars
  BY <1>7, WalkUntouched DEF vars, table
<1> QED
  BY Steps, <1>1, <1>2, <1>3, <1>4, <1>5, <1>6, <1>7, WalkTurnsPage, WalkBegins, WalkEnds

\* A client that follows next_cursor (db.rs:195-241) gets nothing twice and, at
\* the end, all that matched from the beginning and was not written since,
\* whatever the size of the page and whoever writes.
THEOREM WalkIsFaithfulCorrect == Spec => []WalkIsFaithful
<1>1. TypeInv /\ WalkInv => WalkIsFaithful
  BY DEF WalkInv
<1> QED
  BY <1>1, TypeInit, TypeStep, WalkInit, WalkStep, PTL DEF Spec

-----------------------------------------------------------------------------
(* The statistics count an event once *)

LEMMA CountInit == Init => CountInv
  BY DEF Init, CountInv, NoCount

LEMMA CountUntouched ==
    ASSUME CountInv, UNCHANGED <<rows, counts, moved>>
    PROVE  CountInv'
  BY DEF CountInv, InBand

LEMMA CountWritten ==
    ASSUME TypeOK, CountInv, NEW i \in Id, NEW s \in Solution, Write(i, s), UNCHANGED elsewhere
    PROVE  CountInv'
  <1>1. counts' = counts /\ moved' = moved \cup {i} /\ \A j \in Id \ {i} : rows'[j] = rows[j]
    BY DEF Write, elsewhere, TypeOK
  <1> QED
    BY <1>1 DEF CountInv, InBand

LEMMA CountStep == TypeInv /\ CountInv /\ [Next]_vars => CountInv'
<1> SUFFICES ASSUME TypeInv, CountInv, [Next]_vars PROVE CountInv'
  OBVIOUS
<1>0. TypeOK
  BY DEF TypeInv
<1>1. CASE CountMiss
  <2>1. counts' = <<Counted(1)>> /\ rows' = rows
    BY <1>1 DEF CountMiss, table
  <2>2. DOMAIN counts' = {1} /\ counts'[1] = Counted(1)
    BY <2>1
  <2> QED
    BY <2>1, <2>2 DEF CountInv, Counted, InBand
<1>2. CASE CountBand
  <2> DEFINE new == Len(counts) + 1
  <2>1. counts \in Seq(SUBSET Id) /\ rows' = rows /\ moved' = moved
    BY <1>0, <1>2 DEF TypeOK, Count, CountBand, table
  <2>2. counts' = Append(counts, Counted(new))
    BY <1>2 DEF CountBand
  <2>3. Counted(new) \in SUBSET Id
    BY DEF Counted
  <2>4. /\ DOMAIN counts' = DOMAIN counts \cup {new} /\ counts'[new] = Counted(new)
        /\ \A b \in DOMAIN counts : counts'[b] = counts[b]
    BY <2>1, <2>2, <2>3
  <2> QED
    BY <2>1, <2>4 DEF CountInv, Counted, InBand
<1>3. CASE CountDone
  <2>1. counts' = <<>>
    BY <1>3 DEF CountDone, NoCount
  <2> QED
    BY <2>1 DEF CountInv
<1>4. CASE NextPage \/ EndWalk \/ StatsExpire
  BY <1>4, CountUntouched DEF NextPage, EndWalk, StatsExpire, table, stats
<1>5. ASSUME NEW q \in Query, BeginWalk(q) PROVE CountInv'
  BY <1>5, CountUntouched DEF BeginWalk, table, stats
<1>6. ASSUME NEW c \in statsFills, StatsFill(c) PROVE CountInv'
  BY <1>6, CountUntouched DEF StatsFill, table
<1>7. ASSUME NEW i \in Id, Miss(i) \/ Evict(i) \/ Expire(i) \/ Read(i) PROVE CountInv'
  BY <1>7, CountUntouched DEF Miss, Evict, Expire, Read, table, stats
<1>8. ASSUME NEW i \in Id, NEW s \in Solution, Fill(i, s) PROVE CountInv'
  BY <1>8, CountUntouched DEF Fill, table, stats
<1>9. ASSUME NEW i \in Id, NEW s \in Solution, StorageUpserts(i, s) PROVE CountInv'
  <2>1. CASE Replaces(s, i)
    BY <1>0, <1>9, <2>1, CountWritten DEF StorageUpserts
  <2>2. CASE ~Replaces(s, i)
    BY <1>9, <2>2, CountUntouched DEF StorageUpserts, elsewhere
  <2> QED
    BY <2>1, <2>2
<1>10. ASSUME NEW i \in Id, NEW s \in Solution, AnalysisInserts(i, s) PROVE CountInv'
  BY <1>0, <1>10, CountWritten DEF AnalysisInserts
<1>11. CASE UNCHANGED vars
  BY <1>11, CountUntouched DEF vars, table, stats
<1> QED
  BY Steps, <1>1, <1>2, <1>3, <1>4, <1>5, <1>6, <1>7, <1>8, <1>9, <1>10, <1>11

\* The bands are half open and follow one another.
LEMMA OneBand ==
    ASSUME NEW r, r # NoRow, r.mag \in 0..(Top - 1)
    PROVE  \E b \in 1..5 : \A d \in 1..5 : InBand(d, r) <=> d = b
  <1>1. \A d \in 1..5 : d = 1 \/ d = 2 \/ d = 3 \/ d = 4 \/ d = 5
    OBVIOUS
  <1>2. /\ InBand(1, r) <=> 0 <= r.mag /\ r.mag < 20
        /\ InBand(2, r) <=> 20 <= r.mag /\ r.mag < 40
        /\ InBand(3, r) <=> 40 <= r.mag /\ r.mag < 60
        /\ InBand(4, r) <=> 60 <= r.mag /\ r.mag < 80
        /\ InBand(5, r) <=> 80 <= r.mag /\ r.mag < 1000
    BY DEF InBand, BANDS, Top
  <1>3. r.mag \in Int /\ 0 <= r.mag /\ r.mag < 1000
    BY DEF Top
  <1>4. CASE r.mag < 20
    <2> SUFFICES \A d \in 1..5 : InBand(d, r) <=> d = 1
      OBVIOUS
    <2> QED
      BY <1>1, <1>2, <1>3, <1>4
  <1>5. CASE 20 <= r.mag /\ r.mag < 40
    <2> SUFFICES \A d \in 1..5 : InBand(d, r) <=> d = 2
      OBVIOUS
    <2> QED
      BY <1>1, <1>2, <1>3, <1>5
  <1>6. CASE 40 <= r.mag /\ r.mag < 60
    <2> SUFFICES \A d \in 1..5 : InBand(d, r) <=> d = 3
      OBVIOUS
    <2> QED
      BY <1>1, <1>2, <1>3, <1>6
  <1>7. CASE 60 <= r.mag /\ r.mag < 80
    <2> SUFFICES \A d \in 1..5 : InBand(d, r) <=> d = 4
      OBVIOUS
    <2> QED
      BY <1>1, <1>2, <1>3, <1>7
  <1>8. CASE 80 <= r.mag
    <2> SUFFICES \A d \in 1..5 : InBand(d, r) <=> d = 5
      OBVIOUS
    <2> QED
      BY <1>1, <1>2, <1>3, <1>8
  <1> QED
    BY <1>3, <1>4, <1>5, <1>6, <1>7, <1>8

LEMMA CountedIsOnce == ASSUME TypeOK, CountInv PROVE CountedOnce
  <1> SUFFICES ASSUME Len(counts) = Len(BANDS), NEW i \in Id \ moved,
                      rows[i] # NoRow, rows[i].mag \in 0..(Top - 1)
               PROVE  \E b \in DOMAIN counts : \A d \in DOMAIN counts : i \in counts[d] <=> d = b
    BY DEF CountedOnce
  <1>1. DOMAIN counts = 1..5
    BY DEF TypeOK, Count, BANDS
  <1>2. \A d \in 1..5 : i \in counts[d] <=> InBand(d, rows[i])
    BY <1>1 DEF CountInv
  <1>3. PICK b \in 1..5 : \A d \in 1..5 : InBand(d, rows[i]) <=> d = b
    BY OneBand
  <1> QED
    BY <1>1, <1>2, <1>3

\* The five statements of GET /v1/stats (db.rs:355-402) run one after the
\* other; an event that is not written between them is in one answer.
THEOREM CountedOnceCorrect == Spec => []CountedOnce
<1>1. TypeInv /\ CountInv => CountedOnce
  BY CountedIsOnce DEF TypeInv
<1> QED
  BY <1>1, TypeInit, TypeStep, CountInit, CountStep, PTL DEF Spec

-----------------------------------------------------------------------------
(* The live page, which asks this API once and is told of the rest by the  *)
(* websocket service: module LiveClient, whose names and variables are its *)
(* own.                                                                    *)

(* The rank of a number in a finite set of numbers.                        *)
Below(S, k) == Cardinality({j \in S : j < k})

LEMMA BelowRises ==
    ASSUME NEW S \in SUBSET Int, IsFiniteSet(S), NEW k \in S
    PROVE  /\ Cardinality(S) \in Nat /\ Below(S, k) \in Nat /\ Below(S, k) < Cardinality(S)
           /\ \A l \in S : k < l => Below(S, k) < Below(S, l)
  <1>1. Cardinality(S) \in Nat
    BY FS_CardinalityType
  <1> DEFINE Low(j) == {i \in S : i < j}
  <1>2. \A j \in S : IsFiniteSet(Low(j)) /\ Cardinality(Low(j)) \in Nat
    BY FS_Subset, FS_CardinalityType
  <1>3. Low(k) \subseteq S /\ Low(k) # S
    OBVIOUS
  <1>4. Cardinality(Low(k)) < Cardinality(S)
    BY <1>1, <1>2, <1>3, FS_Subset
  <1>5. ASSUME NEW l \in S, k < l PROVE Cardinality(Low(k)) < Cardinality(Low(l))
    <2>1. \A j \in S : j < k => j < l
      BY <1>5
    <2>2. Low(k) \subseteq Low(l)
      BY <2>1
    <2>3. k \in Low(l) /\ k \notin Low(k)
      BY <1>5
    <2> HIDE DEF Low
    <2> QED
      BY <1>2, <2>2, <2>3, FS_Subset
  <1> QED
    BY <1>1, <1>2, <1>4, <1>5 DEF Below

\* Every rank below the size is somebody's, and nobody else's.
LEMMA RankedHasRank ==
    ASSUME NEW S \in SUBSET Int, IsFiniteSet(S), NEW n \in 0..(Cardinality(S) - 1)
    PROVE  Ranked(S, n) \in S /\ Below(S, Ranked(S, n)) = n
  <1> DEFINE T == 0..(Cardinality(S) - 1)
             f == [i \in S |-> Below(S, i)]
  <1>1. IsFiniteSet(T) /\ Cardinality(T) = Cardinality(S)
    BY FS_CardinalityType, FS_Interval
  <1>2. f \in [S -> T]
    BY BelowRises
  <1>3. \A i, j \in S : f[i] = f[j] => i = j
    <2> SUFFICES ASSUME NEW i \in S, NEW j \in S, Below(S, i) = Below(S, j), i # j PROVE FALSE
      OBVIOUS
    <2>1. i < j \/ j < i
      OBVIOUS
    <2> QED
      BY <2>1, BelowRises
  <1>4. f \in Injection(S, T)
    BY <1>2, <1>3 DEF Injection, IsInjective
  <1>5. f \in Surjection(S, T)
    BY <1>1, <1>4, FS_Injection
  <1>6. \E i \in S : Cardinality({j \in S : j < i}) = n
    BY <1>5 DEF Surjection, Below
  <1> DEFINE r == Ranked(S, n)
  <1>7. r \in S /\ Cardinality({j \in S : j < r}) = n
    BY <1>6 DEF Ranked
  <1> HIDE DEF r
  <1>8. r \in S /\ Below(S, r) = n
    BY <1>7 DEF Below
  <1> QED
    BY <1>8 DEF r

LEMMA RankedIsInjective ==
    ASSUME NEW S \in SUBSET Int, IsFiniteSet(S),
           NEW m \in 0..(Cardinality(S) - 1), NEW n \in 0..(Cardinality(S) - 1),
           Ranked(S, m) = Ranked(S, n)
    PROVE  m = n
  BY RankedHasRank

\* Every number of the set is the one of its rank.
LEMMA RankedIsReached ==
    ASSUME NEW S \in SUBSET Int, IsFiniteSet(S), NEW k \in S
    PROVE  Below(S, k) \in 0..(Cardinality(S) - 1) /\ Ranked(S, Below(S, k)) = k
  <1>1. Below(S, k) \in 0..(Cardinality(S) - 1)
    BY BelowRises
  <1> DEFINE r == Ranked(S, Below(S, k))
  <1>2. r \in S /\ Below(S, r) = Below(S, k)
    BY <1>1, RankedHasRank
  <1> HIDE DEF r
  <1>3. r = k
    <2>1. r \in Int /\ k \in Int
      BY <1>2
    <2>2. Below(S, r) \in Nat /\ (k < r => Below(S, k) < Below(S, r)) /\ (r < k => Below(S, r) < Below(S, k))
      BY <1>2, BelowRises
    <2> QED
      BY <1>2, <2>1, <2>2
  <1> QED
    BY <1>1, <1>3 DEF r

-----------------------------------------------------------------------------
(* What the two lists and the answer hold.  The answer and the list of     *)
(* events name an event once; a list is not longer than its limit.         *)

Distinct(list) == \A j, k \in DOMAIN list : list[j].id = list[k].id => j = k

LiveTyped ==
    /\ LiveTypeOK
    /\ pending \in received \cup {Nothing}
    /\ Len(answer) <= FirstPage /\ Len(events) <= MaxEvents /\ Len(alerts) <= MaxAlerts
    /\ \A k \in DOMAIN alerts : [type |-> "alert", id |-> alerts[k]] \in received

LiveOnce ==
    /\ \A j, k \in DOMAIN answer : answer[j] = answer[k] => j = k
    /\ Distinct(events)

\* A list of at most n entries with x before those of s.
Pushed(x, s, n) == Prefix(<<x>> \o s, n)

PutFirst(r, x, s, n) ==
    /\ Len(r) \in 1..n /\ DOMAIN r = 1..Len(r) /\ r[1] = x
    /\ \A k \in DOMAIN s : k < n => k + 1 \in DOMAIN r /\ r[k + 1] = s[k]
    /\ \A k \in DOMAIN r : k # 1 => k - 1 \in DOMAIN s /\ r[k] = s[k - 1]

LEMMA RowsPushed ==
    ASSUME NEW S, NEW s \in Seq(S), NEW x \in S, NEW n \in Nat \ {0}
    PROVE  Pushed(x, s, n) \in Seq(S) /\ PutFirst(Pushed(x, s, n), x, s, n)
  <1> DEFINE u == <<x>> \o s
             m == IF Len(u) < n THEN Len(u) ELSE n
  <1>1. u \in Seq(S) /\ Len(u) = Len(s) + 1 /\ u[1] = x /\ \A k \in 1..Len(s) : u[k + 1] = s[k]
    BY ConcatProperties
  <1>2. /\ m \in 1..Len(u) /\ m <= n /\ Len(s) \in Nat
        /\ \A k \in 1..Len(s) : k < n => k + 1 <= m
        /\ \A k \in 1..m : k # 1 => k - 1 \in 1..Len(s) /\ u[k] = s[k - 1]
    BY <1>1
  <1>3. Pushed(x, s, n) = SubSeq(u, 1, m)
    BY DEF Pushed, Prefix
  <1> HIDE DEF u, m
  <1>4. SubSeq(u, 1, m) \in Seq(S) /\ Len(SubSeq(u, 1, m)) = m /\ \A k \in 1..m : SubSeq(u, 1, m)[k] = u[k]
    BY <1>1, <1>2, SubSeqProperties
  <1>5. DOMAIN s = 1..Len(s) /\ DOMAIN SubSeq(u, 1, m) = 1..m
    BY <1>4
  <1> QED
    BY <1>1, <1>2, <1>3, <1>4, <1>5 DEF PutFirst

\* The list of events without the rows of i: distinct as before, all others,
\* and shorter exactly if i was there.
LEMMA RestIsOthers ==
    ASSUME LiveTypeOK, NEW i
    PROVE  /\ Rest(i) \in Seq(Item) /\ Len(Rest(i)) <= Len(events)
           /\ \A k \in DOMAIN Rest(i) : Rest(i)[k].id # i
           /\ Distinct(events) => Distinct(Rest(i))
           /\ \A k \in DOMAIN events : events[k].id # i =>
                \E l \in DOMAIN Rest(i) : Rest(i)[l] = events[k] /\ l <= k
           /\ i \in Shown(events) => Len(Rest(i)) < Len(events)
  <1> DEFINE O == Others(i)
             c == Cardinality(O)
             rest == Rest(i)
             From(n) == Ranked(O, n - 1)
  <1>1. events \in Seq(Item) /\ Len(events) \in Nat /\ DOMAIN events = 1..Len(events)
    BY DEF LiveTypeOK
  <1>2. /\ O \subseteq 1..Len(events) /\ O = {k \in DOMAIN events : events[k].id # i}
        /\ O \in SUBSET Int
    BY <1>1 DEF Others
  <1>3. /\ IsFiniteSet(1..Len(events)) /\ Cardinality(1..Len(events)) = Len(events)
        /\ IsFiniteSet(O) /\ c \in Nat /\ c <= Len(events)
        /\ O # 1..Len(events) => c < Len(events)
    <2> DEFINE D == 1..Len(events)
    <2>1. IsFiniteSet(D) /\ Cardinality(D) = Len(events)
      BY <1>1, FS_Interval
    <2>2. O \subseteq D
      BY <1>2
    <2> HIDE DEF D, O
    <2>3. IsFiniteSet(O) /\ c <= Cardinality(D) /\ (c = Cardinality(D) => O = D)
      BY <2>1, <2>2, FS_Subset
    <2>4. c \in Nat
      BY <2>3, FS_CardinalityType
    <2> QED
      BY <1>1, <2>1, <2>3, <2>4 DEF D
  <1>4. rest = [n \in 1..c |-> events[From(n)]]
    BY DEF Rest
  <1> HIDE DEF O, rest, c
  <1>5. \A n \in 1..c : From(n) \in O /\ From(n) \in 1..Len(events) /\ events[From(n)] \in Item
    <2> SUFFICES ASSUME NEW n \in 1..c PROVE From(n) \in O
      BY <1>1, <1>2, ElementOfSeq
    <2>1. n - 1 \in 0..(Cardinality(O) - 1)
      BY <1>3 DEF c
    <2> QED
      BY <1>2, <1>3, <2>1, RankedHasRank
  <1>6. rest \in Seq(Item) /\ Len(rest) = c /\ DOMAIN rest = 1..c
    BY <1>3, <1>4, <1>5
  <1>7. \A k \in DOMAIN rest : rest[k].id # i
    BY <1>2, <1>4, <1>5, <1>6
  <1>8. Distinct(events) => Distinct(rest)
    <2> SUFFICES ASSUME Distinct(events), NEW j \in 1..c, NEW k \in 1..c, rest[j].id = rest[k].id
                 PROVE  j = k
      BY <1>6 DEF Distinct
    <2>1. From(j) = From(k)
      BY <1>1, <1>4, <1>5 DEF Distinct
    <2>2. j - 1 \in 0..(Cardinality(O) - 1) /\ k - 1 \in 0..(Cardinality(O) - 1)
      BY <1>3 DEF c
    <2>3. j - 1 = k - 1
      BY <1>2, <1>3, <2>1, <2>2, RankedIsInjective
    <2> QED
      BY <2>3
  <1>9. ASSUME NEW k \in DOMAIN events, events[k].id # i
        PROVE  \E l \in DOMAIN rest : rest[l] = events[k] /\ l <= k
    <2>1. k \in O /\ k \in 1..Len(events)
      BY <1>1, <1>2, <1>9
    <2>2. Below(O, k) \in 0..(c - 1) /\ Ranked(O, Below(O, k)) = k
      BY <1>2, <1>3, <2>1, RankedIsReached DEF c
    <2>3. Below(O, k) <= k - 1
      <3>1. {j \in O : j < k} \subseteq 1..(k - 1)
        BY <1>2, <2>1
      <3>2. k - 1 \in Nat /\ 1 \in Int
        BY <2>1
      <3>3. IsFiniteSet(1..(k - 1)) /\ Cardinality(1..(k - 1)) = k - 1
        BY <3>2, FS_Interval
      <3> QED
        BY <3>1, <3>3, FS_Subset DEF Below
    <2> DEFINE l == Below(O, k) + 1
    <2>4. l \in 1..c /\ l - 1 = Below(O, k) /\ l <= k
      BY <1>3, <2>1, <2>2, <2>3
    <2> HIDE DEF l
    <2>5. rest[l] = events[k]
      BY <1>4, <2>2, <2>4
    <2> QED
      BY <1>6, <2>4, <2>5
  <1>10. i \in Shown(events) => c < Len(events)
    BY <1>1, <1>2, <1>3 DEF Shown
  <1> QED
    BY <1>3, <1>6, <1>7, <1>8, <1>9, <1>10 DEF rest

\* An event goes to the front of the list and its old row away.
LEMMA ListedIsPushed ==
    ASSUME LiveTypeOK, NEW i \in Event
    PROVE  LET row == [id |-> i, live |-> TRUE, alert |-> FALSE]
           IN  /\ Listed(i) = Pushed(row, Rest(i), MaxEvents)
               /\ Listed(i) \in Seq(Item)
               /\ PutFirst(Listed(i), row, Rest(i), MaxEvents)
  <1> DEFINE row == [id |-> i, live |-> TRUE, alert |-> FALSE]
  <1>1. row \in Item /\ MaxEvents \in Nat \ {0}
    BY LiveClientAssumption DEF Item
  <1>2. Rest(i) \in Seq(Item)
    BY RestIsOthers
  <1>3. Listed(i) = Pushed(row, Rest(i), MaxEvents)
    BY DEF Listed, Pushed
  <1> HIDE DEF row
  <1>4. /\ Pushed(row, Rest(i), MaxEvents) \in Seq(Item)
        /\ PutFirst(Pushed(row, Rest(i), MaxEvents), row, Rest(i), MaxEvents)
    BY <1>1, <1>2, RowsPushed, Zenon
  <1> QED
    BY <1>3, <1>4 DEF row

LEMMA ListedIsDistinct ==
    ASSUME LiveTypeOK, NEW i \in Event, Distinct(events)
    PROVE  Distinct(Listed(i)) /\ Len(Listed(i)) <= MaxEvents
  <1> DEFINE row == [id |-> i, live |-> TRUE, alert |-> FALSE]
             new == Listed(i)
             rest == Rest(i)
  <1>1. PutFirst(new, row, rest, MaxEvents) /\ row.id = i /\ MaxEvents \in Nat
    BY ListedIsPushed, LiveClientAssumption
  <1>2. Distinct(rest) /\ \A k \in DOMAIN rest : rest[k].id # i
    BY RestIsOthers
  <1> HIDE DEF row, new, rest
  <1>3. Distinct(new)
    <2> SUFFICES ASSUME NEW j \in DOMAIN new, NEW k \in DOMAIN new, new[j].id = new[k].id PROVE j = k
      BY DEF Distinct
    <2>1. /\ new[1].id = i /\ j \in Nat /\ k \in Nat
          /\ j # 1 => j - 1 \in DOMAIN rest /\ new[j] = rest[j - 1]
          /\ k # 1 => k - 1 \in DOMAIN rest /\ new[k] = rest[k - 1]
      BY <1>1 DEF PutFirst
    <2>2. CASE j = 1 \/ k = 1
      BY <1>2, <2>1, <2>2
    <2>3. CASE j # 1 /\ k # 1
      <3>1. j - 1 = k - 1
        BY <1>2, <2>1, <2>3 DEF Distinct
      <3> QED
        BY <2>1, <3>1
    <2> QED
      BY <2>2, <2>3
  <1>4. Len(new) <= MaxEvents
    BY <1>1 DEF PutFirst
  <1> QED
    BY <1>3, <1>4 DEF new

\* All other events stay in the list but for the last one of a full list that
\* did not have the event.
LEMMA ListedKeepsOthers ==
    ASSUME LiveTypeOK, Len(events) <= MaxEvents, NEW i \in Event,
           NEW x \in Shown(events)
    PROVE  \/ x \in Shown(Listed(i))
           \/ Len(events) = MaxEvents /\ i \notin Shown(events) /\ x = events[MaxEvents].id
  <1> DEFINE row == [id |-> i, live |-> TRUE, alert |-> FALSE]
             new == Listed(i)
             rest == Rest(i)
  <1>1. PutFirst(new, row, rest, MaxEvents) /\ row.id = i /\ MaxEvents \in Nat
    BY ListedIsPushed, LiveClientAssumption
  <1>2. PICK k \in DOMAIN events : events[k].id = x
    BY DEF Shown
  <1>3. /\ x # i => \E l \in DOMAIN rest : rest[l] = events[k] /\ l <= k
        /\ rest \in Seq(Item) /\ Len(rest) <= Len(events)
        /\ i \in Shown(events) => Len(rest) < Len(events)
    BY <1>2, RestIsOthers
  <1>4. Len(events) \in Nat /\ k \in 1..Len(events)
    BY <1>2 DEF LiveTypeOK
  <1>5. Shown(Listed(i)) = {new[j].id : j \in DOMAIN new}
    BY DEF Shown
  <1> HIDE DEF row, new, rest
  <1>6. CASE x = i
    BY <1>1, <1>5, <1>6 DEF PutFirst
  <1>7. CASE x # i
    <2>1. PICK l \in DOMAIN rest : rest[l] = events[k] /\ l <= k
      BY <1>3, <1>7
    <2>2. l \in 1..Len(rest) /\ Len(rest) \in Nat
      BY <1>3, <2>1
    <2>3. CASE l < MaxEvents
      <3>1. l + 1 \in DOMAIN new /\ new[l + 1].id = x
        BY <1>1, <1>2, <2>1, <2>3 DEF PutFirst
      <3> QED
        BY <1>5, <3>1
    <2>4. CASE ~(l < MaxEvents)
      <3>1. l = MaxEvents /\ k = MaxEvents /\ Len(rest) = MaxEvents /\ Len(events) = MaxEvents
        BY <1>1, <1>3, <1>4, <2>1, <2>2, <2>4
      <3> QED
        BY <1>2, <1>3, <1>4, <3>1
    <2> QED
      BY <2>3, <2>4
  <1> QED
    BY <1>6, <1>7 DEF new

\* An alert marks its event and lists nothing.
LEMMA MarkedIsSame ==
    ASSUME LiveTypeOK, NEW i
    PROVE  /\ Marked(i) \in Seq(Item) /\ Len(Marked(i)) = Len(events)
           /\ DOMAIN Marked(i) = DOMAIN events
           /\ \A k \in DOMAIN events : Marked(i)[k].id = events[k].id
           /\ Shown(Marked(i)) = Shown(events)
  <1> DEFINE new == Marked(i)
  <1>1. events \in Seq(Item) /\ Len(events) \in Nat /\ DOMAIN events = 1..Len(events)
    BY DEF LiveTypeOK
  <1>2. /\ DOMAIN new = 1..Len(events)
        /\ \A k \in 1..Len(events) : new[k] = IF events[k].id = i THEN [events[k] EXCEPT !.alert = TRUE]
                                                                 ELSE events[k]
        /\ new = [k \in 1..Len(events) |-> new[k]]
    BY <1>1 DEF Marked
  <1> HIDE DEF new
  <1>3. \A k \in 1..Len(events) : new[k] \in Item /\ new[k].id = events[k].id
    <2> SUFFICES ASSUME NEW k \in 1..Len(events)
                 PROVE  new[k] \in Item /\ new[k].id = events[k].id
      OBVIOUS
    <2>1. events[k] \in Item
      BY <1>1
    <2> QED
      BY <1>2, <2>1 DEF Item
  <1>4. new \in Seq(Item) /\ Len(new) = Len(events)
    BY <1>1, <1>2, <1>3
  <1>5. Shown(new) = Shown(events)
    BY <1>1, <1>2, <1>3 DEF Shown
  <1> QED
    BY <1>1, <1>2, <1>3, <1>4, <1>5 DEF new

\* The API names at most FirstPage events, each of them once.
LEMMA NewestIsDistinct ==
    ASSUME NEW S \in SUBSET Event
    PROVE  /\ Newest(S) \in Seq(Event) /\ Len(Newest(S)) <= FirstPage
           /\ \A j, k \in DOMAIN Newest(S) : Newest(S)[j] = Newest(S)[k] => j = k
  <1> DEFINE size == Cardinality(S)
             m == IF size < FirstPage THEN size ELSE FirstPage
             new == Newest(S)
  <1>1. IsFiniteSet(S) /\ size \in Nat /\ FirstPage \in Nat \ {0} /\ S \in SUBSET Int
    <2>1. IsFiniteSet(Event) /\ Event \subseteq Nat /\ FirstPage \in Nat \ {0}
      BY LiveClientAssumption
    <2>2. IsFiniteSet(S)
      BY <2>1, FS_Subset
    <2>3. S \in SUBSET Int
      BY <2>1
    <2> QED
      BY <2>1, <2>2, <2>3, FS_CardinalityType
  <1>2. new = [n \in 1..m |-> Ranked(S, size - n)]
    BY DEF Newest
  <1>3. m \in Nat /\ m <= FirstPage /\ \A n \in 1..m : size - n \in 0..(Cardinality(S) - 1)
    BY <1>1
  <1>4. \A n \in 1..m : Ranked(S, size - n) \in S
    <2> SUFFICES ASSUME NEW n \in 1..m PROVE Ranked(S, size - n) \in S
      OBVIOUS
    <2>1. size - n \in 0..(Cardinality(S) - 1)
      BY <1>3
    <2> HIDE DEF size
    <2> QED
      BY <1>1, <2>1, RankedHasRank
  <1>5. ASSUME NEW j \in 1..m, NEW k \in 1..m, Ranked(S, size - j) = Ranked(S, size - k)
        PROVE  j = k
    <2>1. size - j \in 0..(Cardinality(S) - 1) /\ size - k \in 0..(Cardinality(S) - 1)
      BY <1>3
    <2>2. size - j = size - k
      <3> HIDE DEF size
      <3> QED
        BY <1>1, <1>5, <2>1, RankedIsInjective
    <2> QED
      BY <1>1, <2>2
  <1> HIDE DEF size, m, new
  <1>6. new \in Seq(Event) /\ Len(new) = m /\ DOMAIN new = 1..m
    BY <1>2, <1>3, <1>4
  <1>7. \A j, k \in 1..m : new[j] = new[k] => j = k
    BY <1>2, <1>5
  <1> QED
    BY <1>3, <1>6, <1>7 DEF new

-----------------------------------------------------------------------------
(* The steps of the page *)

LEMMA LiveSteps ==
    ASSUME [LiveNext]_liveVars
    PROVE  \/ OnOpen \/ OnClose \/ Connect \/ Cut
           \/ \E m \in Message : Send(m)
           \/ OnMessage \/ ShowEvent \/ ShowAlert
           \/ Answer \/ Loaded \/ LoadFails
           \/ UNCHANGED liveVars
  BY DEF LiveNext, Browser

LEMMA LiveInitTyped == LiveInit => LiveTyped /\ LiveOnce
  <1> SUFFICES ASSUME LiveInit PROVE LiveTyped /\ LiveOnce
    OBVIOUS
  <1>1. FirstPage \in Nat \ {0} /\ MaxEvents \in Nat \ {0} /\ MaxAlerts \in Nat \ {0} /\ Capacity \in Nat \ {0}
    BY LiveClientAssumption
  <1>2. LiveTypeOK
    <2>1. \A S : <<>> \in Seq(S)
      OBVIOUS
    <2>2. /\ inbox \in Seq(Message) /\ answer \in Seq(Event)
          /\ events \in Seq(Item) /\ alerts \in Seq(Event) /\ Len(inbox) <= Capacity
      BY <1>1, <2>1 DEF LiveInit
    <2> QED
      BY <2>2 DEF LiveInit, LiveTypeOK
  <1>3. LiveTyped
    BY <1>1, <1>2 DEF LiveInit, LiveTyped
  <1> QED
    BY <1>3 DEF LiveInit, LiveOnce, Distinct

\* The connection and the messages on their way.
LEMMA LiveSocketTyped ==
    ASSUME LiveTyped, LiveOnce,
           \/ OnOpen \/ OnClose \/ Connect \/ Cut
           \/ \E m \in Message : Send(m)
    PROVE  LiveTyped' /\ LiveOnce' /\ UNCHANGED <<pending, events, alerts, received, excused>>
  <1>1. UNCHANGED <<pending, fetch, answer, events, alerts, received, excused>>
    BY DEF OnOpen, OnClose, Connect, Cut, Send, page
  <1>2. /\ link' \in BOOLEAN /\ timer' \in BOOLEAN /\ sent' \in Nat /\ failures' \in Nat
        /\ status' \in {"disconnected", "connecting", "connected"}
    <2>1. /\ link \in BOOLEAN /\ timer \in BOOLEAN /\ sent \in Nat /\ failures \in Nat
          /\ status \in {"disconnected", "connecting", "connected"}
      BY DEF LiveTyped, LiveTypeOK
    <2>2. /\ link' \in {link, TRUE, FALSE} /\ timer' \in {timer, TRUE, FALSE}
          /\ status' \in {status, "disconnected", "connecting", "connected"}
      BY DEF OnOpen, OnClose, Connect, Cut, Send
    <2>3. sent' \in {sent, sent + 1} /\ failures' \in {failures, failures + 1}
      BY DEF OnOpen, OnClose, Connect, Cut, Send, Failure
    <2>4. sent' \in Nat /\ failures' \in Nat
      BY <2>1, <2>3
    <2>5. link' \in BOOLEAN /\ timer' \in BOOLEAN
      BY <2>1, <2>2
    <2> QED
      BY <2>1, <2>2, <2>4, <2>5
  <1>3. inbox' \in Seq(Message) /\ Len(inbox') <= Capacity
    <2>1. inbox \in Seq(Message) /\ Len(inbox) <= Capacity /\ Capacity \in Nat
      BY LiveClientAssumption DEF LiveTyped, LiveTypeOK
    <2>2. CASE inbox' = inbox
      BY <2>1, <2>2
    <2>3. ASSUME NEW m \in Message, inbox' = Append(inbox, m), Len(inbox) < Capacity
          PROVE  inbox' \in Seq(Message) /\ Len(inbox') <= Capacity
      BY <2>1, <2>3, AppendProperties
    <2>4. ASSUME NEW n \in 0..Len(inbox), inbox' = SubSeq(inbox, 1, n)
          PROVE  inbox' \in Seq(Message) /\ Len(inbox') <= Capacity
      <3>1. \A k \in 1..n : inbox[k] \in Message
        BY <2>1
      <3>2. SubSeq(inbox, 1, n) \in Seq(Message) /\ Len(SubSeq(inbox, 1, n)) = n
        BY <3>1, <2>1, SubSeqProperties
      <3> QED
        BY <2>1, <2>4, <3>2
    <2> QED
      BY <2>2, <2>3, <2>4 DEF OnOpen, OnClose, Connect, Cut, Send
  <1>4. LiveTypeOK'
    BY <1>1, <1>2, <1>3 DEF LiveTyped, LiveTypeOK
  <1> QED
    BY <1>1, <1>4 DEF LiveTyped, LiveOnce, Distinct

LEMMA LiveStep == LiveTyped /\ LiveOnce /\ [LiveNext]_liveVars => LiveTyped' /\ LiveOnce'
<1> SUFFICES ASSUME LiveTyped, LiveOnce, [LiveNext]_liveVars PROVE LiveTyped' /\ LiveOnce'
  OBVIOUS
<1>0. /\ FirstPage \in Nat \ {0} /\ MaxEvents \in Nat \ {0} /\ MaxAlerts \in Nat \ {0} /\ FirstPage <= MaxEvents
      /\ Nothing \notin Message
  BY LiveClientAssumption
<1>1. CASE \/ OnOpen \/ OnClose \/ Connect \/ Cut
           \/ \E m \in Message : Send(m)
  BY <1>1, LiveSocketTyped
<1>2. CASE OnMessage
  <2>1. inbox \in Seq(Message) /\ inbox # <<>> /\ Len(inbox) <= Capacity /\ Capacity \in Nat
    BY <1>2, LiveClientAssumption DEF LiveTyped, LiveTypeOK, OnMessage
  <2>2. /\ Head(inbox) \in Message /\ Tail(inbox) \in Seq(Message)
        /\ Len(Tail(inbox)) <= Capacity
    BY <2>1, HeadTailProperties
  <2>3. received' \subseteq Message /\ excused' \subseteq received' /\ pending' \in received'
    BY <1>2, <2>2 DEF LiveTyped, LiveTypeOK, OnMessage
  <2>4. LiveTypeOK'
    BY <1>2, <2>2, <2>3 DEF LiveTyped, LiveTypeOK, OnMessage
  <2> QED
    BY <1>2, <2>3, <2>4 DEF LiveTyped, LiveOnce, Distinct, OnMessage
<1>3. CASE ShowEvent
  <2>1. pending \in Message /\ pending.id \in Event
    BY <1>3 DEF LiveTyped, LiveTypeOK, ShowEvent, Message
  <2>2. /\ events' = Listed(pending.id) /\ pending' = Nothing
        /\ UNCHANGED <<link, inbox, status, timer, fetch, answer, alerts, received, sent, failures>>
    BY <1>3 DEF ShowEvent, socket
  <2>3. events' \in Seq(Item) /\ Distinct(events') /\ Len(events') <= MaxEvents
    BY <2>1, <2>2, ListedIsPushed, ListedIsDistinct DEF LiveTyped, LiveOnce
  <2>4. excused' \subseteq received'
    BY <1>3, <2>2 DEF LiveTyped, LiveTypeOK, ShowEvent, EventMessages
  <2>5. LiveTypeOK'
    BY <2>2, <2>3, <2>4 DEF LiveTyped, LiveTypeOK
  <2> QED
    BY <2>2, <2>3, <2>5 DEF LiveTyped, LiveOnce, Distinct
<1>4. CASE ShowAlert
  <2>1. pending \in received /\ pending \in Message /\ pending.id \in Event /\ pending.type = "alert"
    BY <1>4 DEF LiveTyped, LiveTypeOK, ShowAlert, Message
  <2>2. /\ events' = Marked(pending.id) /\ pending' = Nothing
        /\ alerts' = Pushed(pending.id, alerts, MaxAlerts)
        /\ UNCHANGED <<link, inbox, status, timer, fetch, answer, received, sent, failures>>
    BY <1>4 DEF ShowAlert, socket, Pushed
  <2>3. events' \in Seq(Item) /\ Distinct(events') /\ Len(events') <= MaxEvents
    <3>1. LiveTypeOK /\ Distinct(events) /\ Len(events) <= MaxEvents
      BY DEF LiveTyped, LiveOnce
    <3> QED
      BY <2>2, <3>1, MarkedIsSame DEF Distinct
  <2>4. /\ alerts' \in Seq(Event) /\ Len(alerts') <= MaxAlerts
        /\ \A k \in DOMAIN alerts' : [type |-> "alert", id |-> alerts'[k]] \in received
    <3>1. alerts \in Seq(Event)
      BY DEF LiveTyped, LiveTypeOK
    <3>2. /\ Pushed(pending.id, alerts, MaxAlerts) \in Seq(Event)
          /\ PutFirst(Pushed(pending.id, alerts, MaxAlerts), pending.id, alerts, MaxAlerts)
      BY <1>0, <2>1, <3>1, RowsPushed, Zenon
    <3>3. PutFirst(alerts', pending.id, alerts, MaxAlerts) /\ alerts' \in Seq(Event)
      BY <2>2, <3>2
    <3>4. [type |-> "alert", id |-> pending.id] = pending
      BY <2>1 DEF Message
    <3>5. \A k \in DOMAIN alerts : [type |-> "alert", id |-> alerts[k]] \in received
      BY DEF LiveTyped
    <3>6. ASSUME NEW k \in DOMAIN alerts' PROVE [type |-> "alert", id |-> alerts'[k]] \in received
      BY <2>1, <3>3, <3>4, <3>5 DEF PutFirst
    <3> QED
      BY <1>0, <3>3, <3>6 DEF PutFirst
  <2>5. excused' \subseteq received'
    <3>1. Len(alerts) = MaxAlerts => [type |-> "alert", id |-> alerts[MaxAlerts]] \in received
      BY <1>0 DEF LiveTyped, LiveTypeOK
    <3> QED
      BY <1>4, <2>2, <3>1 DEF LiveTyped, LiveTypeOK, ShowAlert
  <2>6. LiveTypeOK'
    BY <2>2, <2>3, <2>4, <2>5 DEF LiveTyped, LiveTypeOK
  <2> QED
    BY <2>2, <2>3, <2>4, <2>6 DEF LiveTyped, LiveOnce, Distinct
<1>5. CASE Answer
  <2>1. /\ fetch' = "answered"
        /\ UNCHANGED <<link, inbox, status, timer, pending, events, alerts, received, excused, sent, failures>>
    BY <1>5 DEF Answer, socket
  <2>2. PICK T \in SUBSET Event : answer' = Newest(T)
    BY <1>5 DEF Answer
  <2>3. /\ answer' \in Seq(Event) /\ Len(answer') <= FirstPage
        /\ \A j, k \in DOMAIN answer' : answer'[j] = answer'[k] => j = k
    BY <2>2, NewestIsDistinct
  <2>4. LiveTypeOK'
    BY <2>1, <2>3 DEF LiveTyped, LiveTypeOK
  <2> QED
    BY <2>1, <2>3, <2>4 DEF LiveTyped, LiveOnce, Distinct
<1>6. CASE Loaded
  <2>1. /\ events' = [k \in DOMAIN answer |-> [id |-> answer[k], live |-> FALSE, alert |-> FALSE]]
        /\ fetch' = "done" /\ answer' = <<>>
        /\ UNCHANGED <<link, inbox, status, timer, pending, alerts, received, sent, failures>>
    BY <1>6 DEF Loaded, socket
  <2>2. answer \in Seq(Event) /\ Len(answer) \in Nat /\ DOMAIN answer = 1..Len(answer) /\ Len(answer) <= FirstPage
    BY DEF LiveTyped, LiveTypeOK
  <2>3. /\ events' \in Seq(Item) /\ Len(events') = Len(answer) /\ DOMAIN events' = 1..Len(answer)
        /\ \A k \in 1..Len(answer) : events'[k].id = answer[k]
    <3>1. \A k \in 1..Len(answer) : [id |-> answer[k], live |-> FALSE, alert |-> FALSE] \in Item
      BY <2>2 DEF Item
    <3> QED
      BY <2>1, <2>2, <3>1
  <2>4. Distinct(events') /\ Len(events') <= MaxEvents
    BY <1>0, <2>2, <2>3 DEF LiveOnce, Distinct
  <2>5. excused' \subseteq received'
    BY <1>6, <2>1 DEF LiveTyped, LiveTypeOK, Loaded, EventMessages
  <2>6. LiveTypeOK'
    BY <2>1, <2>3, <2>5 DEF LiveTyped, LiveTypeOK
  <2> QED
    BY <1>0, <2>1, <2>4, <2>6 DEF LiveTyped, LiveOnce, Distinct
<1>7. CASE LoadFails
  <2>1. /\ fetch' = "done" /\ answer' = <<>>
        /\ UNCHANGED <<link, inbox, status, timer, pending, events, alerts, received, excused, sent>>
        /\ failures' = failures + 1
    BY <1>7 DEF LoadFails, socket, Failure
  <2>2. LiveTypeOK'
    BY <2>1 DEF LiveTyped, LiveTypeOK
  <2> QED
    BY <1>0, <2>1, <2>2 DEF LiveTyped, LiveOnce, Distinct
<1>8. CASE UNCHANGED liveVars
  <2>1. UNCHANGED <<link, inbox, status, timer>> /\ UNCHANGED <<sent, failures>>
        /\ UNCHANGED <<pending, fetch, answer, events, alerts, received, excused>>
    BY <1>8 DEF liveVars, socket, page
  <2>2. LiveTypeOK'
    BY <2>1 DEF LiveTyped, LiveTypeOK
  <2> QED
    BY <2>1, <2>2 DEF LiveTyped, LiveOnce, Distinct
<1> QED
  BY <1>1, <1>2, <1>3, <1>4, <1>5, <1>6, <1>7, <1>8, LiveSteps

\* The variables of AppShell and useWebSocket have the values of TypeOK, and
\* only what was received is excused.
THEOREM LiveTypeCorrect == LiveSpec => []LiveTypeOK
<1>1. LiveTyped /\ LiveOnce => LiveTypeOK
  BY DEF LiveTyped
<1>2. LiveInit => LiveTyped /\ LiveOnce
  BY LiveInitTyped
<1>3. LiveTyped /\ LiveOnce /\ [LiveNext]_liveVars => LiveTyped' /\ LiveOnce'
  BY LiveStep
<1> QED
  BY <1>1, <1>2, <1>3, PTL DEF LiveSpec

\* Whatever is sent, repeated, answered late or cut off, the page shows an
\* event in one row of its list (AppShell.tsx), for any sizes with a page no
\* longer than the list.
THEOREM RowsAreUniqueCorrect == LiveSpec => []RowsAreUnique
<1>1. LiveTyped /\ LiveOnce => RowsAreUnique
  BY DEF LiveTyped, LiveOnce, Distinct, RowsAreUnique
<1>2. LiveInit => LiveTyped /\ LiveOnce
  BY LiveInitTyped
<1>3. LiveTyped /\ LiveOnce /\ [LiveNext]_liveVars => LiveTyped' /\ LiveOnce'
  BY LiveStep
<1> QED
  BY <1>1, <1>2, <1>3, PTL DEF LiveSpec

\* A message the browser was given is pending, on the page or excused.
OnPage(m) ==
    \/ m.type = "earthquake" /\ m.id \in Shown(events)
    \/ m.type = "alert" /\ \E k \in DOMAIN alerts : alerts[k] = m.id

LEMMA ReasonStep ==
    ASSUME LiveTyped, LiveOnce, MissingHasAReason, [LiveNext]_liveVars
    PROVE  MissingHasAReason'
<1>0. /\ FirstPage \in Nat \ {0} /\ MaxEvents \in Nat \ {0} /\ MaxAlerts \in Nat \ {0}
      /\ Nothing \notin Message
  BY LiveClientAssumption
<1>1. \A m \in received \ excused : m = pending \/ OnPage(m)
  BY DEF MissingHasAReason, OnPage
<1>2. received \subseteq Message /\ LiveTypeOK /\ Len(events) <= MaxEvents
  BY DEF LiveTyped, LiveTypeOK
<1> SUFFICES ASSUME NEW m \in received', m \notin excused' PROVE m = pending' \/ OnPage(m)'
  BY DEF MissingHasAReason, OnPage
<1>3. CASE UNCHANGED <<pending, events, alerts, received, excused>>
  BY <1>1, <1>3 DEF OnPage, Shown
<1>4. CASE OnMessage
  <2>1. /\ pending' = Head(inbox) /\ received' = received \cup {Head(inbox)}
        /\ excused' = IF pending = Nothing THEN excused ELSE excused \cup {pending}
        /\ UNCHANGED <<events, alerts>>
    BY <1>4 DEF OnMessage
  <2>2. CASE m = Head(inbox)
    BY <2>1, <2>2
  <2>3. CASE m # Head(inbox)
    <3>1. m \in received \ excused /\ m # pending
      BY <1>0, <1>2, <2>1, <2>3
    <3> QED
      BY <1>1, <2>1, <3>1 DEF OnPage, Shown
  <2> QED
    BY <2>2, <2>3
<1>5. CASE ShowEvent
  <2>1. /\ pending \in Message /\ pending.type = "earthquake" /\ pending.id \in Event
        /\ events' = Listed(pending.id) /\ UNCHANGED <<alerts, received>>
        /\ excused' = IF Len(events) = MaxEvents /\ pending.id \notin Shown(events)
                        THEN excused \cup EventMessages({events[MaxEvents].id}) ELSE excused
    BY <1>2, <1>5 DEF ShowEvent, LiveTypeOK, Message
  <2>2. m \in received \ excused /\ m \in Message
    BY <1>2, <2>1
  <2>3. CASE m = pending
    <3>1. Shown(Listed(pending.id)) = {Listed(pending.id)[k].id : k \in DOMAIN Listed(pending.id)}
      BY DEF Shown
    <3>2. 1 \in DOMAIN Listed(pending.id) /\ Listed(pending.id)[1].id = pending.id
      <4> DEFINE new == Listed(pending.id)
                 row == [id |-> pending.id, live |-> TRUE, alert |-> FALSE]
      <4>1. PutFirst(new, row, Rest(pending.id), MaxEvents) /\ row.id = pending.id
        BY <1>2, <2>1, ListedIsPushed
      <4> HIDE DEF new, row
      <4>2. 1 \in DOMAIN new /\ new[1].id = pending.id
        BY <1>0, <4>1 DEF PutFirst
      <4> QED
        BY <4>2 DEF new
    <3>3. pending.id \in Shown(events)'
      BY <2>1, <3>1, <3>2 DEF Shown
    <3> QED
      BY <2>1, <2>3, <3>3 DEF OnPage
  <2>4. CASE m.type = "earthquake" /\ m.id \in Shown(events)
    <3>1. \/ m.id \in Shown(Listed(pending.id))
          \/ Len(events) = MaxEvents /\ pending.id \notin Shown(events) /\ m.id = events[MaxEvents].id
      BY <1>2, <2>1, <2>4, ListedKeepsOthers
    <3>2. m = [type |-> "earthquake", id |-> m.id]
      BY <2>2, <2>4 DEF Message
    <3>3. m.id \in Shown(Listed(pending.id))
      BY <2>1, <2>2, <3>1, <3>2 DEF EventMessages
    <3> QED
      BY <2>1, <2>4, <3>3 DEF OnPage, Shown
  <2>5. CASE m.type = "alert" /\ \E k \in DOMAIN alerts : alerts[k] = m.id
    BY <2>1, <2>5 DEF OnPage
  <2> QED
    BY <1>1, <2>2, <2>3, <2>4, <2>5 DEF OnPage
<1>6. CASE ShowAlert
  <2>1. /\ pending \in Message /\ pending.type = "alert" /\ pending.id \in Event
        /\ events' = Marked(pending.id) /\ alerts' = Pushed(pending.id, alerts, MaxAlerts)
        /\ received' = received
        /\ excused' = IF Len(alerts) = MaxAlerts
                        THEN excused \cup {[type |-> "alert", id |-> alerts[MaxAlerts]]} ELSE excused
    BY <1>2, <1>6 DEF ShowAlert, LiveTypeOK, Message, Pushed
  <2>2. m \in received \ excused /\ m \in Message
    BY <1>2, <2>1
  <2>3. alerts \in Seq(Event) /\ Len(alerts) \in Nat /\ DOMAIN alerts = 1..Len(alerts) /\ Len(alerts) <= MaxAlerts
    BY DEF LiveTyped, LiveTypeOK
  <2>4. PutFirst(alerts', pending.id, alerts, MaxAlerts)
    <3>1. PutFirst(Pushed(pending.id, alerts, MaxAlerts), pending.id, alerts, MaxAlerts)
      BY <1>0, <2>1, <2>3, RowsPushed, Zenon
    <3> QED
      BY <2>1, <3>1
  <2>5. CASE m = pending
    <3>1. 1 \in DOMAIN alerts' /\ alerts'[1] = m.id
      BY <2>4, <2>5 DEF PutFirst
    <3> QED
      BY <2>1, <2>5, <3>1 DEF OnPage
  <2>6. CASE m.type = "earthquake" /\ m.id \in Shown(events)
    <3>1. Shown(Marked(pending.id)) = Shown(events)
      BY <1>2, MarkedIsSame
    <3>2. Shown(events)' = Shown(Marked(pending.id))
      BY <2>1 DEF Shown
    <3> QED
      BY <2>6, <3>1, <3>2 DEF OnPage
  <2>7. CASE m.type = "alert" /\ \E k \in DOMAIN alerts : alerts[k] = m.id
    <3>1. PICK k \in DOMAIN alerts : alerts[k] = m.id
      BY <2>7
    <3>2. k \in 1..Len(alerts)
      BY <2>3
    <3>3. m = [type |-> "alert", id |-> alerts[k]]
      BY <2>2, <2>7, <3>1 DEF Message
    <3>4. k < MaxAlerts
      <4>1. k = MaxAlerts => Len(alerts) = MaxAlerts
        <5> DEFINE n == Len(alerts)
        <5>1. n \in Nat /\ n <= MaxAlerts /\ k \in 1..n
          BY <2>3, <3>2
        <5> HIDE DEF n
        <5>2. k = MaxAlerts => n = MaxAlerts
          BY <1>0, <5>1
        <5> QED
          BY <5>2 DEF n
      <4>2. k # MaxAlerts
        BY <2>1, <3>3, <4>1
      <4> QED
        BY <1>0, <2>3, <3>2, <4>2
    <3>5. k + 1 \in DOMAIN alerts' /\ alerts'[k + 1] = m.id
      BY <2>4, <3>1, <3>4 DEF PutFirst
    <3> QED
      BY <2>7, <3>5 DEF OnPage
  <2> QED
    BY <1>1, <2>2, <2>5, <2>6, <2>7 DEF OnPage
<1>7. CASE Loaded
  <2>1. /\ UNCHANGED <<pending, alerts, received>>
        /\ excused' = excused \cup EventMessages(Shown(events) \ Shown(events)')
    BY <1>7 DEF Loaded, Shown
  <2>2. m \in received \ excused /\ m \in Message
    BY <1>2, <2>1
  <2>3. CASE m.type = "earthquake" /\ m.id \in Shown(events)
    <3>1. m = [type |-> "earthquake", id |-> m.id]
      BY <2>2, <2>3 DEF Message
    <3>2. m.id \in Shown(events)'
      BY <2>1, <2>2, <2>3, <3>1 DEF EventMessages
    <3> QED
      BY <2>3, <3>2 DEF OnPage
  <2>4. CASE m = pending \/ (m.type = "alert" /\ \E k \in DOMAIN alerts : alerts[k] = m.id)
    BY <2>1, <2>4 DEF OnPage
  <2> QED
    BY <1>1, <2>2, <2>3, <2>4 DEF OnPage
<1>8. CASE \/ OnOpen \/ OnClose \/ Connect \/ Cut
           \/ \E k \in Message : Send(k)
  BY <1>3, <1>8, LiveSocketTyped
<1>9. CASE Answer \/ LoadFails \/ UNCHANGED liveVars
  BY <1>3, <1>9 DEF Answer, LoadFails, liveVars, page
<1> QED
  BY <1>4, <1>5, <1>6, <1>7, <1>8, <1>9, LiveSteps

\* useWebSocket keeps one message and AppShell two lists: what a browser was
\* given is shown or has been replaced before it could be.
THEOREM MissingHasAReasonCorrect == LiveSpec => []MissingHasAReason
<1>1. LiveInit => LiveTyped /\ LiveOnce
  BY LiveInitTyped
<1>2. LiveInit => MissingHasAReason
  BY DEF LiveInit, MissingHasAReason
<1>3. LiveTyped /\ LiveOnce /\ [LiveNext]_liveVars => LiveTyped' /\ LiveOnce'
  BY LiveStep
<1>4. LiveTyped /\ LiveOnce /\ MissingHasAReason /\ [LiveNext]_liveVars => MissingHasAReason'
  BY ReasonStep
<1> QED
  BY <1>1, <1>2, <1>3, <1>4, PTL DEF LiveSpec
=============================================================================
