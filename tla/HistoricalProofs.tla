-------------------------- MODULE HistoricalProofs --------------------------
(***************************************************************************)
(* The historical job leaves no gap but at the seams of its queries, for   *)
(* every page limit, window, tick and period, all failures and restarts    *)
(* and every catalogue.                                                    *)
(*                                                                         *)
(* Seconds are multiples of Tick, which is all that is used of the         *)
(* division.  The invariant is that the events before the cursor are       *)
(* stored or at a seam, and those up to the end of the page's last second  *)
(* on the page or at its seam.                                             *)
(***************************************************************************)
EXTENDS Historical, FiniteSetTheorems, WellFoundedInduction, TLAPS

-----------------------------------------------------------------------------
(* Numbers *)

LEMMA LargestNatural ==
    ASSUME NEW S, S \subseteq Nat, S # {}, NEW b \in Nat, \A t \in S : t <= b
    PROVE  \E m \in S : \A t \in S : t <= m
  <1> DEFINE R == {rs \in Nat \X Nat : rs[1] < rs[2]}
             T == {b - t : t \in S}
  <1>1. IsWellFoundedOn(R, Nat)
    BY NatLessThanWellFounded DEF OpToRel
  <1>2. \A t \in S : b - t \in Nat
    OBVIOUS
  <1>3. T \subseteq Nat
    BY <1>2
  <1>4. T # {}
    OBVIOUS
  <1>5. PICK x \in T : \A y \in T : ~(<<y, x>> \in R)
    BY <1>1, <1>3, <1>4, WFMin, Zenon
  <1>6. PICK m \in S : x = b - m
    BY <1>5
  <1>7. ASSUME NEW t \in S PROVE t <= m
    <2>1. ~(<<b - t, b - m>> \in R)
      BY <1>5, <1>6
    <2> QED BY <2>1, <1>2
  <1> QED BY <1>7

LEMMA Multiples ==
    ASSUME NEW q \in Nat, NEW r \in Nat, q * Tick < r * Tick
    PROVE  q * Tick + Tick <= r * Tick
  <1>1. q < r
    <2> SUFFICES ASSUME r <= q PROVE FALSE
      OBVIOUS
    <2>1. PICK d \in Nat : q = r + d
      OBVIOUS
    <2>2. q * Tick = r * Tick + d * Tick
      BY <2>1, HistoricalAssumption
    <2>3. d * Tick \in Nat /\ r * Tick \in Nat
      BY HistoricalAssumption
    <2> QED BY <2>2, <2>3
  <1>2. PICK d \in Nat : r = q + 1 + d
    BY <1>1
  <1>3. r * Tick = q * Tick + Tick + d * Tick
    BY <1>2, HistoricalAssumption
  <1>4. d * Tick \in Nat /\ q * Tick \in Nat /\ Tick \in Nat
    BY HistoricalAssumption
  <1> QED BY <1>3, <1>4

LEMMA SecondIs ==
    ASSUME NEW t \in Nat
    PROVE  /\ Second(t) \in Nat /\ Second(t) <= t /\ t < Second(t) + Tick
           /\ Tick \in Nat /\ Tick > 0
  BY HistoricalAssumption DEF Second

LEMMA SecondIsMultiple ==
    ASSUME NEW t \in Nat
    PROVE  \E q \in Nat : Second(t) = q * Tick
  <1>1. t \div Tick \in Nat
    BY HistoricalAssumption
  <1> WITNESS t \div Tick \in Nat
  <1> QED BY DEF Second

LEMMA SecondStrict ==
    ASSUME NEW t \in Nat, NEW u \in Nat, Second(t) < Second(u)
    PROVE  Second(t) + Tick <= Second(u)
  <1>1. PICK q \in Nat : Second(t) = q * Tick
    BY SecondIsMultiple
  <1>2. PICK r \in Nat : Second(u) = r * Tick
    BY SecondIsMultiple
  <1> QED BY <1>1, <1>2, Multiples

LEMMA SecondMonotonic ==
    ASSUME NEW t \in Nat, NEW u \in Nat, t <= u
    PROVE  Second(t) <= Second(u)
  <1>1. Second(t) \in Nat /\ Second(t) <= t
    BY SecondIs
  <1>2. Second(u) \in Nat /\ u < Second(u) + Tick /\ Tick \in Nat
    BY SecondIs
  <1>3. Second(u) < Second(t) => Second(u) + Tick <= Second(t)
    BY SecondStrict
  <1> QED BY <1>1, <1>2, <1>3

LEMMA SecondSame ==
    ASSUME NEW t \in Nat, NEW u \in Nat, Second(u) <= t, t < Second(u) + Tick
    PROVE  Second(t) = Second(u)
  <1>1. Second(t) \in Nat /\ Second(t) <= t /\ t < Second(t) + Tick
    BY SecondIs
  <1>2. Second(u) \in Nat /\ Tick \in Nat
    BY SecondIs
  <1>3. Second(u) < Second(t) => Second(u) + Tick <= Second(t)
    BY SecondStrict
  <1>4. Second(t) < Second(u) => Second(t) + Tick <= Second(u)
    BY SecondStrict
  <1> QED BY <1>1, <1>2, <1>3, <1>4

LEMMA SecondOfMultiple ==
    ASSUME NEW q \in Nat
    PROVE  Second(q * Tick) = q * Tick
  <1>1. PICK m \in Nat : m = q * Tick
    BY HistoricalAssumption
  <1>2. PICK r \in Nat : Second(m) = r * Tick
    BY SecondIsMultiple
  <1>3. r * Tick < q * Tick => r * Tick + Tick <= q * Tick
    BY Multiples
  <1>4. Second(m) \in Nat /\ Second(m) <= m /\ m < Second(m) + Tick /\ Tick \in Nat
    BY SecondIs
  <1>5. Second(m) = m
    BY <1>1, <1>2, <1>3, <1>4
  <1> QED BY <1>1, <1>5

\* A window is as wide in whole seconds as its ends are apart.
LEMMA SecondOfWindow ==
    ASSUME NEW t \in Nat
    PROVE  Second(t + Width) = Second(t) + Width
  <1>1. PICK q \in Nat : Second(t) = q * Tick
    BY SecondIsMultiple
  <1>2. PICK w \in Nat : Width = w * Tick
    BY HistoricalAssumption
  <1> DEFINE u == (q + w) * Tick
  <1>3. u = Second(t) + Width
    BY <1>1, <1>2, HistoricalAssumption
  <1>4. Second(t) \in Nat /\ Second(t) <= t /\ t < Second(t) + Tick /\ Tick \in Nat /\ Width \in Nat
    BY SecondIs, HistoricalAssumption
  <1>5. Second(u) = u
    BY SecondOfMultiple
  <1> HIDE DEF u
  <1>6. u \in Nat /\ t + Width \in Nat /\ Second(u) <= t + Width /\ t + Width < Second(u) + Tick
    BY <1>3, <1>4, <1>5
  <1>7. Second(t + Width) = Second(u)
    BY <1>6, SecondSame
  <1> QED BY <1>3, <1>5, <1>7

-----------------------------------------------------------------------------
(* Types *)

LEMMA LatestIs ==
    ASSUME NEW P \in SUBSET Event, P # {}, time \in [Event -> Nat],
           NEW b \in Nat, \A e \in P : time[e] <= b
    PROVE  /\ Latest(P) \in Nat /\ Latest(P) <= b
           /\ \E e \in P : Latest(P) = time[e]
           /\ \A e \in P : time[e] <= Latest(P)
  <1> DEFINE T == {time[e] : e \in P}
  <1>1. T \subseteq Nat /\ T # {} /\ \A t \in T : t <= b
    OBVIOUS
  <1>2. \E m \in T : \A t \in T : t <= m
    BY <1>1, LargestNatural
  <1>3. \E m \in T : \A e \in P : time[e] <= m
    BY <1>2
  <1>4. Latest(P) \in T /\ \A e \in P : time[e] <= Latest(P)
    BY <1>3 DEF Latest
  <1> QED BY <1>1, <1>4

Good == Event \ malformed

\* Everything of s before t is stored or at a seam.
Stored(s, t) == \A e \in Wanted : SourceOf[e] = s /\ time[e] < t => Covered(e, stored)

\* The page has all events from the cursor to the end of its last second, but for
\* those at its seam.
PageIsFull ==
    \A e \in Wanted : /\ SourceOf[e] = source
                      /\ Second(cursor) <= time[e] /\ time[e] < Second(Latest(page)) + Tick
                      => Covered(e, page)

\* What every checkpoint says.
Marked == \A s \in Source : checkpoint[s] # None => Stored(s, Second(checkpoint[s]))

JobInv ==
    /\ TypeOK
    /\ \A e \in page : time[e] <= EndTime
    /\ pc \in {"fetch", "upsert"} => Stored(source, Second(cursor))
    /\ pc = "upsert" => PageIsFull
    /\ Marked
    /\ pc \in {"fetch", "upsert", "done"} /\ source = "AFAD" => Stored("USGS", Second(EndTime))
    /\ pc = "done" => source = "AFAD" /\ Stored("AFAD", Second(EndTime))

LEMMA TimeIs ==
    ASSUME TypeOK
    PROVE  /\ time \in [Event -> Nat] /\ cursor \in Nat /\ EndTime \in Nat /\ StartTime \in Nat
           /\ Tick \in Nat /\ Tick > 0 /\ WindowEnd \in Nat /\ WindowEnd <= EndTime
           /\ SourceOf \in [Event -> Source]
  BY HistoricalAssumption DEF TypeOK, WindowEnd

LEMMA PageIs ==
    ASSUME JobInv, pc = "upsert"
    PROVE  /\ page # {} /\ page \subseteq Good /\ Latest(page) \in Nat
           /\ \E e \in page : Latest(page) = time[e]
           /\ \A e \in page : time[e] <= Latest(page)
  <1>1. page \in SUBSET Event /\ page # {} /\ page \subseteq Good /\ TypeOK
    BY DEF JobInv, TypeOK, Good
  <1>2. \A e \in page : time[e] <= EndTime
    BY DEF JobInv
  <1> QED BY <1>1, <1>2, TimeIs, LatestIs

LEMMA BeginIs ==
    ASSUME JobInv, NEW s \in Source
    PROVE  ResumeAt(s) \in Nat /\ Stored(s, Second(ResumeAt(s)))
  <1>1. TypeOK /\ checkpoint[s] \in Nat \cup {None} /\ StartTime \in Nat
    BY TimeIs DEF JobInv, TypeOK
  <1>2. CASE checkpoint[s] > StartTime
    BY <1>1, <1>2 DEF ResumeAt, JobInv, Marked, None
  <1>3. CASE ~(checkpoint[s] > StartTime)
    <2>1. ResumeAt(s) = StartTime
      BY <1>3 DEF ResumeAt
    <2>2. Second(StartTime) \in Nat /\ Second(StartTime) <= StartTime
      BY <1>1, SecondIs
    <2>3. \A e \in Event : time[e] \in Nat
      BY <1>1, TimeIs
    <2> QED BY <1>1, <2>1, <2>2, <2>3 DEF Stored, Wanted
  <1> QED BY <1>2, <1>3

\* Who is covered by a set is covered by a larger one.
LEMMA CoveredGrows ==
    ASSUME NEW e, NEW S, NEW T, S \subseteq T, Covered(e, S)
    PROVE  Covered(e, T)
  <1>1. CASE AfterFullPage(e, S)
    <2>1. SUBSET (S \ {e}) \subseteq SUBSET (T \ {e})
      OBVIOUS
    <2> QED BY <1>1, <2>1 DEF AfterFullPage, Covered
  <1>2. CASE AfterWindow(e, S)
    BY <1>2 DEF AfterWindow, Covered
  <1> QED BY <1>1, <1>2 DEF Covered

\* Of a page of ComCat that does not have an event of before its end, or of its
\* last second, the page limit was the end.
LEMMA FetchPageIsFull ==
    ASSUME TypeOK, source = "USGS",
           NEW P \in Pages(Between("USGS", cursor, EndTime)), P # {}
    PROVE  /\ P \subseteq Event /\ \A e \in P : SourceOf[e] = "USGS" /\ time[e] <= EndTime
           /\ \A e \in Wanted : /\ SourceOf[e] = "USGS"
                                /\ Second(cursor) <= time[e] /\ time[e] < Second(Latest(P)) + Tick
                                => Covered(e, P)
  <1> DEFINE found == Between("USGS", cursor, EndTime)
  <1>0. /\ time \in [Event -> Nat] /\ cursor \in Nat /\ EndTime \in Nat
        /\ Second(EndTime) \in Nat /\ Second(EndTime) <= EndTime
    BY TimeIs, SecondIs
  <1>1. /\ P \subseteq found /\ found \subseteq Event
        /\ \A e \in P : SourceOf[e] = "USGS" /\ time[e] <= Second(EndTime)
    BY DEF Pages, Between
  <1>2. Latest(P) \in Nat /\ \A e \in P : time[e] <= Latest(P)
    BY <1>0, <1>1, LatestIs
  <1>3. PICK x \in P : Latest(P) = time[x]
    BY <1>0, <1>1, LatestIs
  <1>4. ASSUME NEW e \in Wanted, SourceOf[e] = "USGS", Second(cursor) <= time[e],
               time[e] < Second(Latest(P)) + Tick, e \notin P
        PROVE  AfterFullPage(e, P)
    <2>1. e \in Event /\ time[e] \in Nat /\ time[x] \in Nat /\ e \in found
      BY <1>0, <1>1, <1>4 DEF Wanted, Between
    <2>2. \A f \in P : time[f] <= time[e]
      BY <1>4, <2>1 DEF Pages
    <2>3. Second(time[x]) <= time[x] /\ Second(time[x]) \in Nat
      BY <2>1, SecondIs
    <2>4. Second(time[x]) = Second(time[e])
      BY <1>3, <1>4, <2>1, <2>2, <2>3, SecondSame
    <2>5. Cardinality(P) = PageLimit
      <3>1. Cardinality(P) = IF Cardinality(found) < PageLimit THEN Cardinality(found) ELSE PageLimit
        BY DEF Pages
      <3>2. IsFiniteSet(found)
        BY <1>1, FS_Subset, HistoricalAssumption
      <3>3. Cardinality(P) # Cardinality(found)
        BY <1>1, <1>4, <2>1, <3>2, FS_Subset
      <3> QED BY <3>1, <3>3
    <2>6. P \in SUBSET (P \ {e})
      BY <1>4
    <2> QED BY <1>1, <1>4, <2>2, <2>4, <2>5, <2>6 DEF AfterFullPage
  <1> QED BY <1>0, <1>1, <1>4 DEF Covered

\* Who is missing of a window whose last event was found comes within a second
\* after the end of the window, to which this event is.
LEMMA FetchWindowIsFull ==
    ASSUME TypeOK, source = "AFAD",
           NEW P, P = AfadEvents(Between("AFAD", cursor, WindowEnd)), P # {}
    PROVE  /\ P \subseteq Good /\ \A e \in P : SourceOf[e] = "AFAD" /\ time[e] <= EndTime
           /\ \A e \in Wanted : /\ SourceOf[e] = "AFAD"
                                /\ Second(cursor) <= time[e] /\ time[e] < Second(Latest(P)) + Tick
                                => Covered(e, P)
  <1>0. /\ time \in [Event -> Nat] /\ cursor \in Nat /\ EndTime \in Nat
        /\ WindowEnd \in Nat /\ WindowEnd <= EndTime
        /\ Second(WindowEnd) \in Nat /\ Second(WindowEnd) <= WindowEnd
    BY TimeIs, SecondIs
  <1>1. /\ P \subseteq Event /\ P \subseteq Good
        /\ \A e \in P : SourceOf[e] = "AFAD" /\ time[e] <= Second(WindowEnd)
    BY DEF AfadEvents, Between, Good
  <1>2. Latest(P) \in Nat /\ Latest(P) <= Second(WindowEnd)
    BY <1>0, <1>1, LatestIs
  <1>3. PICK x \in P : Latest(P) = time[x]
    BY <1>0, <1>1, LatestIs
  <1>4. ASSUME NEW e \in Wanted, SourceOf[e] = "AFAD", Second(cursor) <= time[e],
               time[e] < Second(Latest(P)) + Tick, e \notin P
        PROVE  AfterWindow(e, P)
    <2>1. e \in Event /\ time[e] \in Nat /\ time[x] \in Nat /\ SourceOf[x] = "AFAD"
      BY <1>0, <1>1 DEF Wanted
    <2>2. Second(WindowEnd) < time[e]
      BY <1>0, <1>4, <2>1 DEF AfadEvents, Between, Wanted
    <2>3. Second(time[x]) \in Nat /\ Second(time[x]) <= time[x] /\ time[x] <= Second(WindowEnd)
      BY <1>2, <1>3, <2>1, SecondIs
    <2>4. Second(time[e]) = Second(time[x])
      BY <1>0, <1>3, <1>4, <2>1, <2>2, <2>3, SecondSame
    <2>5. Second(WindowEnd) <= Second(time[e])
      <3>1. Second(Second(WindowEnd)) = Second(WindowEnd)
        <4>1. PICK q \in Nat : Second(WindowEnd) = q * Tick
          BY <1>0, SecondIsMultiple
        <4> QED BY <4>1, SecondOfMultiple
      <3> QED BY <1>0, <2>1, <2>2, <3>1, SecondMonotonic
    <2>6. time[x] = Second(time[e]) /\ time[e] # Second(time[e])
      BY <1>0, <2>1, <2>2, <2>3, <2>4, <2>5
    <2> QED BY <1>4, <2>1, <2>6 DEF AfterWindow
  <1>5. \A e \in P : time[e] <= EndTime
    BY <1>0, <1>1
  <1> QED BY <1>1, <1>4, <1>5 DEF Covered

\* Who is missing of an empty window comes within a second after its end.
LEMMA EmptyWindow ==
    ASSUME TypeOK, source = "AFAD", Stored("AFAD", Second(cursor)),
           AfadEvents(Between("AFAD", cursor, WindowEnd)) = {}
    PROVE  Stored("AFAD", Second(WindowEnd + Tick)) /\ WindowEnd + Tick \in Nat
  <1>0. /\ time \in [Event -> Nat] /\ cursor \in Nat /\ EndTime \in Nat
        /\ WindowEnd \in Nat /\ Tick \in Nat /\ WindowEnd + Tick \in Nat
        /\ {Second(cursor), Second(WindowEnd), Second(WindowEnd + Tick), Second(EndTime)} \subseteq Nat
    BY TimeIs, SecondIs
  <1> SUFFICES ASSUME NEW e \in Wanted, SourceOf[e] = "AFAD", time[e] < Second(WindowEnd + Tick),
                      ~(time[e] < Second(cursor))
               PROVE  AfterWindow(e, stored)
    BY <1>0 DEF Stored, Covered
  <1>1. e \in Good /\ e \in Event /\ time[e] \in Nat /\ Second(time[e]) \in Nat /\ Second(time[e]) <= time[e]
    BY <1>0, SecondIs DEF Wanted, Good
  <1>2. \A f \in Good : SourceOf[f] = "AFAD" => ~(Second(cursor) <= time[f] /\ time[f] <= Second(WindowEnd))
    BY DEF AfadEvents, Between, Good
  <1>3. Second(WindowEnd) < time[e]
    BY <1>0, <1>1, <1>2
  <1>4. Second(WindowEnd + Tick) <= Second(WindowEnd) + Tick
    <2>1. WindowEnd < Second(WindowEnd) + Tick
      BY <1>0, SecondIs
    <2>2. PICK q \in Nat : Second(WindowEnd) = q * Tick
      BY <1>0, SecondIsMultiple
    <2>3. PICK r \in Nat : Second(WindowEnd + Tick) = r * Tick
      BY <1>0, SecondIsMultiple
    <2>4. (q + 1) * Tick = q * Tick + Tick
      BY <1>0
    <2>5. (q + 1) * Tick < r * Tick => (q + 1) * Tick + Tick <= r * Tick
      BY Multiples
    <2>6. Second(WindowEnd + Tick) <= WindowEnd + Tick /\ Second(WindowEnd + Tick) \in Nat
      BY <1>0, SecondIs
    <2> QED BY <1>0, <2>1, <2>2, <2>3, <2>4, <2>5, <2>6
  <1>5. Second(time[e]) = Second(WindowEnd)
    BY <1>0, <1>1, <1>3, <1>4, SecondSame
  <1>6. WindowEnd = cursor + Width
    <2>1. Second(time[e]) < Second(EndTime)
      BY <1>0, <1>1 DEF Wanted
    <2>2. WindowEnd # EndTime
      BY <1>5, <2>1, <1>0
    <2> QED BY <2>2 DEF WindowEnd
  <1>7. Second(cursor) = Second(time[e]) - Width
    BY <1>0, <1>5, <1>6, SecondOfWindow, HistoricalAssumption
  <1>8. time[e] # Second(time[e])
    BY <1>0, <1>1, <1>3, <1>5
  <1> QED BY <1>2, <1>5, <1>7, <1>8 DEF AfterWindow, Good

\* What is stored stays stored, and the catalogue stays as it is.
LEMMA StoredStays ==
    ASSUME UNCHANGED catalogue, stored \subseteq stored', NEW s, NEW t, Stored(s, t)
    PROVE  Stored(s, t)'
  <1>1. PICK T : T = stored'
    OBVIOUS
  <1>2. ASSUME NEW e, Covered(e, stored) PROVE Covered(e, stored)'
    <2>1. Covered(e, T)
      BY <1>1, <1>2, CoveredGrows
    <2> QED BY <1>1, <2>1 DEF Covered, AfterFullPage, AfterWindow, catalogue
  <1>3. Wanted' = Wanted /\ time' = time
    BY DEF Wanted, catalogue
  <1> QED BY <1>2, <1>3 DEF Stored

LEMMA MarkedStays ==
    ASSUME UNCHANGED <<catalogue, checkpoint>>, stored \subseteq stored', Marked
    PROVE  Marked'
  <1> SUFFICES ASSUME NEW s \in Source, checkpoint[s] # None
               PROVE  Stored(s, Second(checkpoint[s]))'
    BY DEF Marked
  <1>1. PICK t : t = Second(checkpoint[s])
    OBVIOUS
  <1>2. Stored(s, t)'
    BY <1>1, StoredStays DEF Marked
  <1> QED BY <1>1, <1>2

LEMMA NowStays ==
    ASSUME UNCHANGED <<catalogue, source, cursor>>, stored \subseteq stored',
           Stored(source, Second(cursor))
    PROVE  Stored(source, Second(cursor))'
  <1>1. PICK t, s : t = Second(cursor) /\ s = source
    OBVIOUS
  <1>2. Stored(s, t)'
    BY <1>1, StoredStays
  <1> QED BY <1>1, <1>2

LEMMA FullPage ==
    ASSUME UNCHANGED <<catalogue, source, cursor>>, NEW P, page' = P,
           \A e \in Wanted : /\ SourceOf[e] = source
                             /\ Second(cursor) <= time[e] /\ time[e] < Second(Latest(P)) + Tick
                             => Covered(e, P)
    PROVE  PageIsFull'
  <1>1. Wanted' = Wanted /\ Latest(page)' = Latest(P) /\ time' = time
    BY DEF Wanted, Latest, catalogue
  <1>2. \A e : Covered(e, P) => Covered(e, page)'
    BY DEF Covered, AfterFullPage, AfterWindow, catalogue
  <1> QED BY <1>1, <1>2 DEF PageIsFull

\* A source that is finished is stored to the end.
LEMMA SourceEnds ==
    ASSUME TypeOK, Stored(source, Second(cursor)),
           cursor >= EndTime \/ Between(source, cursor, EndTime) = {}
    PROVE  Stored(source, Second(EndTime))
  <1>1. /\ cursor \in Nat /\ EndTime \in Nat /\ time \in [Event -> Nat]
        /\ Second(cursor) \in Nat /\ Second(EndTime) \in Nat
    BY TimeIs, SecondIs
  <1>2. \A e \in Wanted : time[e] \in Nat /\ e \in Event /\ time[e] < Second(EndTime)
    BY <1>1 DEF Wanted
  <1>3. CASE cursor >= EndTime
    <2>1. Second(EndTime) <= Second(cursor)
      BY <1>1, <1>3, SecondMonotonic
    <2> QED BY <1>1, <1>2, <2>1 DEF Stored
  <1>4. CASE Between(source, cursor, EndTime) = {}
    <2>1. \A e \in Wanted : SourceOf[e] = source => ~(Second(cursor) <= time[e])
      BY <1>1, <1>2, <1>4 DEF Between
    <2> QED BY <1>1, <1>2, <2>1 DEF Stored
  <1> QED BY <1>3, <1>4

\* After a page everything before the next whole second is stored.
LEMMA PageStored ==
    ASSUME JobInv, pc = "upsert", NEW S, S = stored \cup page
    PROVE  /\ Advance(page) \in Nat
           /\ \A e \in Wanted : SourceOf[e] = source /\ time[e] < Second(Advance(page)) => Covered(e, S)
           /\ \A e \in Wanted : SourceOf[e] = source /\ time[e] < Second(Latest(page)) => Covered(e, S)
  <1> DEFINE c == Advance(page)
  <1>1. Latest(page) \in Nat /\ cursor \in Nat /\ time \in [Event -> Nat]
    BY PageIs, TimeIs DEF JobInv
  <1>2. Second(Latest(page)) \in Nat /\ Tick \in Nat /\ Second(cursor) \in Nat
    BY <1>1, SecondIs
  <1>3. c \in Nat /\ c = Second(Latest(page)) + Tick
    BY <1>2 DEF Advance
  <1> HIDE DEF c
  <1>4. Second(c) \in Nat /\ Second(c) <= c
    BY <1>3, SecondIs
  <1>5. stored \subseteq S /\ page \subseteq S
    OBVIOUS
  <1>6. \A e \in Wanted : time[e] \in Nat
    BY <1>1 DEF Wanted
  <1>7. ASSUME NEW e \in Wanted, SourceOf[e] = source, time[e] < Second(Latest(page)) + Tick
        PROVE  Covered(e, S)
    <2>1. CASE time[e] < Second(cursor)
      <3>1. Covered(e, stored)
        BY <2>1, <1>7 DEF JobInv, Stored
      <3> QED BY <3>1, <1>5, CoveredGrows
    <2>2. CASE Second(cursor) <= time[e]
      <3>1. Covered(e, page)
        BY <2>2, <1>7 DEF JobInv, PageIsFull
      <3> QED BY <3>1, <1>5, CoveredGrows
    <2> QED BY <1>2, <1>6, <2>1, <2>2
  <1>8. \A e \in Wanted : time[e] < Second(c) \/ time[e] < Second(Latest(page))
                          => time[e] < Second(Latest(page)) + Tick
    BY <1>2, <1>3, <1>4, <1>6
  <1>9. \A e \in Wanted : /\ SourceOf[e] = source /\ time[e] < Second(c) => Covered(e, S)
                          /\ SourceOf[e] = source /\ time[e] < Second(Latest(page)) => Covered(e, S)
    BY <1>7, <1>8
  <1> QED BY <1>3, <1>9 DEF c

-----------------------------------------------------------------------------
(* The invariant *)

LEMMA InitJobInv == ASSUME Init PROVE JobInv
  <1>1. TypeOK
    BY HistoricalAssumption DEF Init, TypeOK, Source
  <1>2. \A s \in Source : checkpoint[s] = None
    BY DEF Init
  <1> QED BY <1>1, <1>2 DEF Init, JobInv, Marked

LEMMA NextTypeOK ==
    ASSUME JobInv, [Next]_vars
    PROVE  TypeOK' /\ \A e \in page' : time'[e] <= EndTime
  <1>0. /\ TypeOK /\ \A e \in page : time[e] <= EndTime
        /\ "USGS" \in Source /\ "AFAD" \in Source /\ runs \in Nat /\ Source = {"USGS", "AFAD"}
    BY DEF JobInv, TypeOK, Source
  <1>1. CASE Start
    <2>1. ResumeAt("USGS") \in Nat
      BY <1>0, BeginIs
    <2> QED BY <1>0, <1>1, <2>1 DEF Start, Begin, TypeOK, catalogue
  <1>2. CASE FinishSource
    <2>1. ResumeAt("AFAD") \in Nat
      BY <1>0, BeginIs
    <2>2. page = {}
      BY <1>0, <1>2 DEF FinishSource, TypeOK
    <2>3. CASE source = "USGS"
      BY <1>0, <1>2, <2>1, <2>2, <2>3 DEF FinishSource, Begin, TypeOK, catalogue
    <2>4. CASE source # "USGS"
      BY <1>0, <1>2, <2>2, <2>4 DEF FinishSource, TypeOK, catalogue
    <2> QED BY <2>3, <2>4
  <1>3. CASE FetchPage
    <2>1. PICK P \in Pages(Between("USGS", cursor, EndTime)) :
            /\ P # {}
            /\ IF Parses(P) THEN pc' = "upsert" /\ page' = P ELSE pc' = "failed" /\ UNCHANGED page
      BY <1>3 DEF FetchPage
    <2>2. /\ P \subseteq Event /\ \A e \in P : SourceOf[e] = "USGS" /\ time[e] <= EndTime
          /\ source = "USGS" /\ page = {}
      BY <1>0, <1>3, <2>1, FetchPageIsFull DEF FetchPage, TypeOK
    <2>3. Parses(P) => P \subseteq Event \ malformed
      BY <2>2 DEF Parses
    <2> QED BY <1>0, <1>3, <2>1, <2>2, <2>3 DEF FetchPage, TypeOK, catalogue
  <1>4. CASE FetchWindow
    <2> DEFINE P == AfadEvents(Between("AFAD", cursor, WindowEnd))
    <2> HIDE DEF P
    <2>1. P # {} => P \subseteq Event \ malformed /\ \A e \in P : SourceOf[e] = "AFAD" /\ time[e] <= EndTime
      BY <1>0, <1>4, FetchWindowIsFull DEF P, FetchWindow, Good
    <2>2. WindowEnd + Tick \in Nat /\ page = {}
      BY <1>0, <1>4, TimeIs DEF FetchWindow, TypeOK
    <2>3. IF P # {} THEN pc' = "upsert" /\ page' = P /\ UNCHANGED cursor
                    ELSE cursor' = WindowEnd + Tick /\ UNCHANGED <<pc, page>>
      BY <1>4 DEF FetchWindow, P
    <2> QED BY <1>0, <1>4, <2>1, <2>2, <2>3 DEF FetchWindow, TypeOK, catalogue
  <1>5. CASE Upsert
    <2>1. Latest(page) \in Nat /\ page \subseteq Good
      BY <1>5, PageIs DEF Upsert
    <2>2. Advance(page) \in Nat
      BY <1>5, PageStored DEF Upsert
    <2> QED BY <1>0, <1>5, <2>1, <2>2 DEF Upsert, TypeOK, catalogue, Good
  <1>6. CASE Fail
    BY <1>0, <1>6 DEF Fail, TypeOK, catalogue
  <1>7. CASE UNCHANGED vars
    BY <1>0, <1>7 DEF vars, TypeOK, catalogue
  <1> QED BY <1>1, <1>2, <1>3, <1>4, <1>5, <1>6, <1>7 DEF Next, Job

LEMMA NextJobInv ==
    ASSUME JobInv, [Next]_vars
    PROVE  JobInv'
  <1> DEFINE Now == pc \in {"fetch", "upsert"} => Stored(source, Second(cursor))
             Full == pc = "upsert" => PageIsFull
             First == pc \in {"fetch", "upsert", "done"} /\ source = "AFAD" => Stored("USGS", Second(EndTime))
             Last == pc = "done" => source = "AFAD" /\ Stored("AFAD", Second(EndTime))
  <1>0. /\ TypeOK /\ Now /\ Full /\ Marked /\ First /\ Last
        /\ source \in {"USGS", "AFAD"} /\ "USGS" \in Source /\ "AFAD" \in Source
        /\ UNCHANGED EndTime
    BY DEF JobInv, TypeOK, Source
  <1>t. TypeOK' /\ \A e \in page' : time'[e] <= EndTime
    BY NextTypeOK
  <1>1. CASE Start
    <2>0. /\ UNCHANGED <<catalogue, stored, checkpoint>>
          /\ pc' = "fetch" /\ source' = "USGS" /\ cursor' = ResumeAt("USGS")
      BY <1>1 DEF Start, Begin
    <2>1. Stored("USGS", Second(ResumeAt("USGS")))
      BY <1>0, BeginIs
    <2>2. PICK c : c = Second(ResumeAt("USGS"))
      OBVIOUS
    <2>3. Stored("USGS", c)'
      BY <2>0, <2>1, <2>2, StoredStays
    <2>4. Now'
      BY <2>0, <2>2, <2>3
    <2>5. Marked'
      BY <1>0, <2>0, MarkedStays
    <2> QED BY <1>t, <2>0, <2>4, <2>5 DEF JobInv
  <1>2. CASE FinishSource
    <2>0. UNCHANGED <<catalogue, page, stored, checkpoint>> /\ pc = "fetch"
      BY <1>2 DEF FinishSource
    <2>1. Stored(source, Second(EndTime))
      BY <1>0, <1>2, SourceEnds DEF FinishSource
    <2>2. Marked'
      BY <1>0, <2>0, MarkedStays
    <2>3. CASE source = "USGS"
      <3>0. pc' = "fetch" /\ source' = "AFAD" /\ cursor' = ResumeAt("AFAD")
        BY <1>2, <2>0, <2>3 DEF FinishSource, Begin
      <3>1. Stored("AFAD", Second(ResumeAt("AFAD")))
        BY <1>0, BeginIs
      <3>2. PICK c : c = Second(ResumeAt("AFAD"))
        OBVIOUS
      <3>3. Stored("AFAD", c)' /\ Stored("USGS", Second(EndTime))'
        BY <2>0, <2>1, <2>3, <3>1, <3>2, StoredStays
      <3>4. Now' /\ First'
        BY <3>0, <3>2, <3>3
      <3> QED BY <1>t, <2>2, <3>0, <3>4 DEF JobInv
    <2>4. CASE source = "AFAD"
      <3>0. pc' = "done" /\ source' = "AFAD"
        BY <1>2, <2>4 DEF FinishSource
      <3>1. Stored("AFAD", Second(EndTime))' /\ Stored("USGS", Second(EndTime))'
        BY <1>0, <2>0, <2>1, <2>4, StoredStays
      <3> QED BY <1>t, <2>2, <3>0, <3>1 DEF JobInv
    <2> QED BY <1>0, <2>3, <2>4
  <1>3. CASE FetchPage
    <2>0. /\ UNCHANGED <<catalogue, source, cursor, stored, checkpoint>>
          /\ pc = "fetch" /\ source = "USGS"
      BY <1>3 DEF FetchPage
    <2>1. PICK P \in Pages(Between("USGS", cursor, EndTime)) :
            /\ P # {}
            /\ IF Parses(P) THEN pc' = "upsert" /\ page' = P ELSE pc' = "failed" /\ UNCHANGED page
      BY <1>3 DEF FetchPage
    <2>2. \A e \in Wanted : /\ SourceOf[e] = "USGS"
                            /\ Second(cursor) <= time[e] /\ time[e] < Second(Latest(P)) + Tick
                            => Covered(e, P)
      BY <1>0, <2>0, <2>1, FetchPageIsFull
    <2>3. Full'
      BY <2>0, <2>1, <2>2, FullPage
    <2>4. Now' /\ Marked'
      BY <1>0, <2>0, NowStays, MarkedStays
    <2> QED BY <1>t, <2>0, <2>1, <2>3, <2>4 DEF JobInv
  <1>4. CASE FetchWindow
    <2> DEFINE P == AfadEvents(Between("AFAD", cursor, WindowEnd))
    <2>0. /\ UNCHANGED <<catalogue, source, stored, checkpoint>>
          /\ pc = "fetch" /\ source = "AFAD"
          /\ IF P # {} THEN pc' = "upsert" /\ page' = P /\ UNCHANGED cursor
                       ELSE cursor' = WindowEnd + Tick /\ UNCHANGED <<pc, page>>
      BY <1>4 DEF FetchWindow
    <2>1. Marked' /\ First'
      BY <1>0, <2>0, MarkedStays, StoredStays
    <2>2. CASE P # {}
      <3>1. PICK Q : Q = P
        OBVIOUS
      <3>2. \A e \in Wanted : /\ SourceOf[e] = "AFAD"
                              /\ Second(cursor) <= time[e] /\ time[e] < Second(Latest(Q)) + Tick
                              => Covered(e, Q)
        BY <1>0, <2>0, <2>2, <3>1, FetchWindowIsFull
      <3>3. Full'
        BY <2>0, <2>2, <3>1, <3>2, FullPage
      <3>4. Now'
        BY <1>0, <2>0, <2>2, NowStays
      <3> QED BY <1>t, <2>0, <2>1, <2>2, <3>3, <3>4 DEF JobInv
    <2>3. CASE P = {}
      <3>1. Stored("AFAD", Second(WindowEnd + Tick))
        BY <1>0, <2>0, <2>3, EmptyWindow
      <3>2. PICK c : c = Second(WindowEnd + Tick)
        OBVIOUS
      <3>3. Stored("AFAD", c)'
        BY <2>0, <3>1, <3>2, StoredStays
      <3>4. Now'
        BY <2>0, <2>3, <3>2, <3>3
      <3> QED BY <1>t, <2>0, <2>1, <2>3, <3>4 DEF JobInv
    <2> QED BY <2>2, <2>3
  <1>5. CASE Upsert
    <2>0. /\ UNCHANGED <<catalogue, source>> /\ pc = "upsert" /\ pc' = "fetch"
          /\ stored' = stored \cup page /\ cursor' = Advance(page)
          /\ checkpoint' = [checkpoint EXCEPT ![source] = Latest(page)]
      BY <1>5 DEF Upsert
    <2>1. PICK c, l, S : c = Second(Advance(page)) /\ l = Second(Latest(page)) /\ S = stored \cup page
      OBVIOUS
    <2>2. /\ \A e \in Wanted : SourceOf[e] = source /\ time[e] < c => Covered(e, S)
          /\ \A e \in Wanted : SourceOf[e] = source /\ time[e] < l => Covered(e, S)
      BY <2>0, <2>1, PageStored
    <2>3. (\A e : Covered(e, S) => Covered(e, stored)') /\ Wanted' = Wanted /\ time' = time
      BY <2>0, <2>1 DEF Covered, AfterFullPage, AfterWindow, Wanted, catalogue
    <2>4. Stored(source, c)' /\ Stored(source, l)' /\ Second(cursor)' = c
      BY <2>0, <2>1, <2>2, <2>3 DEF Stored, Second
    <2>5. Marked'
      <3> SUFFICES ASSUME NEW s \in Source, checkpoint'[s] # None
                   PROVE  Stored(s, Second(checkpoint[s]))'
        BY DEF Marked
      <3>1. checkpoint \in [Source -> Nat \cup {None}]
        BY <1>0 DEF TypeOK
      <3>2. CASE s = source
        <4>1. Second(checkpoint[s])' = l
          BY <2>0, <2>1, <3>1, <3>2 DEF Second
        <4> QED BY <2>0, <2>4, <3>2, <4>1
      <3>3. CASE s # source
        <4>1. checkpoint'[s] = checkpoint[s]
          BY <2>0, <3>1, <3>3
        <4>2. PICK t : t = Second(checkpoint[s])
          OBVIOUS
        <4>3. Second(checkpoint[s])' = t
          BY <4>1, <4>2 DEF Second
        <4>4. Stored(s, t) /\ stored \subseteq stored'
          BY <1>0, <2>0, <4>1, <4>2 DEF Marked
        <4>5. Stored(s, t)'
          BY <2>0, <4>4, StoredStays
        <4> QED BY <4>3, <4>5
      <3> QED BY <3>2, <3>3
    <2>6. First'
      <3>1. stored \subseteq stored'
        BY <2>0
      <3> QED BY <1>0, <2>0, <3>1, StoredStays
    <2> QED BY <1>t, <2>0, <2>4, <2>5, <2>6 DEF JobInv
  <1>6. CASE Fail
    <2>0. UNCHANGED <<catalogue, stored, checkpoint>> /\ pc' = "failed"
      BY <1>6 DEF Fail
    <2>1. Marked'
      BY <1>0, <2>0, MarkedStays
    <2> QED BY <1>t, <2>0, <2>1 DEF JobInv
  <1>7. CASE UNCHANGED vars
    <2>0. UNCHANGED <<catalogue, pc, source, cursor, page, stored, checkpoint>>
      BY <1>7 DEF vars
    <2>1. Now' /\ Marked' /\ First' /\ Last'
      BY <1>0, <2>0, NowStays, MarkedStays, StoredStays
    <2>2. Full'
      <3>1. PICK P : P = page
        OBVIOUS
      <3> QED BY <1>0, <2>0, <3>1, FullPage DEF PageIsFull
    <2> QED BY <1>t, <2>0, <2>1, <2>2 DEF JobInv
  <1> QED BY <1>1, <1>2, <1>3, <1>4, <1>5, <1>6, <1>7 DEF Next, Job

LEMMA JobInvCorrect == Spec => []JobInv
  <1>1. Init => JobInv
    BY InitJobInv
  <1>2. JobInv /\ [Next]_vars => JobInv'
    BY NextJobInv
  <1> QED BY <1>1, <1>2, PTL DEF Spec

-----------------------------------------------------------------------------
(* Theorems *)

\* No page, window, malformed record, failure or resumption leaves a gap before
\* the cursor but at the seams: an event is missing only if a full page ended in
\* its second, or a window may have ended at the whole second before it
\* (comcat.py, afad.py).
THEOREM StoredUpToCursorCorrect == Spec => []StoredUpToCursor
  <1>1. JobInv => StoredUpToCursor
    BY DEF JobInv, StoredUpToCursor, Stored
  <1> QED BY <1>1, JobInvCorrect, PTL

\* A checkpoint is never ahead of the data but for events at the seams, whatever
\* failed when: it is written in the transaction of its page (db.py).
THEOREM CheckpointIsCoveredCorrect == Spec => []CheckpointIsCovered
  <1>1. ASSUME JobInv PROVE CheckpointIsCovered
    <2>1. SourceOf \in [Event -> Source]
      BY HistoricalAssumption
    <2> QED BY <1>1, <2>1 DEF JobInv, Marked, CheckpointIsCovered, Stored, Wanted
  <1> QED BY <1>1, JobInvCorrect, PTL

\* A run that ends well has every event of both sources that it can parse, but for
\* those at the seams.
THEOREM DoneIsCompleteCorrect == Spec => []DoneIsComplete
  <1>1. ASSUME JobInv PROVE DoneIsComplete
    <2>1. SourceOf \in [Event -> {"USGS", "AFAD"}]
      BY HistoricalAssumption DEF Source
    <2>2. pc = "done" => Stored("USGS", Second(EndTime)) /\ Stored("AFAD", Second(EndTime))
      BY <1>1 DEF JobInv
    <2> QED BY <2>1, <2>2 DEF DoneIsComplete, Stored, Wanted
  <1> QED BY <1>1, JobInvCorrect, PTL
=============================================================================
