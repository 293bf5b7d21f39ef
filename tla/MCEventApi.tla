----------------------------- MODULE MCEventApi -----------------------------
(* Instances of EventApi for TLC.                                          *)
EXTENDS EventApi

MCSolution == [time : 1..2, mag : {40}] \cup [time : {3}, mag : {60}]

Recent == [start |-> 1, end |-> 2, min |-> 0, max |-> 90]

\* A time window, which updates leave, and a query that validation rejects.
MCQuery == {Recent, [Recent EXCEPT !.min = 100]}
=============================================================================
