---------------------------- MODULE MCCatalogue ----------------------------
(* Instances of Catalogue for TLC.  Time is in steps of 30 s, a place is a *)
(* number of km along a line, and the windows are those of the formula,    *)
(* rounded: that of 6.5 is shorter than that of 6.4.                       *)
EXTENDS Catalogue

MCNetworkOf == [i \in {"m", "u", "e"} |-> IF i = "e" THEN "EMSC" ELSE "USGS"]
MCPartitionOf == [i \in {"m", "u", "e"} |-> IF i = "u" THEN 1 ELSE 2]

Days(n) == 2880 * n

MCGKTime == [x \in 53..65 |-> CASE x = 54 -> Days(10) [] x = 55 -> Days(11)
                                [] x = 63 -> Days(28) [] x = 64 -> Days(31) [] x = 65 -> Days(9) [] OTHER -> Days(20)]
MCGKSpace == [x \in 53..65 |-> CASE x = 54 -> 45 [] x = 55 -> 46 [] OTHER -> 61]

MCPlace == {0, 50}
MCDistance == [a \in MCPlace \X MCPlace |-> IF a[1] < a[2] THEN a[2] - a[1] ELSE a[1] - a[2]]

R(i, t, p, m, q) == [id |-> i, time |-> t, place |-> p, magnitude |-> m, rank |-> q]

\* A large event eight days earlier, two solutions of "u" and a report of the
\* same earthquake by another network.
MCReport == {R("m", 0, 0, 65, 2), R("u", Days(8), 50, 55, 2), R("u", Days(8) + 1, 0, 54, 3),
             R("e", Days(8) + 1, 50, 53, 2)}
=============================================================================
