----------------------------- MODULE Enrichment -----------------------------
(***************************************************************************)
(* What the analysis service computes for one event: its magnitude on the  *)
(* local scale (services/analysis, magnitude.py) and the alert it is worth *)
(* (risk.py, main.py).                                                     *)
(*                                                                         *)
(* Reported magnitudes are integers in 1/1000, depths in 1/10 km.  One     *)
(* unit of an unrounded local magnitude is 1/3000000: with it every        *)
(* coefficient of the conversions is an integer.                           *)
(***************************************************************************)
EXTENDS Integers

CONSTANTS
    Magnitude,    \* reported magnitudes
    Depth,        \* reported depths, and Unset
    Unset,
    Threshold     \* alert_magnitude_threshold, in 1/100

ASSUME EnrichmentAssumption ==
    /\ Magnitude \subseteq Int /\ Depth \subseteq Int \cup {Unset} /\ Unset \notin Int
    /\ Threshold \in Int

\* The scales refine_to_ml tells apart: ML; Mw, Mwc, Mww, Mwb, Mwp; mb, mb_Lg,
\* mbh; Ms, Ms_20, Ms_BB; and the rest.
Scale == {"ML", "MW", "MB", "MS", "other"}

Unit == 3000      \* of a reported magnitude
One == 3000000    \* magnitude 1

\* Rounded to 1/100.  Of a tie, a double is on either side: up is taken.
Hundredths(x) == (x + One \div 200) \div (One \div 100)

\* depth_km or 10 km, and at least 100 m.
DepthOf(d) == IF d = Unset THEN 100 ELSE IF d < 1 THEN 1 ELSE d

\* 0.05 at the surface, nothing from 30 km on.
Shallow(d) == IF DepthOf(d) < 300 THEN 500 * (300 - DepthOf(d)) ELSE 0

\* Mutant of MwToMl: above 6.0 the scales converge from below.
MwToMlBelow(m) ==
    IF m <= 3500 THEN 2505000 + 3186 * m
    ELSE IF m <= 6000 THEN 2763 * m + 3390000
    ELSE Unit * m - 150000

\* Three regimes, with a step down of 0.2 at 3.5 and of 0.6 at 6.0.
MwToMl(m) ==
    IF m <= 3500 THEN 2505000 + 3186 * m
    ELSE IF m <= 6000 THEN 2763 * m + 3390000
    ELSE Unit * m + 150000

RefineToMl(m, scale, d) ==
    Hundredths(CASE scale = "ML" -> Unit * m - Shallow(d)
                 [] scale = "MW" -> MwToMl(m) - Shallow(d)
                 [] scale = "MB" -> Unit * m + 300000
                 [] scale = "MS" -> Unit * m - 900000
                 [] scale = "other" -> Unit * m)

\* None, "YELLOW", "ORANGE" and "RED".
AlertLevel(ml) == IF ml >= 700 THEN 3 ELSE IF ml >= 600 THEN 2 ELSE IF ml >= 500 THEN 1 ELSE 0

\* The level of the alert that is published, 0 for none.
AlertOf(m, scale, d) ==
    LET ml == RefineToMl(m, scale, d) IN IF ml >= Threshold THEN AlertLevel(ml) ELSE 0

-----------------------------------------------------------------------------
(* Properties *)

\* The conversion of Mw falls by up to 0.6 where its regimes meet, but a
\* stronger report of an event never lowers its alert, whatever its scale and
\* depth, as long as the threshold is not in the gap that opens above 6.0.
AlertNeverFalls ==
    Threshold \notin 601..666 =>
        \A scale \in Scale : \A d \in Depth : \A m, n \in Magnitude :
            m <= n => AlertOf(m, scale, d) <= AlertOf(n, scale, d)
=============================================================================
