------------------------- MODULE MCAnalysisConsumer -------------------------
(* Instances of AnalysisConsumer for TLC: two events of USGS; and of       *)
(* Enrichment: the magnitudes around every step of its functions.          *)
EXTENDS AnalysisConsumer, Enrichment

MCPartitionOf == [i \in {"a", "b"} |-> 1]

Raw(i, k, s) == [id |-> i, kind |-> k, alert |-> s, shakemap |-> s]

MCMessage == {Raw("a", "ok", TRUE), Raw("b", "ok", FALSE),
              Raw("a", "undecodable", FALSE), Raw("b", "tombstone", FALSE)}

MCMagnitude == UNION {(m - 6)..(m + 6) : m \in {3500, 5000, 5300, 6000, 6300, 6950, 7000, 7050, 7300}}
                  \cup {-2000, 0, 4200, 4240, 4260, 4900, 5900, 6900, 10000}
MCDepth == {Unset, -20, 0, 1, 2, 100, 299, 300, 7000}

\* Enrichment has no state: TLC evaluates its property before the first start.
NotStarted == pc = "down" /\ Produced = {}

\* A stronger report of an event never lowers its alert (see AlertNeverFalls).
AlertsRise == NotStarted => AlertNeverFalls
=============================================================================
