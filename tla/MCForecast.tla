----------------------------- MODULE MCForecast -----------------------------
(* An instance of Forecast for TLC: item 0 is the region as a whole.       *)
EXTENDS Forecast

MCInterval == [t \in Task |-> 1]
MCRowLimit == [t \in Grid |-> 3]
=============================================================================
