---------------------------- MODULE MCHistorical ----------------------------
(* Instances of Historical for TLC.                                         *)
EXTENDS Historical

MCSourceOf == [e \in Event |-> IF e \in {"a", "b", "c"} THEN "AFAD" ELSE "USGS"]

Times == StartTime..(EndTime - 1)

\* Which of a source's events is the earlier does not matter.
MCOrdered ==
    {c \in [Event -> Times] : \A e, f \in Event : <<e, f>> \in {<<"a", "b">>, <<"b", "c">>, <<"u", "v">>} => c[e] <= c[f]}

\* A record of either source that cannot be parsed.
MCMalformations == {{}, {"a"}, {"v"}}

MCNoMalformation == {{}}

MCAll == [Event -> Times]
=============================================================================
