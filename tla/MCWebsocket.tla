---------------------------- MODULE MCWebsocket ----------------------------
(* Instances of Websocket and, for Filters, settings on both sides of the  *)
(* domains with events around them.                                        *)
EXTENDS Websocket, Filters

\* A filter for everything and one for the first record only.
MCFilter == {1..MaxLog, {1}}

MCEmpty == ""
MCUpperOf == [n \in {"usgs", "USGS", "EMSC", " usgs", " USGS", "usgs,EMSC", "USGS,EMSC", MCEmpty} |->
                CASE n = "usgs" -> "USGS" [] n = " usgs" -> " USGS" [] n = "usgs,EMSC" -> "USGS,EMSC"
                  [] OTHER -> n]
MCTrimOf == [n \in DOMAIN MCUpperOf |->
                CASE n = " usgs" -> "usgs" [] n = " USGS" -> "USGS" [] OTHER -> n]
MCSplitOf == [n \in DOMAIN MCUpperOf |->
                CASE n = "usgs,EMSC" -> {"usgs", "EMSC"} [] n = "USGS,EMSC" -> {"USGS", "EMSC"}
                  [] OTHER -> {n}]

MCSetting ==
    [min : {Unset, 0, 40},
     bounds : {[lat_min |-> s, lat_max |-> n, lon_min |-> w, lon_max |-> Unset] :
                  s \in {Unset, -900, 360, 901}, n \in {Unset, 420, 901}, w \in {Unset, -1801, 900, 1800}},
     networks : {{}, {"usgs"}, {"EMSC"}, {" usgs"}, {"usgs,EMSC"}, {MCEmpty}, {MCEmpty, "EMSC"}}]

MCLocated == [ml : {-3, 0, 39, 40}, lat : {-900, 359, 360, 420, 421}, lon : {-1800, 899, 1800},
              network : {"usgs", "EMSC"}]

\* Filters has no state: TLC evaluates its property before the first start.
NotStarted == main = "down" /\ len = 0 /\ stops = 0

\* A subscribe message with the settings of a query string lets the same events
\* pass (see FiltersAgree).
QueryAndMessageAgree == NotStarted => FiltersAgree
=============================================================================
