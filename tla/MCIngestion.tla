---------------------------- MODULE MCIngestion ----------------------------
(* An instance of Ingestion for TLC: three events of an FDSN node, which   *)
(* answers with the oldest of them; USGS has none.                         *)
EXTENDS Ingestion

MCSourceOf == [e \in Event |-> "GFZ"]
=============================================================================
