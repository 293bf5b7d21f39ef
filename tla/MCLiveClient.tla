---------------------------- MODULE MCLiveClient ----------------------------
(* An instance of LiveClient for TLC: more events than the list or the     *)
(* answer to the first request has room for.                               *)
EXTENDS LiveClient

MCEvent == 1..3
=============================================================================
