---------------------------- MODULE AtLeastOnce ----------------------------
(***************************************************************************)
(* What ADR-0001 asks of every consumer of a topic: at-least-once          *)
(* processing.  A record is settled when it needs no redelivery, and a     *)
(* group's committed offset covers settled records only.                   *)
(***************************************************************************)
EXTENDS Integers

CONSTANT Partition

VARIABLES
    len,        \* records appended to each partition
    settled,    \* <<partition, offset>> of the settled records
    committed   \* the group's committed offsets

vars == <<len, settled, committed>>

Records == UNION {{p} \X (0..(len[p] - 1)) : p \in Partition}

Init ==
    /\ len = [p \in Partition |-> 0] /\ settled = {}
    /\ committed = [p \in Partition |-> 0]

\* A new record may be settled from the start: a tombstone, an outdated copy.
AppendRecord ==
    /\ \E p \in Partition : len' = [len EXCEPT ![p] = @ + 1]
    /\ settled \subseteq settled' /\ settled' \subseteq Records'
    /\ UNCHANGED committed

Settle ==
    /\ settled \subseteq settled' /\ settled' \subseteq Records
    /\ UNCHANGED <<len, committed>>

Commit ==
    /\ \E p \in Partition : \E n \in (committed[p] + 1)..len[p] :
         /\ \A o \in 0..(n - 1) : <<p, o>> \in settled
         /\ committed' = [committed EXCEPT ![p] = n]
    /\ UNCHANGED <<len, settled>>

Next == AppendRecord \/ Settle \/ Commit

Spec == Init /\ [][Next]_vars
=============================================================================
