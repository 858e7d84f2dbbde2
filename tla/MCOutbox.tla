------------------------------ MODULE MCOutbox ------------------------------
(* Instances of Outbox for TLC: rows 1..N, of which the last two share an   *)
(* instant of creation.                                                     *)
EXTENDS Outbox, TLC

MCCreatedAt == [e \in Event |-> IF e = Cardinality(Event) THEN e - 1 ELSE e]
BatchSymmetry == Permutations(Batch)
=============================================================================
