----------------------------- MODULE MCAuditChain -----------------------------
(* Instances of AuditChain for TLC.                                         *)
EXTENDS AuditChain, TLC

\* Runs of the approval tool are interchangeable, and so are writers of a kind.
Symmetry == Permutations(Writer \ Serializer) \cup Permutations(Serializer) \cup Permutations(Approver)
=============================================================================
