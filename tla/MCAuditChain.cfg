\* A writer of either kind, two runs of the approval tool, up to three old rows
\* of which a writer loads two, one drift.
SPECIFICATION Spec
CONSTANTS
    Writer = {w1, w2}
    Serializer = {w2}
    Approver = {a1, a2}
    LegacyScan = 2
    w1 = w1
    w2 = w2
    a1 = a1
    a2 = a2
    MaxLegacy = 3
    MaxSeq = 4
    MaxDrifts = 1
SYMMETRY Symmetry
INVARIANTS
    TypeOK
    ManagedChainVerifies
    RefusedOnlyIfBroken
    NoCollision
    DeclaredFromFirstAnomaly
