SPECIFICATION Spec
CONSTANTS
    Caller = {c1, c2}
    Artifact = {a1, a2}
    MaxRetries = 2
    MaxEvents = 5
SYMMETRY Symmetry
INVARIANTS
    EvidenceInv
    LedgerReplays
PROPERTIES
    NoLateAttestation
