SPECIFICATION Spec
CONSTANTS
    Flows = {f1, f2, f3}
    Units = {u1, u2}
SYMMETRY Symmetry
INVARIANTS
    WaitingIsUnconfigured
    TwoEntriesMeanFallback
PROPERTY
    NeverReplaces
