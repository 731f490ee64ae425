SPECIFICATION Spec
CONSTANTS
    k1 = k1  k2 = k2
    N = 2
    Cuts = {k1, k2}
    NoCut = NoCut  NoCheckpoint = NoCheckpoint  NoCapture = NoCapture
    MaxWork = 1
INVARIANTS
    SealedTogether CheckpointsAgree
