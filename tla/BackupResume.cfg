SPECIFICATION Spec
CONSTANTS
    k1 = k1  k2 = k2
    N = 3
    Cuts = {k1}
    NoCut = NoCut  NoCheckpoint = NoCheckpoint  NoCapture = NoCapture
    MaxWork = 1
INVARIANTS
    ExactRetryAccepted
