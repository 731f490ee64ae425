SPECIFICATION Spec
CONSTANTS
    f1 = f1  f2 = f2  p1 = p1  p2 = p2
    file = file  pointer = pointer
    c1 = c1  c2 = c2  o0 = o0  o1 = o1  o2 = o2
    FileProposals = {f1, f2}
    PromotionProposals = {}
    FileTargets = {file}
    PointerTargets = {}
    TargetOf <- RivalTargetOf
    New <- RivalNew
    Parent <- ChainedParent
    Genesis <- PointerGenesis
    ForeignStates <- Foreign
    Contents = {c1, c2}
    Objects = {o0, o1, o2}
    Inodes = {1, 2}
    Absent = Absent  Irregular = Irregular
    NoProposal = NoProposal  NoState = NoState  NoChallenge = NoChallenge
    MaxReady = 1
    MaxRefusals = 1
    PromotionTtl = 1
    ChallengeTtl = 0
    Development = TRUE
    MaxTime = 0
INVARIANTS
    RestartSettles VerdictsTruthful
