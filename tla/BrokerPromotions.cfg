SPECIFICATION Spec
CONSTANTS
    f1 = f1  f2 = f2  p1 = p1  p2 = p2
    file = file  pointer = pointer
    c1 = c1  c2 = c2  o0 = o0  o1 = o1  o2 = o2
    FileProposals = {}
    PromotionProposals = {p1, p2}
    FileTargets = {}
    PointerTargets = {pointer}
    TargetOf <- RivalTargetOf
    New <- RivalNew
    Parent <- ChainedParent
    Genesis <- PointerGenesis
    ForeignStates <- Foreign
    Contents = {}
    Objects = {o0, o1, o2}
    Inodes = {1, 2}
    Absent = Absent  Irregular = Irregular
    NoProposal = NoProposal  NoState = NoState  NoChallenge = NoChallenge
    MaxReady = 2
    MaxRefusals = 1
    PromotionTtl = 1
    ChallengeTtl = 0
    Development = FALSE
    MaxTime = 1
INVARIANTS
    TypeOK BrokerInv VerdictsTruthful PredecessorChain
