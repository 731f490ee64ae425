SPECIFICATION Spec
CONSTANTS
    Nothing = Nothing
    Sessions = {s1}
    Intents = {i1}
    Responses <- TwoResponses
    MaxProofs = 2
INVARIANTS
    TypeOK
    ReportsAreTheBrokers
    AdmittedBeforeDecided
    ForwardsAlone
    ServesSettledUnderCut
