SPECIFICATION Spec
CONSTANTS
    Nothing = Nothing
    Sessions = {s1, s2}
    Intents = {}
    Responses <- TwoResponses
    MaxProofs = 1
INVARIANTS
    OneLiveWorker
