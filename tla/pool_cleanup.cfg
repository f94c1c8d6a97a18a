SPECIFICATION CleanupSpec
CONSTANTS
    Keys = {"p1", "o1"}
    Pool <- TwoPools
    Deleters = {d1}
    OllamaCount = 2
    PageSize = 1
    MaxId = 4
INVARIANTS DeletesStop
PROPERTIES FlagsSurvive
