SPECIFICATION FairSpec
CONSTANTS
    Keys = {k1}
    Pool <- OnePool
    Requests = {r1, r2}
    Loop = Loop
    Startup = Startup
    None = None
INVARIANTS TypeOK
PROPERTIES RevivedOnlyByProbe RestartKeepsFlags BannedRetired RequestsAnswered FlagsAsPromised
