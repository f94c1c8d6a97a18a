SPECIFICATION FairSpec
CONSTANTS
    Activations = {n1, n2}
    Retries = 2
    SubmitTries = 2
    Exits = {x1, x2, x3}
    None = None
INVARIANTS TypeOK ActivationsSettled AcceptedNotCancelled
           ClosedAtEnd StrayingNoticed
PROPERTIES SignupEnds
