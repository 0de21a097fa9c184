SPECIFICATION FairSpec
CONSTANTS
    Users = {"passenger", "driver"}
    MaxBooking = 1
    Capacity = 2
    MaxCall = 2
INVARIANTS PagesTypeOK RatedOnce SeatsOffered
PROPERTIES ManagedForward DecisionShown CatchesUp PromptGoes TapsEnd
