SPECIFICATION FairSpec
CONSTANTS
    Subjects = {"routes", "stops", "driver", "rider"}
    MaxRoute = 2
    MaxStop = 2
    MaxOrder = 2
    MaxCall = 2
INVARIANTS ConsoleTypeOK OrdersUnique BookedForward NextFree
PROPERTIES LoadingEnds
