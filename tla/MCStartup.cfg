SPECIFICATION StartSpec
CONSTANTS
    WatchdogSec = 6
    Period = 5
    Jitter = 1
    StartMax = 6
    MaxCalls = 2
    Default = yess_db
    Named = {other_db}
    yess_db = yess_db
    other_db = other_db
INVARIANTS
    TypeOK
    FedWhileServing
    GracefulExit
    StartTypeOK
    RequestsMeetTheNamedFile
    LogGoesWhereAsked
PROPERTIES
    SigtermStops
CHECK_DEADLOCK FALSE
