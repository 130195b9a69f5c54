SPECIFICATION FairSpec
CONSTANTS
    Client = Client
    Server = Server
    ClientBytes = 3
    ServerBytes = 1
    SinkCap = 1
    WireCap = 1
INVARIANTS
    TypeOK
    DeliveredInOrder
    EndOfFileIsComplete
    ClosedOnlyWhenBothDone
PROPERTIES
    DataArrives
    ShutdownCompletes
\* The tunnel stops once both copies have returned.
CHECK_DEADLOCK FALSE
