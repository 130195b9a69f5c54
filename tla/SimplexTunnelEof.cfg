SPECIFICATION FairSpec
CONSTANTS
    Client = Client
    Server = Server
    ClientBytes = 1
    ServerBytes = 1
    SinkCap = 1
    WireCap = 1
\* The tunnel stops once both copies have returned.
CHECK_DEADLOCK FALSE
PROPERTY
    EofArrives
