\* GeeRPCServer: one connection, up to 2 requests, Options with and without HandleTimeout.
CONSTANTS
    Receivers <- MCReceivers
    ServiceMethods <- MCServiceMethods
    Options <- MCOptions
    MaxReqs = 2
    MaxWriteFails = 1
SPECIFICATION FairSpec
INVARIANTS
    TypeOK
    WireFramed
    AtMostOneResponse
    ResponseBeforeClose
PROPERTIES
    Termination
    GoroutinesFinishNoLimit
    ImplementsResponses
\* The server stops once the connection is closed.
CHECK_DEADLOCK FALSE
