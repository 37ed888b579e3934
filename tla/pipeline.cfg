\* two messages and two pings of one vehicle, to the last answer
SPECIFICATION FairSpec
CONSTANTS
    s1 = s1
    Sockets <- OneSocket
    MaxMessages = 2
    MaxPings = 2
    Draws <- OneDraw
    Configured = 2
INVARIANTS
    PipelineTypeOK
    MessageIntegrity
    ListenerOutlivesRequest
    LockStepVehicleIsServed
    AnswersAreOwnAndOnce
PROPERTIES
    ImplementsService
    EveryMessageAnswered
    ClosedAreFreed
\* the messages of the instance run out
CHECK_DEADLOCK FALSE
