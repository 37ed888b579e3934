SPECIFICATION Spec
CONSTANTS
    s1 = s1
    Sockets <- OneSocket
    MaxMessages = 2
    MaxPings = 1
    Draws <- TwoDraws
    Configured = 2
\* the messages of the instance run out
CHECK_DEADLOCK FALSE
PROPERTY
    LoggedPortIsDialled
