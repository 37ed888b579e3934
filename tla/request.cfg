\* every message of at most four of fifteen lines
SPECIFICATION HttpSpec
CONSTANTS
    Texts  <- Messages
    Fields <- Spellings
    Key    <- KeyOfSpelling
    Verbs = {"PUT", "TRACE"}
    Word = Word
    Chunked = Chunked
    Gateway = Gateway
    Pad = Pad
INVARIANTS
    HttpTypeOK
    OrderlyArrives
    GatewayVouches
    LengthIsTrue
\* a message is converted once
CHECK_DEADLOCK FALSE
