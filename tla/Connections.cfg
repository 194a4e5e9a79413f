SPECIFICATION ConnectionsSpec
CONSTANTS
    Streams <- MCStreams
    Garbage = {200}
    BufSize = 24
    Whole = TRUE
    Uris <- MCUris
    Names <- MCNames
    Texts <- MCTexts
    Contents <- MCContents
    Chunk = 2
    Data = {a, b}
    MaxSent = 5
    TlsBufSize = 3
    Indeterminate = u
INVARIANTS
    TypeOK
    ReplyFollowsVerdict
    HandledRequest
    Contained
    DecodeInverts
    WireFramed
    TlsTypeOK
    EchoComplete
PROPERTIES
    ExchangeSpec
    MessageAnswered
    RequestAnswered
    EverythingEchoed
CHECK_DEADLOCK FALSE
