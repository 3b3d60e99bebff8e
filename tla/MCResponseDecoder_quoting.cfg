\* The claim ResponsesRoundTrip alone, with error messages that quote a client.
SPECIFICATION Spec
CONSTANTS
    MaxCStringLength = 5
    MaxCapacity = 4
    MaxI64 = 20
    ReadChunkSize = 60
    MaxDepth = 3
    MaxCalls = 4
    Utf8 <- MCUtf8
    Messages <- MCQuotingMessages
    Scripts <- MCQuotingScripts
INVARIANT
    ResponsesRoundTrip
CHECK_DEADLOCK FALSE
