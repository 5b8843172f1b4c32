SPECIFICATION Spec
CONSTANTS
    Frame <- MCFrame
    TooLarge <- MCTooLarge
    RequestId = {1, 2}
    fMaxQueued = 2
    SocketRoom = 1
    MaxRequests = 3
    MaxUpdates = 2
INVARIANTS RepliesInRequestOrder NoPushIntoDeadWriter ReturnFlushes
PROPERTIES ImplementsStream ShutdownEndsServe AcceptedIsSent
