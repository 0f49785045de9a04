SPECIFICATION EslSpec
CONSTANTS
    Callers <- MCCallers
    Deadlined <- MCDeadlined
    Cancelled <- MCCancelled
    Renderer <- MCRenderer
    Events <- MCEvents
    ReplyCap = 1
    MaxConns = 2
    MaxAbandoned = 1
INVARIANT ClosedWhenLost
