SPECIFICATION FairEslSpec
CONSTANTS
    Callers <- MCFewCallers
    Deadlined <- MCDeadlined
    Cancelled <- MCCancelled
    Renderer <- MCRenderer
    Events <- MCEvents
    ReplyCap = 1
    MaxConns = 2
    MaxAbandoned = 2
INVARIANT WaitsForOwn
PROPERTIES CommandsReturn EventsHandled
