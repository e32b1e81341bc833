\* Three keys, of which one is watched on request; two retries of a registration.
SPECIFICATION BackendSpec
CONSTANTS
    user = user
    policy = policy
    machine = machine
    Keys <- AllKeys
    UserKey = user
    Policy = policy
    settings = settings
    Nothing = Nothing
    MaxRetries = 2
INVARIANTS
    WindowsTellsRoutes
    WindowsReadsLast
PROPERTIES
    FollowsTheSettings
    CatchesUp
    RequestsAreServed
    DropReturns
