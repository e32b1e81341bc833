SPECIFICATION Spec
CONSTANTS
    user = user
    system = system
    Cascade <- OneLayer
    Within <- Apart
    Leading = "GSettings"
    GSettings = GSettings
    Written = Written
    Nothing = Nothing
PROPERTIES
    DropReturns
    RoutesCatchUp
    PollingCatchesUp
