SPECIFICATION Spec
CONSTANTS
    user = user
    system = system
    Cascade <- TwoLayers
    Within <- Apart
    Leading = "Kioslaverc"
    GSettings = GSettings
    Written = Written
    Nothing = Nothing
INVARIANTS
    HealthIsTrue
PROPERTIES
    FollowsTheSettings
