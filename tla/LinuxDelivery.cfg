SPECIFICATION Spec
CONSTANTS
    user = user
    system = system
    Cascade <- Reversed
    Within <- Nested
    Leading = "GSettings"
    GSettings = GSettings
    Written = Written
    Nothing = Nothing
PROPERTIES
    DeliveryReturns
