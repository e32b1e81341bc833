CONSTANTS
    MaxMatchSteps = 12
    MaxChain = 2
SPECIFICATION Spec
INVARIANTS
    StoresAreObeyed
    EffectiveIsMeasured
    LayersWin
    ListsFailClosed
    ScriptsAreAnswered
    EntriesFailClosed
    RoutesAreEarned
    ScriptsKnowTheirShare
