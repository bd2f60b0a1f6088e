CONSTANTS
    Outer = Outer
    Inner = Inner
    Kinds = Kinds
    Types <- MCTypes
    Fields <- MCFields
    Half32 = 2
    Half64 = 4
    Exact = 4
    NulTexts = {2}
    Cut <- MCCut
    Jit = TRUE
    Registered <- MCRegistered
    Requests <- MCRequests
    Routes <- MCRoutes
    Edits <- MCEdits
    MaxEdits = 2
SPECIFICATION FairSpec
INVARIANTS
    StackShape
    Balanced
    RoundTrip
    Faithful
PROPERTIES
    Halts
CHECK_DEADLOCK FALSE
