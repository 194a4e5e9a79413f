SPECIFICATION RoutingSpec
CONSTANTS
    PathChars = {"/", "a", "b"}
    PathUris <- MCPathUris
    PathKeys <- MCPathKeys
    MaxPaths = 2
INVARIANTS
    PagesFound
CHECK_DEADLOCK FALSE
