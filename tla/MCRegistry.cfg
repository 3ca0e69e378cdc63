SPECIFICATION Spec
CONSTANTS
    Methods = {"GET", "POST"}
    Templates <- MCTemplates
    Paths <- MCOnePath
    Registrars = {p1, p2}
    Requests = {r1}
    MaxRoutes = 2
INVARIANTS
    DispatchedToOwnHandler
    CompleteSnapshotIsSelfContained
    AllowIsHonest
    RoutedIsDocumented
PROPERTIES
    ImplementsRouting
    FreezeIsFinal
CHECK_DEADLOCK FALSE
SYMMETRY Symmetry
