SPECIFICATION Spec
CONSTANTS
    Methods = {"GET", "POST"}
    Templates <- MCAgreeingTemplates
    Paths <- MCPaths
    Registrars = {p1}
    Requests = {r1}
    MaxRoutes = 2
INVARIANT NoRouteIndexError
CHECK_DEADLOCK FALSE
