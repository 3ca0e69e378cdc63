SPECIFICATION Spec
CONSTANTS
    Methods = {"GET", "POST"}
    Templates <- MCTemplates
    Paths <- MCPaths
    Registrars = {p1}
    Requests = {r1}
    MaxRoutes = 2
INVARIANT NoCompilePanic
CHECK_DEADLOCK FALSE
