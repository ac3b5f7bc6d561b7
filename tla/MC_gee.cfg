\* GeeRouter: route registration, then every request path up to 5 characters.
SPECIFICATION Spec
CONSTANTS
    Methods = {"GET"}
    GroupPrefixes <- MCGroupPrefixes
    Comps <- MCComps
    StaticPaths <- MCStaticPaths
    Middlewares = {m1}
    MaxGroups = 2
    MaxUse = 1
    MaxRoutes = 2
    MaxPathLen = 5
INVARIANTS
    TypeOK
    GetRouteIndexInRange
    StaticServesCheckedFile
CHECK_DEADLOCK FALSE
