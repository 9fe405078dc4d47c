CONSTANTS
    None = None
    Tasks = {t1}
    Events <- EventsOf
    Truthy <- TruthyOf
    True = "True"
    False = "False"
    Attribute <- AttributeOf
    Item <- ItemOf
    Compare <- CompareOf
    Extensions <- ExtensionsOf
    Root = root
    Routers = {root}
    r1 = r1
    r2 = r2
    h0 = h0
    h1 = h1
    h2 = h2
    Handlers = {h0, h1}
    Filters <- FiltersOf
    Boundary = TRUE
SPECIFICATION RoutingSpec
INVARIANTS SkipFallsThrough
