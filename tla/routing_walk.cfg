CONSTANTS
    None = None
    Tasks = {t1}
    Events <- EventsOf
    Truthy <- TruthyOf
    True = "True"
    False = "False"
    Attribute <- AttributeOf
    Item <- ItemOf
    Compare <- CompareOf
    Extensions <- ExtensionsOf
    Root = root
    Routers = {root, r1, r2}
    r1 = r1
    r2 = r2
    h0 = h0
    h1 = h1
    h2 = h2
    Handlers = {h0, h1, h2}
    Filters <- FiltersOf
    Boundary = FALSE
SPECIFICATION RoutingSpec
INVARIANTS RoutingTypeOK WalkIsPreorder NoneOvertaken TriedOnce OwnExtras KeepsMatching
SYMMETRY Symmetry
PROPERTIES FeedSpec
