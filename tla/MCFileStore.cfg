SPECIFICATION Spec
CONSTANTS
    Names = {"a", "b"}
    DotDot = ".."
    Locations <- MCLocations
    LinkTargets <- MCLinkTargets
    ConfiguredRoots <- MCRoots
    Paths <- MCPaths
    MaxLinks = 4
INVARIANTS
    OnlyDanglingLinksRemain
    PlainPathsAreServed
    ListIsComplete
PROPERTIES
    DeleteTakesTheFile
