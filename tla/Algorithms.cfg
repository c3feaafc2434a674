\* Every computation on small inputs, and every page of up to four path-building steps.
SPECIFICATION Spec
CONSTANTS
    None = None
    Endpoints <- SomeEndpoints
    Listings <- SomeListings
    Items <- SomeItems
    Selections <- SomeSelections
    Queries <- SomeQueries
    LowerCase <- Words
    Provenances <- AnyProvenance
    Catalogued <- EndpointOf
    Environments <- SomeEnvironments
    VectorFormats <- TwoFormats
    Files <- SomeFiles
    Places <- ThreePlaces
    Drift <- DriftOf
    Names <- SomeNames
    Depth = 3
    EdgesX <- EdgesX3
    EdgesY <- EdgesY3
    CentersX <- CentersX3
    CentersY <- CentersY3
    Rates <- Rates3
    Classes = {land, water}
    Heights = {0, 1, 3}
    Uncertainties <- Uncertainties3
    Tolerances <- Tolerances2
    Whole = 4
    Slack = 1
    Dashes <- UpToThreeDashes
    Symbols <- Rings
    Texts <- Spans
    PageWidth = 200
    PageHeight = 200
    Calibrations <- SomeCalibrations
    RmseLimits = {1, 2}
    Transforms <- SomeTransforms
    Points <- ThreePoints
    Colours = {red, black}
    Widths = {1}
    Curves <- OneCurve
    Corners <- OneRectangle
    Black = black
    Hairline = 1
    NoPoint = NoPoint
    MaxDepth = 1
    MaxSteps = 4
INVARIANTS
    ReorderedListingsPlanTheSame
    CoreCategoriesAreServed
    LayersKeepThePositions
    RainFallsWhereItFell
    CategoriesSplitAtMidpoints
    ElevationFollowsSlopes
    ReachesAreChains
    AssociationsAreNearest
    DisplacedControlsShow
    PagesAreReadAsDrawn
