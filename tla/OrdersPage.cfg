SPECIFICATION FairSpec
CONSTANTS
    None = None
    Id = {1, 2, 3}
    Page <- MCPage
    Limit = {1, 2}
    Filter <- MCFilter
    Scenarios <- MCScenarios
INVARIANTS
    SwapsAreShownOnce
    LoadingMeansAwaiting
PROPERTIES
    OverStaysOver
    PageSettles
    RowsCatchUp
