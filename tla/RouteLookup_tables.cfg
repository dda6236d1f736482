SPECIFICATION Spec
CONSTANTS
    None = None
    Slash = "/"
    Characters <- MCCharacters
    HealthPath <- MCHealthPath
    Tables <- MCTables
    Queries <- MCQueries
INVARIANTS
    BestRouteWins
    
    SegmentsRespected
    PageInOrder
