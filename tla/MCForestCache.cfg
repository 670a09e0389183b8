CONSTANTS
    N = 4
    Links <- AllLinks
SPECIFICATION CSpec
INVARIANTS HeadsExact TailsExact AssertionsHold AnswersExact
PROPERTY ImplementsForest
