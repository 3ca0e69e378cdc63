SPECIFICATION FairSpec
CONSTANTS
    Routes <- MCRoutes
    MaxMiddleware = 2
    MaxHandlers = 2
INVARIANTS
    UserCodeGuarded
    PipelineOrder
    AnsweredOnce
    NeverSilent
    MappedWasFiltered
PROPERTIES
    ErrorStopsPipeline
    Terminates
CHECK_DEADLOCK FALSE
