\* One namespace, two claims and a question, three requests that store a turn
\* or an episode, or up to five statements, one failed write or format and one
\* kill or format; a consolidation of up to four relations that keeps one claim
\* and two of its roots; ten catalogs of up to four rows; up to four of eleven
\* relations; up to three of eight observations, one failure and one restart.
CONSTANTS
    s1 = s1  blue = blue  red = red  question = question
    Spaces = {s1}
    Values = {blue, red}
    UserTypes = {"user_assertion"}
    EchoTypes = {"assistant_generated", "external_import"}
    Silent = question
    MaxVisited = 5
    MaxRoots = 2
    MaxRelations = 4
    MaxCandidates = 1
    MaxTurns = 5
    MaxReopens = 1
    MaxFaults = 1
    Words <- TextWords
    Questions = {question}
    Entity = "car"
    Keys <- IndexKeys
    Nameless <- EmptyId
    Hash <- Hashes
    InitialCapacity = 2
    Turns <- IndexRows
    MaxRows = 3
    Catalogs <- SomeCatalogs
    MaxConcepts = 4
    MaxAliases = 6
    RowCap = 5
    MaxCues = 2
    MaxRowAliases = 3
    MaxAliasWords = 2
    MaxUnsure = 2
    MaxRestarts = 2
    MaxHops = 3
    MaxPaths = 2
    MaxListed = 2
    MinConfidence = 3
    MinActivation = 3
    MaxFrontier = 2
    MaxResults = 2
    MaxFacts = 4
    MaxMixed = 3
    Records <- TextRecords
    Symbols <- TextSymbols
    Alike <- Close
    Scale = 12960
    WithinReach = 1
    EventLag = 1
    PageLimits = {1, 2}
    MaxObservations = 3
    MaxTextFaults = 1
    MaxTextRestarts = 1
SPECIFICATION Spec
INVARIANTS
    AckedTurnsSurvive
    LineageHolds
    LookupIsScan
    AnswersStand
    ReadersExact
    ConceptsAnswer
    ObservationsSurvive
    FieldsAnswer
PROPERTY ClaimsDerived
\* Requests, restarts, rows, catalogs, turns and observations are bounded, and a
\* list has no steps.
CHECK_DEADLOCK FALSE
