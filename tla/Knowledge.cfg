\* The mode of indexing is switched at run time: two workers and a caller overlap; and
\* the other parts, bounded where they are instantiated.
SPECIFICATION KnowledgeSpec
CONSTANTS
    NumDocs = 1
    Workers = {w1, w2}
    Callers = {c1}
    Free = Free
    InitMode = "async"
    MaxVersion = 3
    MaxSettings = 2
    MaxSwitches = 2
    MaxCrashes = 1
    Search = Search
    Worker = Worker
    OtherWorker = OtherWorker
    Here = Here
    There = There
    None = None
    Import = Import
    OtherImport = OtherImport
    Query = Query
    Small = Small
    Large = Large
INVARIANTS
    StatusMatchesVersions
    SearchesAreCurrent
PROPERTIES
    BuildsAdvance
CHECK_DEADLOCK FALSE
