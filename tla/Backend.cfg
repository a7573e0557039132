SPECIFICATION Spec
INVARIANTS
    TypeOK
    SecretsMatchRows
    DiffIsExact
    ChartPointsAreObserved
    RepliesAreEarned
    WorstSegmentWins
    RenderedIsOneCommand
    UnreadableIsNotSafe
PROPERTIES
    RollUpNeverForgets
    HealthIsHonest
    ListingsAreBinding
    RefusalIsFinal
\* Bounded inputs: a part stops when its ids, calls or pieces are used up.
CHECK_DEADLOCK FALSE
CONSTANTS
    Ids = {i1, i2}
    Aliases = {a1, a2}
    NoteIds = {n1, n2}
    SnapshotIds = {p1, p2}
    EventIds = {e1}
    Documents <- MCDocuments
    NoServer = NoServer
    Servers = {"s1", "s2"}
    MetricKeys = {"cpu", "mem"}
    Values = {1, 4}
    Batches <- MCBatches
    MaxTime = 3
    MaxCalls = 5
    Rollups <- MCRollups
    BucketMs <- MCBucketMs
    RetentionMs <- MCRetentionMs
    WindowMs <- MCWindowMs
    Budget <- MCBudget
    LiveAtFirst <- MCLive
    Requests = {r1, r2}
    Tokens = {t1, t2}
    Targets = {x1, x2}
    Scopes = {"restart", "deploy"}
    MaxClock = 3
    APPROVAL_TTL_MS = 2
    TokenTtl = 2
    STALE_AFTER_MS = 1
    TagsOf <- MCTagsOf
    Messages <- MCMessages
    Components <- MCComponents
    Letters <- MCLetters
    Assignments <- MCAssignments
    Identifiers <- MCIdentifiers
    Alphabet <- MCAlphabet
    MaxLine = 4
    Commands <- MCCommands
    BuiltCmds <- MCBuiltCmds
