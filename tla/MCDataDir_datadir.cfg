\* Three tokens; two scopes with one key and two values; three groups, pages of
\* one; three experiments, one run with two points of its metric, two models of
\* two versions; two uploads of two blocks on two paths; two imports of one
\* object; one policy.
CONSTANTS
    Absent = Absent
    Torn = Torn
    MaxTokens = 3
    MaxSecrets = 2
    Scopes = {"s1", "s2"}
    Keys = {"k"}
    Values = {"v1", "v2"}
    NoValue = NoValue
    Unsure = Unsure
    DisplayNames = {"g1", "g2"}
    NoGroup = NoGroup
    MaxGroups = 3
    PageSize = 1
    ExpNames = {"e1", "e2"}
    ModelNames = {"m1", "m2"}
    RunNames = {"n"}
    ParamValues = {"p1", "p2"}
    MaxExps = 3
    MaxRuns = 1
    MaxMetrics = 2
    MaxVersions = 2
    NoName = NoName
    DPaths = {"d1", "d2"}
    Uploads = {"u1", "u2"}
    MaxInodes = 2
    MaxBlocks = 2
    WPaths = {"w1"}
    Importers = {"i1", "i2"}
    MaxPolicies = 1
    MaxWorkers = 2
    Definitions <- SomeDefinitions
    Workloads <- OneStore
SPECIFICATION Spec
ACTION_CONSTRAINT OneWriteAhead
INVARIANTS
    TokensAreAsTold
    SeededSecretsWork
    ConfirmedSecretsHold
    ValuesStayInTheVault
    OnlyInPlaceWritesRefuseAStart
    GroupsStayApart
    PagingSeesAll
    ExperimentsStayApart
    TrackedRunsReadBack
    RegistryIsConsistent
    UploadsAreWhole
    MetadataFollowsBytes
    NewClustersComply
CHECK_DEADLOCK FALSE
