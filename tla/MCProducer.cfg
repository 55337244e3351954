SPECIFICATION MCSpec
CONSTANTS
    a = a
    b = b
    Distributions = {a, b}
    Roots <- MCRoots
    Extras = {1, 2}
    MaxRequirements = 3
    MaxEvaluations = 8
    Packages <- MCPackages
    Extensions = {"extension"}
    Contents = {1, 2}
    Foreign = 3
    MaxChanges = 2
    Sources = 2
    Datasets = {d1, d2}
    Stems = {s1, s2}
    Scenarios = {c1, c2}
    Arms = {baseline, concise, if}
    Repetitions = 2
    MaxRecords = 3
    PlanRows = 18
    TokensPerRow = 2
    PlanTokens = 30
    Width <- MCWidth
    MaxText = 7
    MaxPattern = 3
    MaxPatterns = 2
    Batch = 3
    Limit = 8
    MarkerWidth = 2
CHECK_DEADLOCK FALSE
INVARIANTS
    DependenciesAreExact
    GuardRunsRecordedCode
    OneInstallation
    PlanIsSound
    RedactionsAgree
