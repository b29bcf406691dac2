SPECIFICATION Spec
CONSTANTS
    u1 = u1
    u2 = u2
    g1 = g1
    g2 = g2
    d1 = d1
    d2 = d2
    Users = {u1, u2}
    GitHubRepos = {g1, g2}
    MaxRepositories = 3
    Deliveries = {d1, d2}
    RepoOf <- DeliveryEach
    RuleIds = {x1, x2}
    Requests = {r1, r2}
    None = None
SYMMETRY Interchangeable
INVARIANTS
    TypeOK
    OneRepositoryPerUser
    RowsFollowRepository
    RulesWrittenByOwner
    FailedOnlyWhenShared
