SPECIFICATION AuthSpec
CONSTANTS
    c1 = c1
    c2 = c2
    c3 = c3
    k0 = k0
    z0 = z0
    None = None
    Calls <- ThreeCalls
    MayFail = TRUE
    Emails = {"a", "b"}
    Registered = {"b"}
    Identities = {"x"}
    RedirectURIs = {"r1"}
    FirstClients <- OneClient
    Members = {"u"}
    Domains = {"d"}
    MaxLog = 2
    APIKeys = {"k1", "k2"}
    FirstKeys <- MCKeys
    Quota = 1
    MaxWindow = 1
    FirstZones <- OneZone
    Orgs = {"o"}
SYMMETRY CallSymmetry
CHECK_DEADLOCK FALSE
INVARIANTS
    TokensWorkOnce
    GrantsAreHonoured
    EnginesAgree
    QuotaHolds
    StaleZonesAreExplained
    ToldRolesAreTrue
