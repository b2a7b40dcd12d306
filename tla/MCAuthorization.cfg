SPECIFICATION Spec
CHECK_DEADLOCK FALSE
CONSTANTS
    n1 = n1
    n2 = n2
    web = web
    spa = spa
    https = https
    scheme = scheme
    s1 = s1
    s2 = s2
    u1 = u1
    u2 = u2
    v1 = v1
    None = None
    Replicas = {n1, n2}
    Clients = {web, spa}
    Scopes = {"openid", "email"}
    Uris = {https, scheme}
    Https = {https}
    Secrets = {s1, s2}
    Kids = {1, 2}
    Configs <- MCConfigs
    Names = {"WEB_SECRET", "SPA_SECRET"}
    DefaultScopes = {"openid", "email"}
    DefaultAppScopes = {"openid", "email"}
    Users = {u1, u2}
    Browsers = {b1}
    Procs = {h1, h2}
    Verifiers = {v1}
    Queries <- MCQueries
    Codes = {k1}
    MaxWork = 4
SYMMETRY Interchangeable
INVARIANTS
    TypeOK
    OnlyWhatWasApproved
    ConsentStands
    ProvenExchange
    OneSigner
PROPERTY
    TrustedWhenRead
