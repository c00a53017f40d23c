CONSTANTS
    NULL = NULL
    IsProxy = TRUE
    Https = TRUE
    Realms = {r1}
    Nonces = {n1, n2}
    Uris = {u1}
    Headers <- MCProxyHeaders
    MaxRegister = 1
    MaxAttempt = 2
    MaxNc = 2
    MaxCnonce = 2
    Provider = "none"
    MaxToken = 0

SPECIFICATION Spec
INVARIANT TypeOK
INVARIANT MutualAuthSound
INVARIANT MutualAuthComplete
PROPERTY NcNeverReused
