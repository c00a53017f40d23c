CONSTANTS
    NULL = NULL
    IsProxy = FALSE
    Https = FALSE
    Realms = {r1}
    Nonces = {n1, n2}
    Uris = {u1}
    Headers <- MCHeaders
    MaxRegister = 1
    MaxAttempt = 2
    MaxNc = 2
    MaxCnonce = 2
    Provider = "none"
    MaxToken = 0

SPECIFICATION Spec
INVARIANT DigestHeaderHasCredentials
