CONSTANTS
    NULL = NULL
    IsProxy = FALSE
    Https = TRUE
    Realms = {r1}
    Nonces = {n1}
    Uris = {u1}
    Headers <- MCSspiHeaders
    MaxRegister = 1
    MaxAttempt = 2
    MaxNc = 1
    MaxCnonce = 1
    Provider = "SSPI"
    MaxToken = 3

SPECIFICATION Spec
INVARIANT NoNullDereference
