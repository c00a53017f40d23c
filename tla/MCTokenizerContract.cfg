CONSTANTS
    NULL = NULL
    Uninit = Uninit
    MaxLen = 6
    GrammarLen = 9

SPECIFICATION Spec
INVARIANT ReturnedTokensComplete
