CONSTANT MaxReasons = 2
CONSTANT ReasonTokens <- MCReasonTokens
SPECIFICATION PSpec
INVARIANT NullArgumentSafe
