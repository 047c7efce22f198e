CONSTANTS
    SvcMax <- MCSvcMax
    BadMax <- MCBadMax
    InternalMax <- MCInternalMax
    Cooperative = FALSE
    ContinueMax = 1
    Concurrent = FALSE
SPECIFICATION Spec
INVARIANT RejectedNotRetained
