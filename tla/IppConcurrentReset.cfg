CONSTANTS
    SvcMax <- MCSvcMax
    BadMax <- MCBadMax
    InternalMax <- MCInternalMax
    Cooperative = TRUE
    ContinueMax = 1
    Concurrent = TRUE
SPECIFICATION Spec
INVARIANT RenegotiatedVersionAccepted
