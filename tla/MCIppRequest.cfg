CONSTANTS
    SvcMax <- MCSvcMax
    BadMax <- MCBadMax
    InternalMax <- MCInternalMax
    Cooperative = TRUE
    ContinueMax = 1
    Concurrent = FALSE
SPECIFICATION Spec
INVARIANT TypeOK
INVARIANT RenegotiatedVersionAccepted
INVARIANT AttemptBound
PROPERTY Termination
PROPERTY VersionRefinement
