CONSTANTS
    SvcMax <- MCSvcMax
    BadMax <- MCBadMax
    InternalMax <- MCInternalMax
    Cooperative = TRUE
SPECIFICATION JobSpec
INVARIANT JobStateFresh
