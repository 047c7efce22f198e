CONSTANTS
    SvcMax <- MCSvcMax
    BadMax <- MCBadMax
    InternalMax <- MCInternalMax
    Cooperative = TRUE
SPECIFICATION JobSpec
INVARIANT JobTypeOK
INVARIANT JobAttemptBound
INVARIANT JobRenegotiatedVersionAccepted
PROPERTY JobTermination
