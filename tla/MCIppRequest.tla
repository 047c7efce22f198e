---------------------------- MODULE MCIppRequest ----------------------------
(* Model-checking instance of IppRequest. The retry maxima are the values  *)
(* of ipphelper.h in the wprint library.                                   *)
EXTENDS IppRequest

MCSvcMax == 3
MCBadMax == 2
MCInternalMax == 1

\* A smaller instance for the liveness run.
MCSmallMax == 1

=============================================================================
