--------------------------- MODULE MCIppJobStatus ---------------------------
(* The job-status poller with the retry maxima of ipphelper.h. *)
EXTENDS IppJobStatus

MCSvcMax == 3
MCBadMax == 2
MCInternalMax == 1

=============================================================================
