-------------------------- MODULE MCIppPrinterState --------------------------
(* The printer-state poller over responses of up to two reason keywords *)
(* drawn from the state-dependent tokens, one fixed token and one that  *)
(* matches no token.                                                     *)
EXTENDS IppPrinterState

MCReasonTokens == {"NONE", "SPOOL_FULL", "MEDIA_JAM", "UNMATCHED"}

=============================================================================
