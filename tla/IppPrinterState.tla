--------------------------- MODULE IppPrinterState ---------------------------
(***************************************************************************)
(* get_PrinterState and get_PrinterStateReason (src/jni/ipphelper/        *)
(* ipphelper.c, lines 291-457), polled again and again by a status        *)
(* monitor that passes the same printer_state_dyn. The request itself is  *)
(* ipp_doCupsRequest, whose outcomes module IppRequest checks: here it     *)
(* returns NULL or a response.                                             *)
(*                                                                         *)
(* A response is a record: the value of its printer-state attribute      *)
(* ("ABSENT", one of the three enum values, or a value outside the enum)  *)
(* and whether it has printer-state-reasons, with its keywords. A keyword *)
(* is represented by the IPP_PRNT_* token it starts with, the first in the    *)
(* order the code tests them, or "UNMATCHED". A NULL answer is the record *)
(* NoResponse.                                                             *)
(*                                                                         *)
(* status and reasons are printer_state_dyn->printer_status and the        *)
(* printer_reasons array (the entries written so far, as a sequence).     *)
(* pstate is *printer_state. nullDeref and decoded are history: a write   *)
(* through a NULL printer_state happened, and the last answer decoded.    *)
(***************************************************************************)
EXTENDS Naturals, Sequences

CONSTANT MaxReasons  \* most printer-state-reasons keywords in one response

ASSUME MaxReasonsAssumption == MaxReasons \in Nat

VARIABLES status, reasons, pstate, nullDeref, decoded

pvars == <<status, reasons, pstate, nullDeref, decoded>>

PrinterStates == {"IDLE", "PROCESSING", "STOPPED"}

ReasonTokens == {"NONE", "SPOOL_FULL", "MARKER_SUPPLY_LOW", "TONER_LOW",
                 "OTHER_WARN", "MEDIA_NEEDED", "MEDIA_EMPTY", "TONER_EMPTY",
                 "MARKER_SUPPLY_EMPTY", "DOOR_OPEN", "COVER_OPEN", "MEDIA_JAM",
                 "SHUTDOWN", "OTHER_ERR", "PAUSED", "UNMATCHED"}

ReasonLists == UNION {[1..n -> ReasonTokens] : n \in 0..MaxReasons}

StateAttr == PrinterStates \cup {"ABSENT", "OUT_OF_RANGE"}

Responses ==
    [state : StateAttr, hasReasons : {TRUE}, reasons : ReasonLists]
    \cup [state : StateAttr, hasReasons : {FALSE}, reasons : {<<>>}]

NoResponse == [state |-> "NULL", hasReasons |-> FALSE, reasons |-> <<>>]

\* The switch on printer-state (lines 361-371); a value outside the enum
\* has no case.
StatusOf(st) ==
    CASE st = "IDLE"       -> "IDLE"
      [] st = "PROCESSING" -> "PRINTING"
      [] st = "STOPPED"    -> "SVC_REQUEST"

\* The codes one reason keyword appends under printer state st
\* (lines 380-451): "none" and "spool-full" depend on st and append
\* nothing when st is outside the enum; an unmatched keyword appends nothing.
ReasonCode(r, st) ==
    IF r \in {"NONE", "SPOOL_FULL"}
    THEN IF st \notin PrinterStates THEN <<>>
         ELSE IF st = "PROCESSING" THEN <<"PRINTING">>
         ELSE IF r = "NONE" /\ st = "IDLE" THEN <<"IDLE">>
         ELSE <<"UNKNOWN">>
    ELSE CASE r = "MARKER_SUPPLY_LOW" -> <<"LOW_ON_INK">>
           [] r = "TONER_LOW" -> <<"LOW_ON_TONER">>
           [] r \in {"OTHER_WARN", "PAUSED"} -> <<"UNKNOWN">>
           [] r \in {"MEDIA_NEEDED", "MEDIA_EMPTY"} -> <<"OUT_OF_PAPER">>
           [] r = "TONER_EMPTY" -> <<"OUT_OF_TONER">>
           [] r = "MARKER_SUPPLY_EMPTY" -> <<"OUT_OF_INK">>
           [] r \in {"DOOR_OPEN", "COVER_OPEN"} -> <<"DOOR_OPEN">>
           [] r = "MEDIA_JAM" -> <<"JAMMED">>
           [] r = "SHUTDOWN" -> <<"SHUTTING_DOWN">>
           [] r = "OTHER_ERR" -> <<"SVC_REQUEST">>
           [] r = "UNMATCHED" -> <<>>

\* The codes the reasons loop appends, in order (lines 380-455).
Classify(rs, st) ==
    LET f[i \in 0..Len(rs)] == IF i = 0 THEN <<>> ELSE f[i - 1] \o ReasonCode(rs[i], st)
    IN  f[Len(rs)]

\* Mutant of Overwrite: the write index is not reset between calls, as if
\* reason_idx were static.
OverwriteAppend(new, old) == old \o new

\* The array after writing new from index 0: nothing terminates the list,
\* so entries of an earlier poll past the new ones stay.
Overwrite(new, old) ==
    [i \in 1..(IF Len(new) >= Len(old) THEN Len(new) ELSE Len(old)) |->
        IF i <= Len(new) THEN new[i] ELSE old[i]]

PInit ==
    /\ status = "NONE"
    /\ reasons = <<>>
    /\ pstate = "NONE"
    /\ nullDeref = FALSE
    /\ decoded = NoResponse

-----------------------------------------------------------------------------
\* One call of get_PrinterState with a non-NULL printer_state_dyn, and
\* printer_state NULL or not (lines 305-315), that gets the answer resp
\* from ipp_doCupsRequest and decodes it (lines 318-333, 343-457).
PollPrinterState(ptrNull, resp) ==
    LET \* *printer_state = IPP_PRINTER_STOPPED unless printer_state is NULL
        ps0 == IF ptrNull THEN pstate ELSE "STOPPED"
        \* printer-state absent: unable to connect, reasons read as if idle
        noState == resp # NoResponse /\ resp.state = "ABSENT"
        ippstate == IF resp = NoResponse \/ noState THEN "IDLE" ELSE resp.state
        status1 == IF noState THEN "UNABLE_TO_CONNECT"
                   ELSE IF ippstate \in PrinterStates THEN StatusOf(ippstate)
                   ELSE status
        reasons1 == IF noState THEN Overwrite(<<"UNABLE_TO_CONNECT">>, reasons)
                    ELSE reasons
    IN
    IF resp = NoResponse
    THEN /\ status' = "UNABLE_TO_CONNECT"
         /\ reasons' = Overwrite(<<"UNABLE_TO_CONNECT">>, reasons)
         /\ pstate' = ps0
         /\ UNCHANGED nullDeref
    ELSE /\ pstate' = IF noState \/ ptrNull THEN ps0 ELSE resp.state
         /\ nullDeref' = (nullDeref \/ (ptrNull /\ ~noState))
         /\ IF ~resp.hasReasons
            THEN /\ status' = "UNABLE_TO_CONNECT"
                 /\ reasons' = Overwrite(<<"UNABLE_TO_CONNECT">>, reasons1)
            ELSE /\ status' = status1
                 /\ reasons' = Overwrite(Classify(resp.reasons, ippstate), reasons1)

PNext ==
    \E ptrNull \in BOOLEAN, resp \in Responses \cup {NoResponse} :
        /\ PollPrinterState(ptrNull, resp)
        /\ decoded' = resp

PSpec == PInit /\ [][PNext]_pvars

-----------------------------------------------------------------------------
StatusValues == {"NONE", "IDLE", "PRINTING", "SVC_REQUEST", "UNABLE_TO_CONNECT"}

ReasonCodes == {"IDLE", "PRINTING", "UNKNOWN", "LOW_ON_INK", "LOW_ON_TONER",
                "OUT_OF_PAPER", "OUT_OF_TONER", "OUT_OF_INK", "DOOR_OPEN",
                "JAMMED", "SHUTTING_DOWN", "SVC_REQUEST", "UNABLE_TO_CONNECT"}

PTypeOK ==
    /\ status \in StatusValues
    /\ reasons \in Seq(ReasonCodes) /\ Len(reasons) <= MaxReasons + 1
    /\ pstate \in {"NONE", "OUT_OF_RANGE"} \cup PrinterStates
    /\ nullDeref \in BOOLEAN

(* Spec, section 7: a NULL argument supplied by the caller is checked at   *)
(* each public entry point, which then returns without side effects;       *)
(* get_PrinterState accepts a NULL printer_state, and nothing may be       *)
(* written through it.                                                     *)
NullArgumentSafe == ~nullDeref

=============================================================================
