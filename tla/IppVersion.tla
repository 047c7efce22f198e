----------------------------- MODULE IppVersion -----------------------------
(***************************************************************************)
(* The process-wide state of src/jni/ipphelper/ipphelper.c and its IPP    *)
(* version negotiator.                                                     *)
(*                                                                         *)
(*  - ippVersion models the globals __ipp_version_major/minor (155-156).   *)
(*  - running models wprintIsRunning(), cleared by another thread when    *)
(*    wprint shuts down.                                                   *)
(*  - neg is the frame of determine_ipp_version (182-198) together with   *)
(*    the frame of the test_and_set_ipp_version call it is running         *)
(*    (200-289): which probe (idx), the two retry counters, whether the    *)
(*    local response pointer still holds a response (held) and the value  *)
(*    the probe returned (ret).                                            *)
(*  - advertised and rejects describe the printer, the external            *)
(*    collaborator: the versions its ipp-versions-supported attribute     *)
(*    lists and the versions it answers with                               *)
(*    client-error-version-not-supported.                                  *)
(*                                                                         *)
(* A send through the CUPS library (cupsDoRequest, ippSendRequest) is one *)
(* atomic step whose outcome is any answer the printer may give.          *)
(***************************************************************************)
EXTENDS Naturals, IppVersionNumbers

CONSTANTS
    SvcMax,       \* IPP_SERVICE_ERROR_MAX_RETRIES
    BadMax,       \* IPP_BAD_REQUEST_MAX_RETRIES
    InternalMax,  \* IPP_INTERNAL_ERROR_MAX_RETRIES
    Cooperative   \* the printer never advertises a version it rejects

ASSUME RetryAssumption ==
    SvcMax \in Nat /\ BadMax \in Nat /\ InternalMax \in Nat

ASSUME CooperativeAssumption == Cooperative \in BOOLEAN

VARIABLES ippVersion, running, advertised, rejects, neg, lateSends

\* determine_ipp_version tries 1.1, then 1.0, then 2.0 (lines 189-191).
ProbeOrder == <<V11, V10, V20>>

\* Statuses cupsLastError() reports with a NULL response and with a
\* response. "OTHER" stands for every status the code does not test for.
NullStatus == {"INTERNAL_ERROR", "SERVICE_UNAVAILABLE", "BAD_REQUEST",
               "NOT_FOUND", "OTHER"}
RespStatus == {"OK", "BAD_REQUEST", "VERSION_NOT_SUPPORTED", "OTHER"}

\* The answers the printer may give to a request stamped with version v:
\* any transport or server error, and a response that is a version
\* rejection exactly when the printer rejects v.
Answers(v) ==
    [resp : {FALSE}, status : NullStatus]
    \cup [resp : {TRUE},
          status : RespStatus \ IF v \in rejects THEN {"OK"}
                                                 ELSE {"VERSION_NOT_SUPPORTED"}]

NegPhases == {"idle", "probe", "returned", "done"}

\* The values the negotiator's frame can take.
NegType == [phase : NegPhases, idx : 1..3, svc : 0..SvcMax,
            bad : 0..(BadMax + 1), held : 0..1, ret : {"OK", "ERROR"}]

NegIdle == [phase |-> "idle", idx |-> 1, svc |-> 0, bad |-> 0, held |-> 0,
            ret |-> "ERROR"]

\* A frame of test_and_set_ipp_version for probe number i (lines 201-212).
ProbeFrame(i) == [phase |-> "probe", idx |-> i, svc |-> 0, bad |-> 0,
                  held |-> 0, ret |-> "ERROR"]

\* n, saturated at the bound b (for history counters only).
Saturate(n, b) == IF n < b THEN n ELSE b

\* Counts a request put on the wire after wprint stopped running.
LateSend == lateSends' = IF running THEN lateSends ELSE Saturate(lateSends + 1, 2)

VersionInit ==
    /\ ippVersion = V20
    /\ running = TRUE
    /\ advertised \in SUBSET Versions
    /\ rejects \in SUBSET Versions
    /\ Cooperative => advertised \cap rejects = {}
    /\ neg = NegIdle
    /\ lateSends = 0

-----------------------------------------------------------------------------
(* determine_ipp_version, entered from set_ipp_version when the caller's   *)
(* version state is IPP_VERSION_UNSUPPORTED (lines 171-174, 189).          *)
StartDetermine == neg' = ProbeFrame(1)

\* One iteration of the do-while loop of test_and_set_ipp_version
\* (lines 213-287): send the probe at ProbeOrder[idx] and classify the answer.
ProbeSend ==
    /\ neg.phase = "probe"
    /\ LateSend
    /\ \E a \in Answers(ProbeOrder[neg.idx]) :
        \/ /\ ~a.resp
           /\ a.status = "SERVICE_UNAVAILABLE" /\ neg.svc < SvcMax
           /\ neg' = [neg EXCEPT !.svc = @ + 1]
           /\ UNCHANGED ippVersion
        \/ /\ a.status = "BAD_REQUEST" /\ neg.bad <= BadMax
           /\ neg' = [neg EXCEPT !.bad = @ + 1]
           /\ UNCHANGED ippVersion
        \/ /\ ~a.resp
           /\ ~(a.status = "SERVICE_UNAVAILABLE" /\ neg.svc < SvcMax)
           /\ ~(a.status = "BAD_REQUEST" /\ neg.bad <= BadMax)
           /\ neg' = [neg EXCEPT !.phase = "returned", !.ret = "ERROR"]
           /\ UNCHANGED ippVersion
        \* a rejected bad request breaks out of the loop before ippDelete
        \/ /\ a.resp /\ a.status = "BAD_REQUEST" /\ neg.bad > BadMax
           /\ neg' = [neg EXCEPT !.phase = "returned", !.ret = "ERROR",
                                 !.held = 1]
           /\ UNCHANGED ippVersion
        \* any other response is parsed for ipp-versions-supported, which
        \* the printer may omit
        \/ /\ a.resp /\ a.status # "BAD_REQUEST"
           /\ \E vs \in {advertised, {}} :
                IF vs # {}
                THEN /\ ippVersion' = Highest(vs)
                     /\ neg' = [neg EXCEPT !.phase = "returned", !.ret = "OK"]
                ELSE /\ neg' = [neg EXCEPT !.phase = "returned", !.ret = "ERROR"]
                     /\ UNCHANGED ippVersion
    /\ UNCHANGED <<running, advertised, rejects>>

\* Mutant of ProbeNext: after the last probe fails the chain starts over.
ProbeNextWraps ==
    /\ neg.phase = "returned"
    /\ neg' = IF neg.ret = "ERROR"
              THEN ProbeFrame(IF neg.idx < 3 THEN neg.idx + 1 ELSE 1)
              ELSE [neg EXCEPT !.phase = "done"]
    /\ UNCHANGED <<ippVersion, running, advertised, rejects, lateSends>>

\* determine_ipp_version goes on to the next probe of its || chain, or
\* returns (lines 189-197).
ProbeNext ==
    /\ neg.phase = "returned"
    /\ neg' = IF neg.ret = "ERROR" /\ neg.idx < 3
              THEN ProbeFrame(neg.idx + 1)
              ELSE [neg EXCEPT !.phase = "done"]
    /\ UNCHANGED <<ippVersion, running, advertised, rejects, lateSends>>

\* Another thread shuts wprint down: wprintIsRunning() turns false.
Stop ==
    /\ running
    /\ running' = FALSE
    /\ UNCHANGED <<ippVersion, advertised, rejects, neg, lateSends>>

=============================================================================
