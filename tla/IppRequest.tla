----------------------------- MODULE IppRequest -----------------------------
(***************************************************************************)
(* The request/retry engine ipp_doCupsRequest (src/jni/ipphelper/         *)
(* ipphelper.c, lines 1726-1811) with set_ipp_version (158-180), the      *)
(* transport loop ippSendRequest (1691-1718) and the version negotiator   *)
(* of module IppVersion, driven by a caller such as get_PrinterState or   *)
(* getJobId that issues one logical request at a time.                    *)
(*                                                                         *)
(* pc is where the caller's thread is: "idle" between requests, "top" at  *)
(* the head of the do-while loop, "negotiate" inside determine_ipp_version,*)
(* "send" with the request stamped, "done" once ipp_doCupsRequest returned.*)
(* svc, bad and internal are the three retry counters, verState the local *)
(* ipp_version_supported, stamp the version set on the request, response *)
(* what the local response pointer holds ("NULL" or the status of the     *)
(* response it holds) and cont the HTTP_CONTINUE retries of the current   *)
(* send. attempts and lastRejected are history: the requests this call    *)
(* has sent, and the version the printer last rejected.                    *)
(***************************************************************************)
EXTENDS IppVersion

CONSTANTS
    ContinueMax,  \* how often in a row a printer answers 100-Continue
                  \* without a response
    Concurrent    \* other threads of the process issue requests too

ASSUME ContinueAssumption == ContinueMax \in Nat

ASSUME ConcurrentAssumption == Concurrent \in BOOLEAN

VARIABLES pc, svc, bad, internal, verState, stamp, response, cont,
          attempts, lastRejected

vars == <<ippVersion, running, advertised, rejects, neg, lateSends,
          pc, svc, bad, internal, verState, stamp, response, cont,
          attempts, lastRejected>>

\* The most requests one call can send when the printer is cooperative:
\* every retry budget used up, one version rejection and one final answer.
MaxAttempts == InternalMax + SvcMax + BadMax + 2

NoVersion == <<0, 0>>

callVars == <<svc, bad, internal, verState, stamp, response, cont,
              attempts, lastRejected>>

Init ==
    /\ VersionInit
    /\ pc = "idle"
    /\ svc = 0 /\ bad = 0 /\ internal = 0
    /\ verState = "RESOLVED"
    /\ stamp = V20
    /\ response = "NULL"
    /\ cont = 0
    /\ attempts = 0
    /\ lastRejected = NoVersion

-----------------------------------------------------------------------------
\* A caller enters ipp_doCupsRequest with non-NULL arguments: all counters
\* zero and the version taken as resolved (lines 1727-1737).
Call ==
    /\ pc = "idle"
    /\ pc' = "top"
    /\ svc' = 0 /\ bad' = 0 /\ internal' = 0
    /\ verState' = "RESOLVED"
    /\ response' = "NULL"
    /\ attempts' = 0
    /\ lastRejected' = NoVersion
    /\ UNCHANGED <<ippVersion, running, advertised, rejects, neg, lateSends,
                   stamp, cont>>

\* A new request sequence starts: set_ipp_version with NEW_REQUEST_SEQUENCE
\* resets the global version to 2.0 (lines 165-168). The caller does so
\* between requests; another thread may do so at any time, since the
\* globals have no lock.
NewRequestSequence ==
    /\ pc = "idle" \/ Concurrent
    /\ ippVersion' = V20
    /\ UNCHANGED <<running, advertised, rejects, neg, lateSends, pc>>
    /\ UNCHANGED callVars

\* Head of the loop (lines 1741-1744): give up when wprint stopped, else
\* stamp the global version, or renegotiate it first when the printer has
\* rejected a version in this call.
Top ==
    /\ pc = "top"
    /\ \/ /\ ~running
          /\ pc' = "done"
          /\ UNCHANGED <<neg, stamp>>
       \/ /\ running /\ verState = "RESOLVED"
          /\ stamp' = ippVersion
          /\ pc' = "send"
          /\ UNCHANGED neg
       \/ /\ running /\ verState = "UNSUPPORTED"
          /\ StartDetermine
          /\ pc' = "negotiate"
          /\ UNCHANGED stamp
    /\ UNCHANGED <<ippVersion, running, advertised, rejects, lateSends>>
    /\ UNCHANGED <<svc, bad, internal, verState, response, cont, attempts,
                   lastRejected>>

\* determine_ipp_version has returned to set_ipp_version: stamp the version
\* it settled on, or give up (lines 172-177, 1744-1749).
Negotiated ==
    /\ pc = "negotiate"
    /\ neg.phase = "done"
    /\ neg' = NegIdle
    /\ IF neg.ret = "OK"
       THEN /\ stamp' = ippVersion
            /\ pc' = "send"
       ELSE /\ pc' = "done"
            /\ UNCHANGED stamp
    /\ UNCHANGED <<ippVersion, running, advertised, rejects, lateSends>>
    /\ UNCHANGED <<svc, bad, internal, verState, response, cont, attempts,
                   lastRejected>>

\* ippSendRequest got HTTP_CONTINUE and no response, and sends again
\* (lines 1704-1707).
SendContinue ==
    /\ pc = "send"
    /\ cont < ContinueMax
    /\ cont' = cont + 1
    /\ UNCHANGED <<ippVersion, running, advertised, rejects, neg, lateSends, pc>>
    /\ UNCHANGED <<svc, bad, internal, verState, stamp, response, attempts,
                   lastRejected>>

\* Mutants of Retry: the break test dropped, and made before the increment.
RetryNoBreak(c, max) == c' = c + 1 /\ pc' = "top"
RetryLate(c, max) == c' = c + 1 /\ pc' = IF c > max THEN "done" ELSE "top"

\* A budgeted retry: the counter c is bumped and the loop breaks once it
\* passes max (e.g. lines 1755-1763).
Retry(c, max) ==
    /\ c' = c + 1
    /\ pc' = IF c + 1 > max THEN "done" ELSE "top"

\* The request goes out and the answer is classified (lines 1751-1807).
Send ==
    /\ pc = "send"
    /\ cont' = 0
    /\ attempts' = Saturate(attempts + 1, MaxAttempts + 1)
    /\ LateSend
    /\ \E a \in Answers(stamp) :
        \/ /\ ~a.resp /\ a.status = "INTERNAL_ERROR"
           /\ Retry(internal, InternalMax)
           /\ UNCHANGED <<svc, bad, verState, response, lastRejected>>
        \/ /\ ~a.resp /\ a.status = "SERVICE_UNAVAILABLE"
           /\ Retry(svc, SvcMax)
           /\ UNCHANGED <<internal, bad, verState, response, lastRejected>>
        \/ /\ ~a.resp /\ a.status = "BAD_REQUEST"
           /\ Retry(bad, BadMax)
           /\ UNCHANGED <<internal, svc, verState, response, lastRejected>>
        \* a bad-request response past the budget is returned, not deleted
        \/ /\ a.resp /\ a.status = "BAD_REQUEST"
           /\ Retry(bad, BadMax)
           /\ response' = IF bad + 1 > BadMax THEN a.status ELSE "NULL"
           /\ UNCHANGED <<internal, svc, verState, lastRejected>>
        \/ /\ a.resp /\ a.status = "VERSION_NOT_SUPPORTED"
           /\ verState' = "UNSUPPORTED"
           /\ lastRejected' = stamp
           /\ pc' = "top"
           /\ UNCHANGED <<internal, svc, bad, response>>
        \/ /\ ~a.resp /\ a.status \in {"NOT_FOUND", "OTHER"}
           /\ pc' = "done"
           /\ UNCHANGED <<internal, svc, bad, verState, response, lastRejected>>
        \/ /\ a.resp /\ a.status \in {"OK", "OTHER"}
           /\ pc' = "done"
           /\ response' = a.status
           /\ UNCHANGED <<internal, svc, bad, verState, lastRejected>>
    /\ UNCHANGED <<ippVersion, running, advertised, rejects, neg, stamp>>

\* The caller takes the result and deletes the response it got
\* (get_PrinterState, lines 323-340).
Return ==
    /\ pc = "done"
    /\ pc' = "idle"
    /\ response' = "NULL"
    /\ UNCHANGED <<ippVersion, running, advertised, rejects, neg, lateSends>>
    /\ UNCHANGED <<svc, bad, internal, verState, stamp, cont, attempts,
                   lastRejected>>

\* The negotiator's steps run on the caller's thread and leave the
\* caller's frame alone.
Probe ==
    /\ ProbeSend \/ ProbeNext
    /\ UNCHANGED <<pc, svc, bad, internal, verState, stamp, response, cont,
                   attempts, lastRejected>>

ShutDown == Stop /\ UNCHANGED <<pc>> /\ UNCHANGED callVars

Next ==
    \/ Call \/ NewRequestSequence \/ Top \/ Negotiated \/ SendContinue
    \/ Send \/ Return \/ Probe \/ ShutDown

\* The caller's thread keeps running while it is inside ipp_doCupsRequest:
\* every send returns (the connection has a socket timeout, set in
\* ipp_cups_connect), so each of its steps is weakly fair.
Fairness ==
    /\ WF_vars(Top) /\ WF_vars(Negotiated) /\ WF_vars(Send)
    /\ WF_vars(Probe)

Spec == Init /\ [][Next]_vars /\ Fairness

-----------------------------------------------------------------------------
\* The negotiated-version globals seen through the promise of
\* IppVersionRegister: the register is ippVersion, the printer's list the
\* advertised set.
Register == INSTANCE IppVersionRegister WITH version <- ippVersion, offered <- advertised

TypeOK ==
    /\ ippVersion \in Versions
    /\ running \in BOOLEAN
    /\ advertised \in SUBSET Versions
    /\ rejects \in SUBSET Versions
    /\ neg \in NegType
    /\ lateSends \in 0..2
    /\ pc \in {"idle", "top", "negotiate", "send", "done"}
    /\ svc \in 0..(SvcMax + 1)
    /\ bad \in 0..(BadMax + 1)
    /\ internal \in 0..(InternalMax + 1)
    /\ verState \in {"RESOLVED", "UNSUPPORTED"}
    /\ stamp \in Versions
    /\ response \in {"NULL"} \cup RespStatus
    /\ cont \in 0..ContinueMax
    /\ attempts \in 0..(MaxAttempts + 1)
    /\ lastRejected \in Versions \cup {NoVersion}

(* Once the printer has rejected a version and the code has renegotiated, *)
(* the request it sends is stamped with a version a cooperative printer    *)
(* accepts: determine_ipp_version keeps the highest advertised version,    *)
(* whichever probe got the answer.                                         *)
RenegotiatedVersionAccepted ==
    Cooperative /\ pc = "send" /\ verState = "UNSUPPORTED" => stamp \notin rejects

(* With a cooperative printer one call of ipp_doCupsRequest sends at most  *)
(* InternalMax + SvcMax + BadMax + 2 requests: each budget spent, one      *)
(* version rejection and the final answer.                                 *)
AttemptBound == Cooperative => attempts <= MaxAttempts

(* Every call of ipp_doCupsRequest returns to its caller, when the printer *)
(* is cooperative and does not answer 100-Continue forever.                *)
Termination == (pc \in {"top", "negotiate", "send"}) ~> (pc = "done")

(* The version globals keep the negotiator's promise (IppVersionRegister) *)
(* whatever the caller, the probes and the other threads do: they start   *)
(* at 2.0, NEW_REQUEST_SEQUENCE puts them back to 2.0, and a probe only    *)
(* stores a version the printer lists with no later one listed. Every     *)
(* other step of ipp_doCupsRequest and of the negotiator leaves them.      *)
VersionRefinement == Register!RegSpec

(* Spec, section 8: after a version rejection the negotiator must not keep *)
(* the rejected version for the next request of the same operation.        *)
RejectedNotRetained ==
    pc = "send" /\ verState = "UNSUPPORTED" => stamp # lastRejected

(* Spec, section 4.5: once a retry budget is exceeded the request fails    *)
(* and ipp_doCupsRequest returns no result.                                *)
ExhaustedReturnsNothing ==
    pc = "done" /\ bad > BadMax => response = "NULL"

(* Spec, section 5: every exit path of test_and_set_ipp_version releases  *)
(* the response it holds.                                                  *)
ProbeReleasesResponse == neg.phase = "returned" => neg.held = 0

(* Spec, section 4.5: every retry loop checks wprintIsRunning() before     *)
(* each attempt, so after shutdown at most the request already decided on *)
(* goes out.                                                               *)
StopIsPrompt == lateSends <= 1

=============================================================================
