---------------------------- MODULE IppJobStatus ----------------------------
(***************************************************************************)
(* get_JobStatus (src/jni/ipphelper/ipphelper.c, lines 569-700), the job  *)
(* state extraction set_jobStateDyn / parse_jobStateReasons (459-567) and  *)
(* the resource-path resolver tryNextResourceExtension (1850-1874), with  *)
(* the version negotiator of module IppVersion. A status monitor polls one *)
(* job again and again, passing the same printer URI and job_state_dyn.   *)
(*                                                                         *)
(* jpc is where the poller is: "idle" between polls, "top" at the head of *)
(* the do-while body, "negotiate" inside determine_ipp_version, "send"    *)
(* with the request stamped, "exit" once the loop is left. jsvc and jbad  *)
(* are the loop's two counters, jverState its ipp_version_supported,      *)
(* jstamp the version set on the request. path is the index of the URI's  *)
(* resource in resource_extensions_arr {DEFAULT_IPP_URI_RESOURCE, "/"}, or *)
(* 2 for any other resource; the URI buffer keeps it across polls. jobDyn *)
(* is job_state_dyn->job_state. jsends and jfresh are history: requests   *)
(* sent by this poll, and whether it has written jobDyn.                  *)
(***************************************************************************)
EXTENDS IppVersion

VARIABLES jpc, jsvc, jbad, jverState, jstamp, path, jobDyn, jfresh, jsends

jvars == <<ippVersion, running, advertised, rejects, neg, lateSends,
           jpc, jsvc, jbad, jverState, jstamp, path, jobDyn, jfresh, jsends>>

\* The value of job-state in a response: absent, one of the enum values
\* set_jobStateDyn maps (three stand for the seven), or a value outside
\* the enum.
JobStateAttr == {"ABSENT", "PENDING", "PROCESSING", "COMPLETED", "OUT_OF_RANGE"}

\* What job_state_dyn->job_state can hold; "NONE" is the caller's initial value.
JobDynValues == {"NONE", "UNABLE_TO_CONNECT", "PENDING", "PROCESSING", "COMPLETED"}

\* The most requests one poll sends to a cooperative printer.
MaxJobSends == SvcMax + BadMax + 1

JobInit ==
    /\ VersionInit
    /\ jpc = "idle"
    /\ jsvc = 0 /\ jbad = 0
    /\ jverState = "RESOLVED"
    /\ jstamp = V20
    /\ path \in 0..2
    /\ jobDyn = "NONE"
    /\ jfresh = FALSE
    /\ jsends = 0

-----------------------------------------------------------------------------
\* Mutant of NextResource: the last candidate advances back to the first.
NextResourceWraps(p) == IF p = 2 THEN 2 ELSE (p + 1) % 2

\* tryNextResourceExtension: the index of the next candidate path, or the
\* same index when the current resource is the last one or not a candidate
\* (lines 1860-1873).
NextResource(p) == IF p >= 1 THEN p ELSE p + 1

\* job_state_dyn->job_state after set_jobStateDyn and parse_jobStateReasons
\* on a response with job-state st and with or without job-state-reasons
\* (lines 459-567). An out-of-range job-state hits the default case with
\* *job_state not IPP_JOB_UNKNOWN, which writes nothing.
ParseJobState(st, hasReasons, old) ==
    IF ~hasReasons \/ st = "ABSENT" THEN "UNABLE_TO_CONNECT"
    ELSE IF st = "OUT_OF_RANGE" THEN old
    ELSE st

\* Mutant of Loop: the do-while condition tests <= instead of <.
LoopLoose(b, s) == jpc' = IF b <= BadMax /\ s <= SvcMax THEN "top" ELSE "exit"

\* A continue goes to the do-while condition (lines 694-695).
Loop(b, s) == jpc' = IF b < BadMax /\ s < SvcMax THEN "top" ELSE "exit"

-----------------------------------------------------------------------------
\* The status monitor calls get_JobStatus with non-NULL out-parameters:
\* *job_state is set to IPP_JOB_UNKNOWN and the counters start at zero
\* (lines 586-609).
JobCall ==
    /\ jpc = "idle"
    /\ jpc' = "top"
    /\ jsvc' = 0 /\ jbad' = 0
    /\ jverState' = "RESOLVED"
    /\ jfresh' = FALSE
    /\ jsends' = 0
    /\ UNCHANGED <<ippVersion, running, advertised, rejects, neg, lateSends,
                   jstamp, path, jobDyn>>

\* Head of the do-while body: set_ipp_version stamps the global version,
\* or renegotiates it first (lines 613-621, 158-180).
JobTop ==
    /\ jpc = "top"
    /\ \/ /\ jverState = "RESOLVED"
          /\ jstamp' = ippVersion
          /\ jpc' = "send"
          /\ UNCHANGED neg
       \/ /\ jverState = "UNSUPPORTED"
          /\ StartDetermine
          /\ jpc' = "negotiate"
          /\ UNCHANGED jstamp
    /\ UNCHANGED <<ippVersion, running, advertised, rejects, lateSends>>
    /\ UNCHANGED <<jsvc, jbad, jverState, path, jobDyn, jfresh, jsends>>

\* determine_ipp_version returned: stamp its version, or break out of the
\* loop with IPP_VERSION_NOT_SUPPORTED (lines 616-620).
JobNegotiated ==
    /\ jpc = "negotiate"
    /\ neg.phase = "done"
    /\ neg' = NegIdle
    /\ IF neg.ret = "OK"
       THEN /\ jstamp' = ippVersion
            /\ jpc' = "send"
       ELSE /\ jpc' = "exit"
            /\ UNCHANGED jstamp
    /\ UNCHANGED <<ippVersion, running, advertised, rejects, lateSends>>
    /\ UNCHANGED <<jsvc, jbad, jverState, path, jobDyn, jfresh, jsends>>

\* cupsDoRequest and the classification of its answer (lines 632-692).
JobSend ==
    /\ jpc = "send"
    /\ jsends' = Saturate(jsends + 1, MaxJobSends + 1)
    /\ \E a \in Answers(jstamp) :
        \* no response: job_state_dyn is set to unable-to-connect first
        \/ /\ ~a.resp
           /\ jobDyn' = "UNABLE_TO_CONNECT" /\ jfresh' = TRUE
           /\ \/ /\ a.status = "SERVICE_UNAVAILABLE" /\ jsvc < SvcMax
                 /\ jsvc' = jsvc + 1 /\ Loop(jbad, jsvc + 1)
                 /\ UNCHANGED <<jbad, path>>
              \/ /\ a.status = "BAD_REQUEST"
                 /\ jbad' = jbad + 1 /\ Loop(jbad + 1, jsvc)
                 /\ UNCHANGED <<jsvc, path>>
              \/ /\ a.status = "NOT_FOUND" /\ NextResource(path) # path
                 /\ path' = NextResource(path) /\ Loop(jbad, jsvc)
                 /\ UNCHANGED <<jsvc, jbad>>
              \* internal error, no next resource path, or any other
              \* status: the loop breaks
              \/ /\ \/ a.status \in {"INTERNAL_ERROR", "OTHER"}
                    \/ a.status = "SERVICE_UNAVAILABLE" /\ jsvc >= SvcMax
                    \/ a.status = "NOT_FOUND" /\ NextResource(path) = path
                 /\ jpc' = "exit"
                 /\ UNCHANGED <<jsvc, jbad, path>>
           /\ UNCHANGED jverState
        \/ /\ a.resp /\ a.status = "BAD_REQUEST"
           /\ jbad' = jbad + 1 /\ Loop(jbad + 1, jsvc)
           /\ UNCHANGED <<jsvc, jverState, path, jobDyn, jfresh>>
        \/ /\ a.resp /\ a.status = "VERSION_NOT_SUPPORTED"
           /\ jverState' = "UNSUPPORTED" /\ Loop(jbad, jsvc)
           /\ UNCHANGED <<jsvc, jbad, path, jobDyn, jfresh>>
        \* any other response is parsed for the job's state
        \/ /\ a.resp /\ a.status \in {"OK", "OTHER"}
           /\ \E st \in JobStateAttr, hasReasons \in BOOLEAN :
                /\ jobDyn' = ParseJobState(st, hasReasons, jobDyn)
                /\ jfresh' = (jfresh \/ ~hasReasons \/ st # "OUT_OF_RANGE")
           /\ jpc' = "exit"
           /\ UNCHANGED <<jsvc, jbad, jverState, path>>
    /\ UNCHANGED <<ippVersion, running, advertised, rejects, neg, lateSends,
                   jstamp>>

\* get_JobStatus returns to the status monitor.
JobReturn ==
    /\ jpc = "exit"
    /\ jpc' = "idle"
    /\ UNCHANGED <<ippVersion, running, advertised, rejects, neg, lateSends,
                   jsvc, jbad, jverState, jstamp, path, jobDyn, jfresh, jsends>>

\* The negotiator's steps, run on the poller's thread.
JobProbe ==
    /\ ProbeSend \/ ProbeNext
    /\ UNCHANGED <<jpc, jsvc, jbad, jverState, jstamp, path, jobDyn, jfresh,
                   jsends>>

JobNext ==
    \/ JobCall \/ JobTop \/ JobNegotiated \/ JobSend \/ JobReturn \/ JobProbe

\* Every step of a poll in progress is weakly fair: each send returns
\* within the socket timeout.
JobFairness ==
    /\ WF_jvars(JobTop) /\ WF_jvars(JobNegotiated) /\ WF_jvars(JobSend)
    /\ WF_jvars(JobProbe)

JobSpec == JobInit /\ [][JobNext]_jvars /\ JobFairness

-----------------------------------------------------------------------------
JobTypeOK ==
    /\ ippVersion \in Versions
    /\ advertised \in SUBSET Versions
    /\ rejects \in SUBSET Versions
    /\ neg \in NegType
    /\ jpc \in {"idle", "top", "negotiate", "send", "exit"}
    /\ jsvc \in 0..SvcMax
    /\ jbad \in 0..BadMax
    /\ jverState \in {"RESOLVED", "UNSUPPORTED"}
    /\ jstamp \in Versions
    /\ path \in 0..2
    /\ jobDyn \in JobDynValues
    /\ jfresh \in BOOLEAN
    /\ jsends \in 0..(MaxJobSends + 1)

(* With a cooperative printer one poll of get_JobStatus sends at most      *)
(* SvcMax + BadMax + 1 requests: the do-while condition stops each budget *)
(* one short, one resource-path switch and one version rejection add one  *)
(* send each, and the final answer.                                        *)
JobAttemptBound == Cooperative => jsends <= MaxJobSends

(* After a cooperative printer rejected a version, the request           *)
(* get_JobStatus sends next is stamped with a version it accepts: the      *)
(* poller renegotiates through the same determine_ipp_version.            *)
JobRenegotiatedVersionAccepted ==
    Cooperative /\ jpc = "send" /\ jverState = "UNSUPPORTED" => jstamp \notin rejects

(* Every poll of get_JobStatus returns, when the printer is cooperative:  *)
(* the resource path advances at most once and is never rewound, and a    *)
(* renegotiated version is not rejected again.                             *)
JobTermination == (jpc \in {"top", "negotiate", "send"}) ~> (jpc = "exit")

(* Spec, section 4.5 (sections 4.5 and 8): a printer that keeps answering *)
(* service-unavailable gets exactly SvcMax + 1 attempts before the request *)
(* fails.                                                                  *)
ServiceBudgetNPlusOne ==
    jpc = "exit" /\ jsends > 0 /\ jsends = jsvc => jsends = SvcMax + 1

(* Spec, section 7: a status query that fails leaves its out-parameter    *)
(* structure in a defined default state: every poll writes                 *)
(* job_state_dyn->job_state before it returns.                             *)
JobStateFresh == jpc = "exit" => jfresh

=============================================================================
