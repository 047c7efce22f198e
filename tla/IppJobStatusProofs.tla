------------------------- MODULE IppJobStatusProofs -------------------------
(***************************************************************************)
(* Proofs about the job-status poller of module IppJobStatus, for every   *)
(* value of the retry maxima.                                              *)
(***************************************************************************)
EXTENDS IppJobStatus, IppVersionProofs, TLAPS

USE RetryAssumption, CooperativeAssumption

\* get_JobStatus is inside its do-while loop.
InLoop == jpc \in {"top", "negotiate", "send"}

\* Sends the poll may still spend on a resource-path switch and on a
\* version rejection: tryNextResourceExtension advances the path once, and
\* a cooperative printer never rejects the renegotiated version.
PathLeft == IF NextResource(path) # path THEN 1 ELSE 0
VerLeft == IF jverState = "RESOLVED" THEN 1 ELSE 0

\* The variables the argument reads, in their types.
JobCounters ==
    /\ jpc \in {"idle", "top", "negotiate", "send", "exit"}
    /\ jsvc \in Nat /\ jbad \in Nat /\ jsends \in Nat
    /\ path \in 0..2
    /\ jverState \in {"RESOLVED", "UNSUPPORTED"}
    /\ neg \in NegType
    /\ advertised \in SUBSET Versions

(* The strengthening of JobAttemptBound. The first conjuncts carry the    *)
(* fact that a renegotiated version is advertised, so a cooperative        *)
(* printer rejects at most one version per poll. The last three account   *)
(* for every send of the poll: each one in the loop used up a service or  *)
(* bad-request retry, the path switch or the version rejection, and the   *)
(* loop only goes on while both retry counters are below their maxima.   *)
JobInv ==
    /\ JobCounters
    /\ Cooperative => advertised \cap rejects = {}
    /\ neg.phase # "idle" => jpc = "negotiate"
    /\ neg.ret = "OK" => ippVersion \in advertised
    /\ jpc = "send" /\ jverState = "UNSUPPORTED" => jstamp \in advertised
    /\ Cooperative /\ InLoop => jsends + PathLeft + VerLeft <= jsvc + jbad + 2
    /\ InLoop => jsends = 0 \/ (jsvc < SvcMax /\ jbad < BadMax)
    /\ Cooperative /\ ~InLoop => jsends <= MaxJobSends


-----------------------------------------------------------------------------
(* A poll starts with nothing sent and the negotiator idle. *)
LEMMA JobInvInit == JobInit => JobInv
BY DEF JobInit, VersionInit, JobInv, JobCounters, InLoop, NegIdle, NegType,
       NegPhases, MaxJobSends

(* One send of get_JobStatus and the classification of its answer keeps   *)
(* the invariant: each branch that loops uses up one unit of a budget, and *)
(* each branch that breaks stays within MaxJobSends.                       *)
LEMMA JobSendStep ==
    ASSUME JobInv, JobSend
    PROVE  JobInv'
<1>1. /\ jpc = "send" /\ neg.phase = "idle"
      /\ UNCHANGED <<ippVersion, advertised, rejects, neg, jstamp>>
      /\ jsends' = Saturate(jsends + 1, MaxJobSends + 1)
  BY DEF JobSend, JobInv
<1>2. Cooperative => jsends + 1 <= MaxJobSends
  BY <1>1 DEF JobInv, JobCounters, InLoop, PathLeft, VerLeft, MaxJobSends
<1>3. /\ jsends' \in Nat
      /\ Cooperative => jsends' = jsends + 1
  BY <1>1, <1>2 DEF Saturate, JobInv, JobCounters, MaxJobSends
<1>4. jverState = "UNSUPPORTED" => jstamp \in advertised
  BY <1>1 DEF JobInv
<1>5. PICK a \in Answers(jstamp) :
        \/ /\ ~a.resp
           /\ \/ /\ a.status = "SERVICE_UNAVAILABLE" /\ jsvc < SvcMax
                 /\ jsvc' = jsvc + 1 /\ Loop(jbad, jsvc + 1)
                 /\ UNCHANGED <<jbad, path>>
              \/ /\ a.status = "BAD_REQUEST"
                 /\ jbad' = jbad + 1 /\ Loop(jbad + 1, jsvc)
                 /\ UNCHANGED <<jsvc, path>>
              \/ /\ a.status = "NOT_FOUND" /\ NextResource(path) # path
                 /\ path' = NextResource(path) /\ Loop(jbad, jsvc)
                 /\ UNCHANGED <<jsvc, jbad>>
              \/ /\ jpc' = "exit"
                 /\ UNCHANGED <<jsvc, jbad, path>>
           /\ UNCHANGED jverState
        \/ /\ jbad' = jbad + 1 /\ Loop(jbad + 1, jsvc)
           /\ UNCHANGED <<jsvc, jverState, path>>
        \/ /\ a.resp /\ a.status = "VERSION_NOT_SUPPORTED"
           /\ jverState' = "UNSUPPORTED" /\ Loop(jbad, jsvc)
           /\ UNCHANGED <<jsvc, jbad, path>>
        \/ /\ jpc' = "exit"
           /\ UNCHANGED <<jsvc, jbad, jverState, path>>
  BY DEF JobSend
<1>6. CASE /\ jsvc < SvcMax /\ jsvc' = jsvc + 1 /\ Loop(jbad, jsvc + 1)
           /\ UNCHANGED <<jbad, path, jverState>>
  BY <1>1, <1>3, <1>6 DEF JobInv, JobCounters, InLoop, PathLeft, VerLeft, Loop, MaxJobSends
<1>7. CASE /\ jbad' = jbad + 1 /\ Loop(jbad + 1, jsvc)
           /\ UNCHANGED <<jsvc, path, jverState>>
  BY <1>1, <1>3, <1>7 DEF JobInv, JobCounters, InLoop, PathLeft, VerLeft, Loop, MaxJobSends
<1>8. CASE /\ NextResource(path) # path
           /\ path' = NextResource(path) /\ Loop(jbad, jsvc)
           /\ UNCHANGED <<jsvc, jbad, jverState>>
  BY <1>1, <1>3, <1>8 DEF NextResource, JobInv, JobCounters, InLoop, PathLeft, VerLeft, Loop, MaxJobSends
<1>9. CASE /\ jpc' = "exit"
           /\ UNCHANGED <<jsvc, jbad, jverState, path>>
  BY <1>1, <1>2, <1>3, <1>9 DEF JobInv, JobCounters, InLoop, PathLeft, VerLeft, Loop, MaxJobSends
<1>10. CASE /\ a.resp /\ a.status = "VERSION_NOT_SUPPORTED"
            /\ jverState' = "UNSUPPORTED" /\ Loop(jbad, jsvc)
            /\ UNCHANGED <<jsvc, jbad, path>>
  <2>1. Cooperative /\ jverState = "UNSUPPORTED" => jstamp \notin rejects
    BY <1>4 DEF JobInv
  <2>2. jstamp \notin rejects => ~(a.resp /\ a.status = "VERSION_NOT_SUPPORTED")
    BY DEF Answers, RespStatus
  <2>3. Cooperative => jverState = "RESOLVED"
    BY <1>10, <2>1, <2>2 DEF JobInv, JobCounters
  <2>4. QED
    BY <1>1, <1>3, <1>10, <2>3 DEF JobInv, JobCounters, InLoop, PathLeft, VerLeft, Loop, MaxJobSends
<1>11. QED
  BY <1>5, <1>6, <1>7, <1>8, <1>9, <1>10

(* Every step of the poller and of its negotiator keeps the invariant. *)
LEMMA JobInvStep == JobInv /\ [JobNext]_jvars => JobInv'
<1> SUFFICES ASSUME JobInv, [JobNext]_jvars PROVE JobInv'
  OBVIOUS
<1>1. CASE JobCall
  BY <1>1 DEF JobCall, JobInv, JobCounters, InLoop, PathLeft, VerLeft
<1>2. CASE JobTop
  <2>1. CASE jverState = "RESOLVED"
    BY <1>2, <2>1 DEF JobTop, JobInv, JobCounters, InLoop, PathLeft, VerLeft
  <2>2. CASE jverState = "UNSUPPORTED"
    <3>1. ProbeFrame(1) \in NegType /\ ProbeFrame(1).phase = "probe"
          /\ ProbeFrame(1).ret = "ERROR"
      BY DEF ProbeFrame, NegType, NegPhases
    <3>2. QED
      BY <1>2, <2>2, <3>1 DEF JobTop, StartDetermine, JobInv, JobCounters, InLoop,
         PathLeft, VerLeft
  <2>3. QED
    BY <2>1, <2>2 DEF JobInv, JobCounters
<1>3. CASE JobNegotiated
  <2>1. NegIdle \in NegType /\ NegIdle.phase = "idle" /\ NegIdle.ret = "ERROR"
    BY DEF NegIdle, NegType, NegPhases
  <2>2. jpc = "negotiate" /\ jpc' \in {"send", "exit"}
    BY <1>3 DEF JobNegotiated
  <2>3. QED
    BY <1>3, <2>1, <2>2 DEF JobNegotiated, JobInv, JobCounters, InLoop, PathLeft,
       VerLeft, MaxJobSends
<1>4. CASE JobSend
  BY <1>4, JobSendStep
<1>5. CASE JobReturn
  BY <1>5 DEF JobReturn, JobInv, JobCounters, InLoop
<1>6. CASE JobProbe
  <2>1. /\ neg' \in NegType
        /\ neg'.ret = "OK" => ippVersion' \in advertised
        /\ neg.phase # "idle" /\ neg'.phase # "idle"
        /\ UNCHANGED <<advertised, rejects>>
    BY <1>6, NegotiatorStep DEF JobProbe, JobInv, JobCounters
  <2>2. QED
    BY <1>6, <2>1 DEF JobProbe, JobInv, JobCounters, InLoop, PathLeft, VerLeft
<1>7. CASE UNCHANGED jvars
  BY <1>7 DEF jvars, JobInv, JobCounters, InLoop, PathLeft, VerLeft
<1>8. QED
  BY <1>1, <1>2, <1>3, <1>4, <1>5, <1>6, <1>7 DEF JobNext

(* With a cooperative printer one poll of get_JobStatus sends at most     *)
(* SvcMax + BadMax + 1 requests, for every pair of retry budgets.          *)
THEOREM JobAttemptBounded == JobSpec => []JobAttemptBound
<1>1. JobInv => JobAttemptBound
  BY DEF JobInv, JobCounters, InLoop, PathLeft, VerLeft, JobAttemptBound, MaxJobSends
<1>2. QED
  BY <1>1, JobInvInit, JobInvStep, PTL DEF JobSpec

-----------------------------------------------------------------------------
(* The strengthening of JobTypeOK: JobInv, and a poll that has sent       *)
(* nothing yet has counted no retry, so the one bad-request retry the      *)
(* do-while body makes before its condition is tested stays in budget.    *)
JobTypeInv ==
    /\ JobInv
    /\ JobTypeOK
    /\ InLoop /\ jsends = 0 => jsvc = 0 /\ jbad = 0

(* The parsers of set_jobStateDyn and parse_jobStateReasons leave         *)
(* job_state_dyn->job_state with a value of the enum it may hold.         *)
LEMMA ParseJobStateType ==
    ASSUME NEW st \in JobStateAttr, NEW h \in BOOLEAN, NEW old \in JobDynValues
    PROVE  ParseJobState(st, h, old) \in JobDynValues
BY DEF ParseJobState, JobStateAttr, JobDynValues

(* One send keeps the counters in their budgets when the bad-request      *)
(* budget is at least one: the do-while body retries a bad request before *)
(* the condition is tested only on the first send, when nothing is       *)
(* counted yet.                                                            *)
LEMMA JobSendType ==
    ASSUME BadMax >= 1, JobTypeInv, JobSend
    PROVE  /\ jsvc' \in 0..SvcMax /\ jbad' \in 0..BadMax
           /\ jsends' \in 1..(MaxJobSends + 1)
           /\ path' \in 0..2 /\ jobDyn' \in JobDynValues /\ jfresh' \in BOOLEAN
           /\ jverState' \in {"RESOLVED", "UNSUPPORTED"}
           /\ jpc' \in {"top", "exit"}
<1>1. /\ jpc = "send"
      /\ jsends = 0 \/ (jsvc < SvcMax /\ jbad < BadMax)
      /\ jsends = 0 => jsvc = 0 /\ jbad = 0
      /\ jsvc \in 0..SvcMax /\ jbad \in 0..BadMax /\ jsends \in 0..(MaxJobSends + 1)
      /\ path \in 0..2 /\ jobDyn \in JobDynValues /\ jfresh \in BOOLEAN
  BY DEF JobSend, JobTypeInv, JobInv, JobTypeOK, InLoop
<1>2. jbad + 1 <= BadMax
  BY <1>1
<1>3. jsends' \in 1..(MaxJobSends + 1)
  BY <1>1 DEF JobSend, Saturate, MaxJobSends
<1>4. PICK a \in Answers(jstamp) :
        \/ /\ ~a.resp
           /\ jobDyn' = "UNABLE_TO_CONNECT" /\ jfresh' = TRUE
           /\ \/ /\ jsvc < SvcMax /\ jsvc' = jsvc + 1 /\ Loop(jbad, jsvc + 1)
                 /\ UNCHANGED <<jbad, path>>
              \/ /\ jbad' = jbad + 1 /\ Loop(jbad + 1, jsvc)
                 /\ UNCHANGED <<jsvc, path>>
              \/ /\ path' = NextResource(path) /\ Loop(jbad, jsvc)
                 /\ UNCHANGED <<jsvc, jbad>>
              \/ /\ jpc' = "exit"
                 /\ UNCHANGED <<jsvc, jbad, path>>
           /\ UNCHANGED jverState
        \/ /\ jbad' = jbad + 1 /\ Loop(jbad + 1, jsvc)
           /\ UNCHANGED <<jsvc, jverState, path, jobDyn, jfresh>>
        \/ /\ jverState' = "UNSUPPORTED" /\ Loop(jbad, jsvc)
           /\ UNCHANGED <<jsvc, jbad, path, jobDyn, jfresh>>
        \/ /\ \E st \in JobStateAttr, hasReasons \in BOOLEAN :
                /\ jobDyn' = ParseJobState(st, hasReasons, jobDyn)
                /\ jfresh' = (jfresh \/ ~hasReasons \/ st # "OUT_OF_RANGE")
           /\ jpc' = "exit"
           /\ UNCHANGED <<jsvc, jbad, jverState, path>>
  BY DEF JobSend
<1>5. jobDyn' \in JobDynValues
  BY <1>1, <1>4, ParseJobStateType DEF JobDynValues
<1>6. NextResource(path) \in 0..2
  BY <1>1 DEF NextResource
<1>7. jsvc' \in 0..SvcMax /\ jbad' \in 0..BadMax /\ path' \in 0..2
  BY <1>1, <1>2, <1>4, <1>6
<1>8. jfresh' \in BOOLEAN /\ jverState' \in {"RESOLVED", "UNSUPPORTED"}
  BY <1>1, <1>4 DEF JobTypeInv, JobTypeOK
<1>9. jpc' \in {"top", "exit"}
  BY <1>4 DEF Loop
<1>10. QED
  BY <1>3, <1>5, <1>7, <1>8, <1>9

(* Every step keeps the strengthening when the bad-request budget is at   *)
(* least one.                                                              *)
LEMMA JobTypeStep ==
    ASSUME BadMax >= 1
    PROVE  JobTypeInv /\ [JobNext]_jvars => JobTypeInv'
<1> SUFFICES ASSUME JobTypeInv, [JobNext]_jvars PROVE JobTypeInv'
  OBVIOUS
<1>0. JobInv'
  BY JobInvStep DEF JobTypeInv
<1>1. CASE JobCall
  <2>1. JobTypeOK'
    <3>1. jsends' \in 0..(MaxJobSends + 1) /\ jsvc' \in 0..SvcMax /\ jbad' \in 0..BadMax
      BY <1>1 DEF JobCall, MaxJobSends
    <3>2. QED
      BY <1>1, <3>1 DEF JobCall, JobTypeInv, JobTypeOK
  <2>2. QED
    BY <1>0, <1>1, <2>1 DEF JobCall, JobTypeInv
<1>2. CASE JobTop
  <2>1. ProbeFrame(1) \in NegType
    BY DEF ProbeFrame, NegType, NegPhases
  <2>2. QED
    BY <1>0, <1>2, <2>1 DEF JobTop, StartDetermine, JobTypeInv, JobTypeOK, InLoop
<1>3. CASE JobNegotiated
  <2>1. NegIdle \in NegType
    BY DEF NegIdle, NegType, NegPhases
  <2>2. QED
    BY <1>0, <1>3, <2>1 DEF JobNegotiated, JobTypeInv, JobTypeOK, InLoop
<1>4. CASE JobSend
  <2>1. UNCHANGED <<ippVersion, advertised, rejects, neg, jstamp>>
    BY <1>4 DEF JobSend
  <2>2. QED
    BY <1>0, <1>4, <2>1, JobSendType DEF JobTypeInv, JobTypeOK, InLoop
<1>5. CASE JobReturn
  BY <1>0, <1>5 DEF JobReturn, JobTypeInv, JobTypeOK, InLoop
<1>6. CASE JobProbe
  <2>1. /\ neg' \in NegType
        /\ UNCHANGED <<advertised, rejects>>
        /\ ippVersion' \in advertised \cup {ippVersion}
    BY <1>6, NegotiatorStep DEF JobProbe, JobTypeInv, JobInv, JobCounters
  <2>2. QED
    BY <1>0, <1>6, <2>1 DEF JobProbe, JobTypeInv, JobTypeOK, InLoop
<1>7. CASE UNCHANGED jvars
  BY <1>0, <1>7 DEF jvars, JobTypeInv, JobTypeOK, InLoop
<1>8. QED
  BY <1>1, <1>2, <1>3, <1>4, <1>5, <1>6, <1>7 DEF JobNext

(* When the bad-request budget is at least one, every variable of the     *)
(* poller keeps its type, for every pair of retry budgets: in particular  *)
(* neither retry counter of get_JobStatus ever passes its maximum. With a *)
(* zero budget the first bad-request answer takes the counter to one,     *)
(* which TLC shows.                                                        *)
THEOREM JobTypeCorrect == BadMax >= 1 => (JobSpec => []JobTypeOK)
<1> SUFFICES ASSUME BadMax >= 1 PROVE JobSpec => []JobTypeOK
  OBVIOUS
<1>1. JobInit => JobTypeInv
  <2> SUFFICES ASSUME JobInit PROVE JobTypeInv
    OBVIOUS
  <2>1. NegIdle \in NegType /\ V20 \in Versions /\ "NONE" \in JobDynValues
    BY DEF NegIdle, NegType, NegPhases, Versions, V20, JobDynValues
  <2>2. 0 \in 0..(MaxJobSends + 1) /\ 0 \in 0..SvcMax /\ 0 \in 0..BadMax
    BY DEF MaxJobSends
  <2>3. QED
    BY <2>1, <2>2, JobInvInit DEF JobInit, VersionInit, JobTypeInv, JobTypeOK, InLoop
<1>2. JobTypeInv /\ [JobNext]_jvars => JobTypeInv'
  BY JobTypeStep
<1>3. QED
  BY <1>1, <1>2, PTL DEF JobSpec, JobTypeInv

-----------------------------------------------------------------------------
(* After a cooperative printer rejected a version, every request of the   *)
(* poll is stamped with a version the printer accepts, for every pair of   *)
(* retry budgets: JobInv carries the advertised version from the probe     *)
(* through JobNegotiated to the stamp.                                     *)
THEOREM JobRenegotiationSound == JobSpec => []JobRenegotiatedVersionAccepted
<1>1. JobInv => JobRenegotiatedVersionAccepted
  BY DEF JobInv, JobRenegotiatedVersionAccepted
<1>2. QED
  BY <1>1, JobInvInit, JobInvStep, PTL DEF JobSpec

=============================================================================
