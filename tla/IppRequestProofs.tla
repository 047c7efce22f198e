-------------------------- MODULE IppRequestProofs --------------------------
(***************************************************************************)
(* Proofs about the request/retry engine of module IppRequest, for every  *)
(* value of the retry maxima.                                              *)
(***************************************************************************)
EXTENDS IppRequest, IppVersionProofs, TLAPS

USE RetryAssumption, ContinueAssumption, CooperativeAssumption

-----------------------------------------------------------------------------
(* While ipp_doCupsRequest is looping no retry counter has passed its      *)
(* maximum: the increment that passes it also breaks the loop.             *)
LoopBounds ==
    pc \in {"top", "negotiate", "send"} =>
        /\ svc <= SvcMax /\ bad <= BadMax /\ internal <= InternalMax

TypeInv == TypeOK /\ LoopBounds

(* The initial state of the model is well typed. *)
LEMMA TypeInit == Init => TypeInv
BY DEF Init, VersionInit, TypeInv, TypeOK, LoopBounds, NegIdle, NegPhases, NegType,
       Versions, MaxAttempts, NoVersion

(* Every step of ipp_doCupsRequest, of the negotiator and of the other     *)
(* threads keeps every variable in its type and the retry counters within *)
(* their budgets while the loop runs.                                      *)
LEMMA TypeStep == TypeInv /\ [Next]_vars => TypeInv'
<1> SUFFICES ASSUME TypeOK, LoopBounds, [Next]_vars PROVE TypeInv'
  BY DEF TypeInv
<1> USE DEF TypeInv, TypeOK, LoopBounds
<1>1. CASE Call
  BY <1>1 DEF Call, NoVersion, MaxAttempts
<1>2. CASE NewRequestSequence
  BY <1>2 DEF NewRequestSequence, callVars, Versions
<1>3. CASE Top
  BY <1>3 DEF Top, StartDetermine, ProbeFrame, NegPhases, NegType
<1>4. CASE Negotiated
  BY <1>4 DEF Negotiated, NegIdle, NegPhases, NegType
<1>5. CASE SendContinue
  BY <1>5 DEF SendContinue
<1>6. CASE Send
  <2>1. PICK a \in Answers(stamp) :
            /\ pc = "send" /\ cont' = 0
            /\ attempts' = Saturate(attempts + 1, MaxAttempts + 1)
            /\ LateSend
            /\ UNCHANGED <<ippVersion, running, advertised, rejects, neg, stamp>>
            /\ \/ /\ ~a.resp /\ a.status = "INTERNAL_ERROR"
                  /\ Retry(internal, InternalMax)
                  /\ UNCHANGED <<svc, bad, verState, response, lastRejected>>
               \/ /\ ~a.resp /\ a.status = "SERVICE_UNAVAILABLE"
                  /\ Retry(svc, SvcMax)
                  /\ UNCHANGED <<internal, bad, verState, response, lastRejected>>
               \/ /\ ~a.resp /\ a.status = "BAD_REQUEST"
                  /\ Retry(bad, BadMax)
                  /\ UNCHANGED <<internal, svc, verState, response, lastRejected>>
               \/ /\ a.resp /\ a.status = "BAD_REQUEST"
                  /\ Retry(bad, BadMax)
                  /\ response' = IF bad + 1 > BadMax THEN a.status ELSE "NULL"
                  /\ UNCHANGED <<internal, svc, verState, lastRejected>>
               \/ /\ a.resp /\ a.status = "VERSION_NOT_SUPPORTED"
                  /\ verState' = "UNSUPPORTED"
                  /\ lastRejected' = stamp
                  /\ pc' = "top"
                  /\ UNCHANGED <<internal, svc, bad, response>>
               \/ /\ ~a.resp /\ a.status \in {"NOT_FOUND", "OTHER"}
                  /\ pc' = "done"
                  /\ UNCHANGED <<internal, svc, bad, verState, response, lastRejected>>
               \/ /\ a.resp /\ a.status \in {"OK", "OTHER"}
                  /\ pc' = "done"
                  /\ response' = a.status
                  /\ UNCHANGED <<internal, svc, bad, verState, lastRejected>>
    BY <1>6 DEF Send
  <2>2. attempts' \in 0..(MaxAttempts + 1) /\ lateSends' \in 0..2
    BY <2>1 DEF Saturate, LateSend, MaxAttempts
  <2>3. QED
    BY <2>1, <2>2, AnswerType DEF Retry, RespStatus
<1>7. CASE Return
  BY <1>7 DEF Return
<1>8. CASE Probe
  <2>1. CASE ProbeSend
    <3>1. PICK a \in Answers(ProbeOrder[neg.idx]) :
              \/ /\ ~a.resp
                 /\ a.status = "SERVICE_UNAVAILABLE" /\ neg.svc < SvcMax
                 /\ neg' = [neg EXCEPT !.svc = @ + 1]
                 /\ UNCHANGED ippVersion
              \/ /\ a.status = "BAD_REQUEST" /\ neg.bad <= BadMax
                 /\ neg' = [neg EXCEPT !.bad = @ + 1]
                 /\ UNCHANGED ippVersion
              \/ /\ ~a.resp
                 /\ neg' = [neg EXCEPT !.phase = "returned", !.ret = "ERROR"]
                 /\ UNCHANGED ippVersion
              \/ /\ a.resp /\ a.status = "BAD_REQUEST" /\ neg.bad > BadMax
                 /\ neg' = [neg EXCEPT !.phase = "returned", !.ret = "ERROR",
                                       !.held = 1]
                 /\ UNCHANGED ippVersion
              \/ /\ \E vs \in {advertised, {}} :
                      IF vs # {}
                      THEN /\ ippVersion' = Highest(vs)
                           /\ neg' = [neg EXCEPT !.phase = "returned", !.ret = "OK"]
                      ELSE /\ neg' = [neg EXCEPT !.phase = "returned", !.ret = "ERROR"]
                           /\ UNCHANGED ippVersion
      BY <2>1 DEF ProbeSend
    <3>2. ippVersion' \in Versions
      BY <3>1, HighestInList
    <3>3. neg' \in NegType
      <4>1. \/ neg' = [neg EXCEPT !.svc = @ + 1] /\ neg.svc < SvcMax
            \/ neg' = [neg EXCEPT !.bad = @ + 1] /\ neg.bad <= BadMax
            \/ neg' = [neg EXCEPT !.phase = "returned", !.ret = "ERROR"]
            \/ neg' = [neg EXCEPT !.phase = "returned", !.ret = "ERROR", !.held = 1]
            \/ neg' = [neg EXCEPT !.phase = "returned", !.ret = "OK"]
        BY <3>1
      <4>2. QED
        BY <4>1, NegUpdate DEF NegPhases
    <3>4. lateSends' \in 0..2
      BY <2>1 DEF ProbeSend, LateSend, Saturate
    <3>5. QED
      BY <1>8, <2>1, <3>2, <3>3, <3>4 DEF Probe, ProbeSend
  <2>2. CASE ProbeNext
    BY <1>8, <2>2 DEF Probe, ProbeNext, ProbeFrame, NegPhases, NegType
  <2>3. QED
    BY <1>8, <2>1, <2>2 DEF Probe
<1>9. CASE ShutDown
  BY <1>9 DEF ShutDown, Stop, callVars
<1>10. CASE UNCHANGED vars
  BY <1>10 DEF vars
<1>11. QED
  BY <1>1, <1>2, <1>3, <1>4, <1>5, <1>6, <1>7, <1>8, <1>9, <1>10 DEF Next

(* Every variable of the model keeps its type: in particular the three    *)
(* retry counters of ipp_doCupsRequest never pass their maximum by more    *)
(* than the one increment that makes the loop break.                       *)
THEOREM TypeCorrect == Spec => []TypeOK
<1>1. Init => TypeInv
  BY TypeInit
<1>2. TypeInv /\ [Next]_vars => TypeInv'
  BY TypeStep
<1>3. QED
  BY <1>1, <1>2, PTL DEF Spec, TypeInv

-----------------------------------------------------------------------------
(* The strengthening of RenegotiatedVersionAccepted: the negotiator only  *)
(* runs inside a call, a probe that returned OK left an advertised        *)
(* version in the global, and a request stamped after a rejection carries *)
(* an advertised version.                                                  *)
RenegInv ==
    /\ TypeInv
    /\ Cooperative => advertised \cap rejects = {}
    /\ neg.phase # "idle" => pc = "negotiate"
    /\ neg.phase \in {"returned", "done"} /\ neg.ret = "OK" => ippVersion \in advertised
    /\ pc = "send" /\ verState = "UNSUPPORTED" => stamp \in advertised

(* The strengthening is kept by every step of a caller that has the      *)
(* version globals to itself.                                              *)
LEMMA RenegStep ==
    ASSUME ~Concurrent
    PROVE  RenegInv /\ [Next]_vars => RenegInv'
<1> SUFFICES ASSUME RenegInv, [Next]_vars PROVE RenegInv'
  OBVIOUS
<1>0. TypeInv'
  BY TypeStep DEF RenegInv
<1> USE DEF RenegInv
<1>1. CASE Call
  BY <1>0, <1>1 DEF Call
<1>2. CASE NewRequestSequence
  BY <1>0, <1>2 DEF NewRequestSequence, callVars, TypeInv, TypeOK, NegType
<1>3. CASE Top
  BY <1>0, <1>3 DEF Top, StartDetermine, ProbeFrame
<1>4. CASE Negotiated
  BY <1>0, <1>4 DEF Negotiated, NegIdle
<1>5. CASE SendContinue
  BY <1>0, <1>5 DEF SendContinue
<1>6. CASE Send
  <2>1. /\ pc = "send" /\ pc' \in {"top", "done"}
        /\ UNCHANGED <<ippVersion, advertised, rejects, neg>>
    BY <1>6 DEF Send, Retry
  <2>2. QED
    BY <1>0, <2>1
<1>7. CASE Return
  BY <1>0, <1>7 DEF Return
<1>8. CASE Probe
  <2>1. UNCHANGED <<pc, verState, stamp, advertised, rejects>>
    BY <1>8 DEF Probe, ProbeSend, ProbeNext
  <2>2. CASE ProbeSend
    <3>1. \/ neg.phase = "probe" /\ neg'.phase = neg.phase
          \/ neg'.phase = "returned" /\ neg'.ret = "ERROR"
          \/ neg'.phase = "returned" /\ neg'.ret = "OK" /\ ippVersion' \in advertised
      <4>1. PICK a \in Answers(ProbeOrder[neg.idx]) :
                \/ /\ neg' = [neg EXCEPT !.svc = @ + 1]
                \/ /\ neg' = [neg EXCEPT !.bad = @ + 1]
                \/ /\ neg' = [neg EXCEPT !.phase = "returned", !.ret = "ERROR"]
                \/ /\ neg' = [neg EXCEPT !.phase = "returned", !.ret = "ERROR",
                                         !.held = 1]
                \/ /\ \E vs \in {advertised, {}} :
                        IF vs # {}
                        THEN /\ ippVersion' = Highest(vs)
                             /\ neg' = [neg EXCEPT !.phase = "returned", !.ret = "OK"]
                        ELSE /\ neg' = [neg EXCEPT !.phase = "returned", !.ret = "ERROR"]
                             /\ UNCHANGED ippVersion
        BY <2>2 DEF ProbeSend
      <4>2. neg \in NegType /\ neg.phase = "probe"
        BY <2>2 DEF ProbeSend, TypeInv, TypeOK
      <4>3. advertised \in SUBSET Versions
        BY DEF TypeInv, TypeOK
      <4>4. CASE neg' = [neg EXCEPT !.svc = @ + 1] \/ neg' = [neg EXCEPT !.bad = @ + 1]
        BY <4>2, <4>4, ReturnFields
      <4>5. CASE \/ neg' = [neg EXCEPT !.phase = "returned", !.ret = "ERROR"]
                 \/ neg' = [neg EXCEPT !.phase = "returned", !.ret = "ERROR", !.held = 1]
        <5>1. /\ [neg EXCEPT !.phase = "returned", !.ret = "ERROR"].phase = "returned"
              /\ [neg EXCEPT !.phase = "returned", !.ret = "ERROR"].ret = "ERROR"
              /\ [neg EXCEPT !.phase = "returned", !.ret = "ERROR", !.held = 1].phase
                   = "returned"
              /\ [neg EXCEPT !.phase = "returned", !.ret = "ERROR", !.held = 1].ret
                   = "ERROR"
          BY <4>2, ReturnFields
        <5>2. QED
          BY <4>5, <5>1
      <4>6. CASE /\ ippVersion' = Highest(advertised) /\ advertised # {}
                 /\ neg' = [neg EXCEPT !.phase = "returned", !.ret = "OK"]
        <5>1. ippVersion' \in advertised
          BY <4>3, <4>6, HighestInList
        <5>2. neg'.phase = "returned" /\ neg'.ret = "OK"
          BY <4>2, <4>6, ReturnFields
        <5>3. QED
          BY <5>1, <5>2
      <4>7. QED
        BY <4>1, <4>4, <4>5, <4>6
    <3>2. neg.phase = "probe" /\ pc = "negotiate"
      BY <2>2 DEF ProbeSend
    <3>3. QED
      BY <1>0, <2>1, <3>1, <3>2
  <2>3. CASE ProbeNext
    BY <1>0, <2>1, <2>3 DEF ProbeNext, ProbeFrame
  <2>4. QED
    BY <1>8, <2>2, <2>3 DEF Probe
<1>9. CASE ShutDown
  BY <1>0, <1>9 DEF ShutDown, Stop, callVars
<1>10. CASE UNCHANGED vars
  BY <1>0, <1>10 DEF vars
<1>11. QED
  BY <1>1, <1>2, <1>3, <1>4, <1>5, <1>6, <1>7, <1>8, <1>9, <1>10 DEF Next

(* With a cooperative printer and no other thread resetting the version  *)
(* globals, a request ipp_doCupsRequest sends after the printer rejected a *)
(* version is stamped with a version the printer accepts, for every retry  *)
(* budget.                                                                 *)
THEOREM RenegotiationSound == ~Concurrent => (Spec => []RenegotiatedVersionAccepted)
<1> SUFFICES ASSUME ~Concurrent PROVE Spec => []RenegotiatedVersionAccepted
  OBVIOUS
<1>1. Init => RenegInv
  BY TypeInit DEF Init, VersionInit, RenegInv, NegIdle
<1>2. RenegInv /\ [Next]_vars => RenegInv'
  BY RenegStep
<1>3. RenegInv => RenegotiatedVersionAccepted
  BY DEF RenegInv, RenegotiatedVersionAccepted
<1>4. QED
  BY <1>1, <1>2, <1>3, PTL DEF Spec

-----------------------------------------------------------------------------
\* 1 once the printer has rejected a version in this call, else 0.
Rejections == IF verState = "UNSUPPORTED" THEN 1 ELSE 0

(* The accounting behind AttemptBound: while the loop runs, every request *)
(* ipp_doCupsRequest has sent is paid for by one retry counter or by the   *)
(* one version rejection a cooperative printer makes, so a request still  *)
(* fits below the bound; once the call is over the bound holds.            *)
AttemptInv ==
    /\ RenegInv
    /\ Cooperative =>
         /\ pc \in {"top", "negotiate", "send"} =>
                attempts = internal + svc + bad + Rejections
         /\ pc \in {"idle", "done"} => attempts <= MaxAttempts

(* Within a call, the counters and the attempt count under the          *)
(* accounting of AttemptInv leave room for one more request.               *)
LEMMA LoopRoom ==
    ASSUME TypeInv, pc \in {"top", "negotiate", "send"},
           attempts = internal + svc + bad + Rejections
    PROVE  attempts + 1 <= MaxAttempts
BY DEF TypeInv, TypeOK, LoopBounds, Rejections, MaxAttempts

(* A request ipp_doCupsRequest sends after a version rejection is never   *)
(* rejected again by a cooperative printer.                                *)
LEMMA NoSecondRejection ==
    ASSUME RenegInv, Cooperative, pc = "send", verState = "UNSUPPORTED",
           NEW a \in Answers(stamp)
    PROVE  ~(a.resp /\ a.status = "VERSION_NOT_SUPPORTED")
<1>1. stamp \notin rejects
  BY DEF RenegInv
<1>2. QED
  BY <1>1 DEF Answers

(* The accounting is kept by every step of a caller that has the version *)
(* globals to itself.                                                      *)
LEMMA AttemptStep ==
    ASSUME ~Concurrent
    PROVE  AttemptInv /\ [Next]_vars => AttemptInv'
<1> SUFFICES ASSUME AttemptInv, [Next]_vars, Cooperative
             PROVE  AttemptInv'
  BY RenegStep DEF AttemptInv
<1>0. RenegInv' /\ TypeInv
  BY RenegStep DEF AttemptInv, RenegInv
<1>1. CASE Call
  BY <1>0, <1>1 DEF Call, AttemptInv, Rejections
<1>2. CASE NewRequestSequence
  BY <1>0, <1>2 DEF NewRequestSequence, callVars, AttemptInv, Rejections
<1>3. CASE Top \/ Negotiated
  <2>1. /\ pc \in {"top", "negotiate"} /\ pc' \in {"negotiate", "send", "done"}
        /\ UNCHANGED <<attempts, internal, svc, bad, verState>>
    BY <1>3 DEF Top, Negotiated
  <2>2. attempts + 1 <= MaxAttempts
    BY <1>0, <2>1, LoopRoom DEF AttemptInv
  <2>3. QED
    BY <1>0, <2>1, <2>2 DEF AttemptInv, Rejections, TypeInv, TypeOK, MaxAttempts
<1>4. CASE SendContinue
  BY <1>0, <1>4 DEF SendContinue, AttemptInv, Rejections
<1>5. CASE Send
  <2>1. pc = "send" /\ attempts + 1 <= MaxAttempts
    BY <1>0, <1>5, LoopRoom DEF Send, AttemptInv
  <2>2. attempts' = attempts + 1
    <3>1. attempts' = Saturate(attempts + 1, MaxAttempts + 1)
      BY <1>5 DEF Send
    <3>2. QED
      BY <1>0, <2>1, <3>1 DEF Saturate, TypeInv, TypeOK, MaxAttempts
  <2>3. PICK a \in Answers(stamp) :
            \/ /\ Retry(internal, InternalMax)
               /\ UNCHANGED <<svc, bad, verState>>
            \/ /\ Retry(svc, SvcMax)
               /\ UNCHANGED <<internal, bad, verState>>
            \/ /\ Retry(bad, BadMax)
               /\ UNCHANGED <<internal, svc, verState>>
            \/ /\ a.resp /\ a.status = "VERSION_NOT_SUPPORTED"
               /\ verState' = "UNSUPPORTED"
               /\ pc' = "top"
               /\ UNCHANGED <<internal, svc, bad>>
            \/ /\ pc' = "done"
               /\ UNCHANGED <<internal, svc, bad, verState>>
    BY <1>5 DEF Send
  <2>4. CASE /\ a.resp /\ a.status = "VERSION_NOT_SUPPORTED"
             /\ verState' = "UNSUPPORTED"
             /\ pc' = "top"
             /\ UNCHANGED <<internal, svc, bad>>
    <3>1. verState # "UNSUPPORTED"
      BY <1>0, <2>1, <2>4, NoSecondRejection DEF AttemptInv
    <3>2. verState = "RESOLVED"
      BY <1>0, <3>1 DEF TypeInv, TypeOK
    <3>3. QED
      BY <1>0, <2>1, <2>2, <2>4, <3>2 DEF AttemptInv, Rejections, TypeInv, TypeOK
  <2>5. /\ attempts = internal + svc + bad + Rejections
        /\ internal \in 0..InternalMax /\ svc \in 0..SvcMax /\ bad \in 0..BadMax
        /\ Rejections \in 0..1
    BY <1>0, <2>1 DEF AttemptInv, Rejections, TypeInv, TypeOK, LoopBounds
  <2>6. CASE Retry(internal, InternalMax) /\ UNCHANGED <<svc, bad, verState>>
    BY <1>0, <2>2, <2>5, <2>6 DEF AttemptInv, Rejections, Retry, MaxAttempts
  <2>7. CASE Retry(svc, SvcMax) /\ UNCHANGED <<internal, bad, verState>>
    BY <1>0, <2>2, <2>5, <2>7 DEF AttemptInv, Rejections, Retry, MaxAttempts
  <2>8. CASE Retry(bad, BadMax) /\ UNCHANGED <<internal, svc, verState>>
    BY <1>0, <2>2, <2>5, <2>8 DEF AttemptInv, Rejections, Retry, MaxAttempts
  <2>9. CASE pc' = "done" /\ UNCHANGED <<internal, svc, bad, verState>>
    BY <1>0, <2>2, <2>5, <2>9 DEF AttemptInv, Rejections, MaxAttempts
  <2>10. QED
    BY <2>3, <2>4, <2>6, <2>7, <2>8, <2>9
<1>6. CASE Return
  BY <1>0, <1>6 DEF Return, AttemptInv
<1>7. CASE Probe
  BY <1>0, <1>7 DEF Probe, AttemptInv, Rejections
<1>8. CASE ShutDown
  BY <1>0, <1>8 DEF ShutDown, callVars, AttemptInv, Rejections
<1>9. CASE UNCHANGED vars
  BY <1>0, <1>9 DEF vars, AttemptInv, Rejections
<1>10. QED
  BY <1>1, <1>2, <1>3, <1>4, <1>5, <1>6, <1>7, <1>8, <1>9 DEF Next

(* With a cooperative printer and no other thread resetting the version  *)
(* globals, one call of ipp_doCupsRequest sends at most                    *)
(* InternalMax + SvcMax + BadMax + 2 requests, for every retry budget.     *)
THEOREM AttemptBounded == ~Concurrent => (Spec => []AttemptBound)
<1> SUFFICES ASSUME ~Concurrent PROVE Spec => []AttemptBound
  OBVIOUS
<1>1. Init => AttemptInv
  BY TypeInit DEF Init, VersionInit, AttemptInv, RenegInv, NegIdle, MaxAttempts
<1>2. AttemptInv /\ [Next]_vars => AttemptInv'
  BY AttemptStep
<1>3. AttemptInv => AttemptBound
  BY DEF AttemptInv, AttemptBound, RenegInv, TypeInv, TypeOK, LoopBounds,
         Rejections, MaxAttempts
<1>4. QED
  BY <1>1, <1>2, <1>3, PTL DEF Spec

-----------------------------------------------------------------------------
(* No version the code knows is later than the one test_and_set_ipp_version *)
(* keeps from a non-empty list.                                            *)
LEMMA HighestIsLatest ==
    ASSUME NEW vs \in SUBSET Versions, vs # {}
    PROVE  \A w \in vs : ~Register!Newer(w, Highest(vs))
BY DEF Highest, Versions, V20, V11, V10, Register!Newer

(* The steps that leave the version globals and the printer alone. *)
LEMMA KeepsRegister ==
    ASSUME [Next]_vars, ~NewRequestSequence, ~ProbeSend
    PROVE  UNCHANGED <<ippVersion, advertised>>
BY DEF Next, vars, Call, Top, Negotiated, SendContinue, Send, Return, Probe,
       ProbeNext, ShutDown, Stop

(* The detailed model implements the negotiator's promise: its initial    *)
(* states are initial states of IppVersionRegister under the mapping, and  *)
(* each of its steps is a Reset, a Learn or leaves the register alone.     *)
THEOREM VersionRefines == Spec => VersionRefinement
<1>1. Init => Register!RegInit
  BY DEF Init, VersionInit, Register!RegInit, V20, Register!V20, Versions,
         Register!Versions, V11, V10, Register!V11, Register!V10
<1>2. TypeInv /\ [Next]_vars => [Register!Reset \/ Register!Learn]_<<ippVersion, advertised>>
  <2> SUFFICES ASSUME TypeInv, [Next]_vars
               PROVE  [Register!Reset \/ Register!Learn]_<<ippVersion, advertised>>
    OBVIOUS
  <2>1. CASE NewRequestSequence
    BY <2>1 DEF NewRequestSequence, Register!Reset, V20, Register!V20
  <2>2. CASE ProbeSend
    <3>1. CASE UNCHANGED ippVersion
      BY <2>2, <3>1, ProbeStores
    <3>2. CASE advertised # {} /\ ippVersion' = Highest(advertised)
      <4>1. advertised \in SUBSET Versions
        BY DEF TypeInv, TypeOK
      <4>2. Highest(advertised) \in advertised
        BY <3>2, <4>1, HighestInList
      <4>3. \A w \in advertised : ~Register!Newer(w, Highest(advertised))
        BY <3>2, <4>1, HighestIsLatest
      <4>4. QED
        BY <2>2, <3>2, <4>2, <4>3, ProbeStores DEF Register!Learn
    <3>3. QED
      BY <2>2, <3>1, <3>2, ProbeStores
  <2>3. CASE ~NewRequestSequence /\ ~ProbeSend
    BY <2>3, KeepsRegister
  <2>4. QED
    BY <2>1, <2>2, <2>3
<1>3. Spec => []TypeInv
  BY TypeInit, TypeStep, PTL DEF Spec
<1>4. QED
  BY <1>1, <1>2, <1>3, PTL DEF Spec, VersionRefinement, Register!RegSpec, Register!regVars

=============================================================================
