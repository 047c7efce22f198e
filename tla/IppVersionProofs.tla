-------------------------- MODULE IppVersionProofs --------------------------
(***************************************************************************)
(* Facts about the negotiator of module IppVersion that the proofs about  *)
(* its callers (ipp_doCupsRequest, get_JobStatus) rest on.                 *)
(***************************************************************************)
EXTENDS IppVersion, TLAPS

USE RetryAssumption, CooperativeAssumption

(* The version determine_ipp_version keeps from a non-empty list of known *)
(* versions is one of the versions listed.                                 *)
LEMMA HighestInList ==
    ASSUME NEW vs \in SUBSET Versions, vs # {}
    PROVE  Highest(vs) \in vs
BY DEF Highest, Versions, V20, V11, V10

(* Every answer the printer can give has one of the statuses the code     *)
(* distinguishes.                                                          *)
LEMMA AnswerType ==
    ASSUME NEW v, NEW a \in Answers(v)
    PROVE  /\ a.resp \in BOOLEAN
           /\ a.status \in NullStatus \cup RespStatus
           /\ a.resp => a.status \in RespStatus
BY DEF Answers

(* Each way test_and_set_ipp_version updates its frame keeps the frame in *)
(* its type: a retry within budget, or a return with some result.          *)
LEMMA NegUpdate ==
    ASSUME neg \in NegType, NEW p \in NegPhases, NEW r \in {"OK", "ERROR"}
    PROVE  /\ [neg EXCEPT !.phase = p, !.ret = r] \in NegType
           /\ [neg EXCEPT !.phase = p, !.ret = r, !.held = 1] \in NegType
           /\ neg.svc < SvcMax => [neg EXCEPT !.svc = @ + 1] \in NegType
           /\ neg.bad <= BadMax => [neg EXCEPT !.bad = @ + 1] \in NegType
<1>1. [neg EXCEPT !.phase = p, !.ret = r] \in NegType
  BY ZenonT(60) DEF NegType
<1>2. [neg EXCEPT !.phase = p, !.ret = r, !.held = 1] \in NegType
  <2>1. \A n \in NegType : [n EXCEPT !.held = 1] \in NegType
    BY DEF NegType
  <2>2. [neg EXCEPT !.phase = p, !.ret = r, !.held = 1]
          = [[neg EXCEPT !.phase = p, !.ret = r] EXCEPT !.held = 1]
    OBVIOUS
  <2>3. QED
    BY <1>1, <2>1, <2>2
<1>3. neg.svc < SvcMax => [neg EXCEPT !.svc = @ + 1] \in NegType
  BY DEF NegType
<1>4. neg.bad <= BadMax => [neg EXCEPT !.bad = @ + 1] \in NegType
  BY DEF NegType
<1>5. QED
  BY <1>1, <1>2, <1>3, <1>4

(* What a returning probe leaves in the frame: its phase and its result. *)
LEMMA ReturnFields ==
    ASSUME NEW n \in NegType, NEW r
    PROVE  /\ [n EXCEPT !.phase = "returned", !.ret = r].phase = "returned"
           /\ [n EXCEPT !.phase = "returned", !.ret = r].ret = r
           /\ [n EXCEPT !.phase = "returned", !.ret = r, !.held = 1].phase = "returned"
           /\ [n EXCEPT !.phase = "returned", !.ret = r, !.held = 1].ret = r
           /\ [n EXCEPT !.svc = @ + 1].phase = n.phase
           /\ [n EXCEPT !.bad = @ + 1].phase = n.phase
BY DEF NegType


(* A retry of a probe keeps the frame's phase and result. *)
LEMMA RetryKeeps ==
    ASSUME NEW n \in NegType
    PROVE  /\ [n EXCEPT !.svc = @ + 1].ret = n.ret
           /\ [n EXCEPT !.bad = @ + 1].ret = n.ret
BY DEF NegType

(* A probe either leaves the globals alone or stores the highest version  *)
(* the printer lists, and never changes the printer.                       *)
LEMMA ProbeStores ==
    ASSUME ProbeSend
    PROVE  /\ UNCHANGED advertised
           /\ \/ UNCHANGED ippVersion
              \/ advertised # {} /\ ippVersion' = Highest(advertised)
<1>1. UNCHANGED advertised
  BY DEF ProbeSend
<1>2. PICK a \in Answers(ProbeOrder[neg.idx]) :
        \/ UNCHANGED ippVersion
        \/ \E vs \in {advertised, {}} :
              IF vs # {} THEN ippVersion' = Highest(vs) ELSE UNCHANGED ippVersion
  BY DEF ProbeSend
<1>3. QED
  BY <1>1, <1>2

(* One step of the negotiator, seen from its caller: it runs only while a *)
(* probe is under way, keeps its frame in its type, leaves the printer    *)
(* alone, returns OK only with an advertised version in the globals, and   *)
(* stores no version the printer does not list.                            *)
LEMMA NegotiatorStep ==
    ASSUME neg \in NegType, advertised \in SUBSET Versions,
           neg.ret = "OK" => ippVersion \in advertised,
           ProbeSend \/ ProbeNext
    PROVE  /\ neg' \in NegType
           /\ neg'.ret = "OK" => ippVersion' \in advertised
           /\ neg.phase # "idle" /\ neg'.phase # "idle"
           /\ UNCHANGED <<advertised, rejects>>
           /\ ippVersion' \in advertised \cup {ippVersion}
<1>1. CASE ProbeSend
  <2>1. neg.phase = "probe" /\ UNCHANGED <<advertised, rejects>>
    BY <1>1 DEF ProbeSend
  <2>2. \/ /\ neg' = [neg EXCEPT !.svc = @ + 1] /\ neg.svc < SvcMax
           /\ UNCHANGED ippVersion
        \/ /\ neg' = [neg EXCEPT !.bad = @ + 1] /\ neg.bad <= BadMax
           /\ UNCHANGED ippVersion
        \/ /\ neg' = [neg EXCEPT !.phase = "returned", !.ret = "ERROR"]
           /\ UNCHANGED ippVersion
        \/ neg' = [neg EXCEPT !.phase = "returned", !.ret = "ERROR", !.held = 1]
           /\ UNCHANGED ippVersion
        \/ /\ advertised # {} /\ ippVersion' = Highest(advertised)
           /\ neg' = [neg EXCEPT !.phase = "returned", !.ret = "OK"]
    <3>1. PICK a \in Answers(ProbeOrder[neg.idx]) :
              \/ /\ neg.svc < SvcMax
                 /\ neg' = [neg EXCEPT !.svc = @ + 1]
                 /\ UNCHANGED ippVersion
              \/ /\ neg.bad <= BadMax
                 /\ neg' = [neg EXCEPT !.bad = @ + 1]
                 /\ UNCHANGED ippVersion
              \/ /\ neg' = [neg EXCEPT !.phase = "returned", !.ret = "ERROR"]
                 /\ UNCHANGED ippVersion
              \/ /\ neg' = [neg EXCEPT !.phase = "returned", !.ret = "ERROR",
                                       !.held = 1]
                 /\ UNCHANGED ippVersion
              \/ /\ \E vs \in {advertised, {}} :
                      IF vs # {}
                      THEN /\ ippVersion' = Highest(vs)
                           /\ neg' = [neg EXCEPT !.phase = "returned", !.ret = "OK"]
                      ELSE /\ neg' = [neg EXCEPT !.phase = "returned", !.ret = "ERROR"]
                           /\ UNCHANGED ippVersion
      BY <1>1 DEF ProbeSend
    <3>2. QED
      BY <3>1
  <2>3. neg' \in NegType
    BY <2>2, NegUpdate DEF NegPhases
  <2>0. /\ [neg EXCEPT !.phase = "returned", !.ret = "ERROR"].phase = "returned"
        /\ [neg EXCEPT !.phase = "returned", !.ret = "ERROR"].ret = "ERROR"
        /\ [neg EXCEPT !.phase = "returned", !.ret = "ERROR", !.held = 1].phase
             = "returned"
        /\ [neg EXCEPT !.phase = "returned", !.ret = "ERROR", !.held = 1].ret
             = "ERROR"
        /\ [neg EXCEPT !.phase = "returned", !.ret = "OK"].phase = "returned"
        /\ [neg EXCEPT !.svc = @ + 1].phase = neg.phase
        /\ [neg EXCEPT !.bad = @ + 1].phase = neg.phase
    BY ReturnFields
  <2>4. neg'.phase # "idle"
    BY <2>0, <2>1, <2>2
  <2>5. neg'.ret = "OK" => ippVersion' \in advertised
    <3>1. CASE neg' = [neg EXCEPT !.svc = @ + 1] /\ UNCHANGED ippVersion
      BY <3>1, RetryKeeps
    <3>2. CASE neg' = [neg EXCEPT !.bad = @ + 1] /\ UNCHANGED ippVersion
      BY <3>2, RetryKeeps
    <3>3. CASE \/ neg' = [neg EXCEPT !.phase = "returned", !.ret = "ERROR"]
               \/ neg' = [neg EXCEPT !.phase = "returned", !.ret = "ERROR", !.held = 1]
      BY <2>0, <3>3
    <3>4. CASE advertised # {} /\ ippVersion' = Highest(advertised)
      BY <3>4, HighestInList
    <3>5. QED
      BY <2>2, <3>1, <3>2, <3>3, <3>4
  <2>6. ippVersion' \in advertised \cup {ippVersion}
    BY <2>2, HighestInList
  <2>7. QED
    BY <2>1, <2>3, <2>4, <2>5, <2>6
<1>2. CASE ProbeNext
  BY <1>2 DEF ProbeNext, ProbeFrame, NegPhases, NegType
<1>3. QED
  BY <1>1, <1>2

=============================================================================
