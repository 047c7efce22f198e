------------------------- MODULE IppVersionRegister -------------------------
(***************************************************************************)
(* What the negotiator of src/jni/ipphelper/ipphelper.c promises about    *)
(* the process-wide IPP version every request is stamped with: it starts *)
(* at 2.0, a new request sequence puts it back to 2.0, and otherwise it   *)
(* only ever becomes a version the printer lists in ipp-versions-supported*)
(* with no newer version listed. Nothing is said about when either        *)
(* happens, which probes are sent or how often.                           *)
(*                                                                         *)
(* version is the register, offered the printer's ipp-versions-supported *)
(* set, which does not change.                                             *)
(***************************************************************************)
EXTENDS Naturals, IppVersionNumbers

VARIABLES version, offered

regVars == <<version, offered>>

\* Protocol version v is later than w.
Newer(v, w) == v[1] > w[1] \/ (v[1] = w[1] /\ v[2] > w[2])

RegInit ==
    /\ version = V20
    /\ offered \in SUBSET Versions

\* A new request sequence starts over at 2.0.
Reset ==
    /\ version' = V20
    /\ UNCHANGED offered

\* The printer's list was read: the register takes a version it lists, one
\* with no later version listed.
Learn ==
    /\ \E v \in offered : /\ version' = v
                          /\ \A w \in offered : ~Newer(w, v)
    /\ UNCHANGED offered

RegSpec == RegInit /\ [][Reset \/ Learn]_regVars

=============================================================================
