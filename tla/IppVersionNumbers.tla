-------------------------- MODULE IppVersionNumbers --------------------------
(***************************************************************************)
(* The IPP protocol versions src/jni/ipphelper/ipphelper.c knows, and how *)
(* it reads a printer's ipp-versions-supported keywords: parse_IPPVersions *)
(* (lines 883-909) and the choice test_and_set_ipp_version makes from what *)
(* it parsed. Shared by the negotiator and the capability assembler.      *)
(***************************************************************************)
EXTENDS Naturals

\* The three protocol versions the code knows, as <<major, minor>>.
V20 == <<2, 0>>
V11 == <<1, 1>>
V10 == <<1, 0>>
Versions == {V20, V11, V10}

\* The ipp-versions-supported keywords the code compares against.
VersionKeyword == [k \in {"1.0", "1.1", "2.0"} |->
                      IF k = "2.0" THEN V20 ELSE IF k = "1.1" THEN V11 ELSE V10]

\* parse_IPPVersions: the versions a list of keywords sets a flag for; any
\* other keyword is only logged (lines 890-907).
ListedVersions(kws) ==
    {VersionKeyword[kws[i]] : i \in {j \in DOMAIN kws : kws[j] \in DOMAIN VersionKeyword}}

\* Mutant of Highest: the 1.0 branch of the else-if chain is missing.
HighestNo10(vs) == IF V20 \in vs THEN V20 ELSE V11

\* The version test_and_set_ipp_version keeps from a non-empty
\* ipp-versions-supported list: the highest one listed (lines 261-279).
Highest(vs) == IF V20 \in vs THEN V20 ELSE IF V11 \in vs THEN V11 ELSE V10

=============================================================================
