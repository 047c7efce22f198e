--------------------------- MODULE IppCapabilities ---------------------------
(***************************************************************************)
(* The capability assembler parse_printerAttributes (src/jni/ipphelper/   *)
(* ipphelper.c, lines 1152-1531) with the media catalog lookups (911-1005),*)
(* parse_getMediaSupported (1007-1106) and parse_printerUris (1535-1576). *)
(*                                                                         *)
(* One call decodes one get-printer-attributes response into a fresh      *)
(* printer_capabilities_t. It runs on one thread, block after block; cpc  *)
(* is the block it is at, and each block reads the attributes it looks up *)
(* (each attribute is looked up once, so the response can be chosen       *)
(* attribute by attribute). Modelled blocks: the media lists, the printer *)
(* URI, the media copy, media-default, the media types, the IPP version   *)
(* and the margins. The other lookups set independent flags and strings.  *)
(*                                                                         *)
(* A catalog entry is identified by its index, as the code's idx. A media *)
(* keyword is a string, a media-col-ready collection a record of its      *)
(* dimensions (hundredths of mm) and whether its media-source names a     *)
(* roll, a media-type keyword the class its first substring test matches, *)
(* a URI its scheme and a margin attribute its name; a margin's value is  *)
(* its position in the collection, so which one was read shows.           *)
(*                                                                         *)
(* seen is history: the attributes the blocks read, kept until the        *)
(* properties about them have been checked.                                *)
(***************************************************************************)
EXTENDS Naturals, Sequences, SequencesExt, FiniteSetsExt, IppVersionNumbers

CONSTANTS
    Catalog,        \* SupportedMediaSizes: <<[kw, size, w, h], ...>>
    PageStatusMax,  \* PAGE_STATUS_MAX, the length of media_supported's arrays
    MaxMediaTypes,  \* MAX_MEDIA_TYPES_SUPPORTED
    MaxList,        \* most values of one attribute in a response
    MediaCols, ReadyKws, SupportedKws, DefaultKws, TypeKws, VersionKws,
    UriSchemes, AuthKws, MarginCols  \* the values the printer may send

ASSUME CapsAssumption ==
    /\ Catalog \in Seq([kw : STRING, size : Nat \ {0}, w : Nat, h : Nat])
    /\ Len(Catalog) > 0
    /\ PageStatusMax \in Nat /\ MaxMediaTypes \in Nat /\ MaxList \in Nat

VARIABLES cpc, caps, mediaArr, seen

cvars == <<cpc, caps, mediaArr, seen>>

\* MAX_URIS (line 1535).
MaxUris == 10

CatIdx == 0..(Len(Catalog) - 1)
Entry(i) == Catalog[i + 1]

MarginNames == {"top", "bottom", "left", "right"}
MediaTypes == {"PLAIN", "PHOTO", "GLOSSY", "AUTO"}

\* A new printer_capabilities_t, as the caller passes it (spec, section 3).
FreshCaps == [sizes |-> <<>>, mediaDefault |-> "", printerUri |-> 0,
              mediaTypes |-> <<>>, version |-> <<0, 0>>,
              margins |-> [m \in MarginNames |-> 0]]

NoInput == [col |-> <<>>, ready |-> <<>>, supported |-> <<>>, uris |-> <<>>,
            auth |-> <<>>, dflt |-> "ABSENT", types |-> <<>>, versions |-> <<>>,
            margins |-> <<>>]

-----------------------------------------------------------------------------
(* The media catalog.                                                      *)

\* mapDFMediaToIPPKeyword: the keyword of the first entry with media size
\* s, or of entry 0 when there is none (lines 911-918).
KeywordFor(s) ==
    LET m == {i \in CatIdx : Entry(i).size = s}
    IN  IF m = {} THEN Entry(0).kw ELSE Entry(Min(m)).kw

\* ipp_find_media_size and getMediaSizeFromTag: the index of the entry
\* with keyword k, or -1 (lines 920-951).
FindByKeyword(k) ==
    LET m == {i \in CatIdx : Entry(i).kw = k}
    IN  IF m = {} THEN -1 ELSE Min(m)

\* getMediaSizeNameFromDimens: the first entry of exactly these
\* dimensions, or -1 (lines 953-966).
FindByDimens(x, y) ==
    LET m == {i \in CatIdx : Entry(i).w = x /\ Entry(i).h = y}
    IN  IF m = {} THEN -1 ELSE Min(m)

\* Mutant of AddIfNotDuplicate: the duplicate scan is dropped.
AddAlways(arr, i) ==
    IF i < 0 THEN arr ELSE Append(arr, [size |-> Entry(i).size, idx |-> i])

\* addMediaIfNotDuplicate: append entry i unless its index is already in
\* the array (lines 968-989).
AddIfNotDuplicate(arr, i) ==
    IF i < 0 \/ \E j \in DOMAIN arr : arr[j].idx = i
    THEN arr
    ELSE Append(arr, [size |-> Entry(i).size, idx |-> i])

\* A media-col-ready collection takes the roll path when its y-dimension
\* is a range with both ends positive and its media-source names a roll
\* (lines 1039-1047, 1054-1055).
RollPath(c) == c.range /\ c.y > 0 /\ c.hi > 0 /\ c.roll

\* addRollSupportedSizes: every entry, in catalog order, that fits on the
\* roll (lines 991-1005).
AddRollSupportedSizes(arr, c) ==
    FoldLeft(LAMBDA a, i :
                IF Entry(i).w <= c.x /\ c.y <= Entry(i).h /\ Entry(i).h <= c.hi
                THEN AddIfNotDuplicate(a, i) ELSE a,
             arr, [k \in 1..Len(Catalog) |-> k - 1])

-----------------------------------------------------------------------------
(* parse_getMediaSupported (lines 1007-1106).                              *)

\* The media-col-ready loop (lines 1020-1067).
ColReady(cols) ==
    FoldLeft(LAMBDA a, c :
                IF RollPath(c) THEN AddRollSupportedSizes(a, c)
                ELSE AddIfNotDuplicate(a, FindByDimens(c.x, c.y)),
             <<>>, cols)

\* The media-ready loop, run only when media-col-ready found nothing
\* (lines 1068-1080).
MediaReady(arr, kws) ==
    IF arr # <<>> THEN arr
    ELSE FoldLeft(LAMBDA a, k : AddIfNotDuplicate(a, FindByKeyword(k)), arr, kws)

\* The media-supported loop appends every known keyword, duplicates and
\* all, with no capacity check (lines 1088-1102).
MediaSupported(arr, kws) ==
    FoldLeft(LAMBDA a, k : AddAlways(a, FindByKeyword(k)), arr, kws)

-----------------------------------------------------------------------------
(* parse_printerUris (lines 1535-1576).                                    *)

\* uris[i] is valid when the printer lists it among the first MAX_URIS
\* and its uri-authentication-supported entry, if any, is "none" or
\* "requesting-user-name" (lines 1545-1566).
UriValid(us, as, i) ==
    /\ i <= Len(us)
    /\ ~(i <= Len(as) /\ as[i] = "other")

\* Mutant of ParsePrinterUris: every valid URI is copied, ipps or not.
ParsePrinterUrisLast(us, as) ==
    FoldLeft(LAMBDA cur, i : IF UriValid(us, as, i) THEN i ELSE cur,
             0, [k \in 1..MaxUris |-> k])

\* The copy loop: a valid URI is copied over printerUri until an ipps URI
\* is in place (lines 1568-1575). The result is the URI's position, 0 for
\* the empty string of a fresh structure.
ParsePrinterUris(us, as) ==
    FoldLeft(LAMBDA cur, i :
                IF UriValid(us, as, i) /\ ~(cur # 0 /\ us[cur] = "ipps")
                THEN i ELSE cur,
             0, [k \in 1..MaxUris |-> k])

-----------------------------------------------------------------------------
(* The other blocks of parse_printerAttributes.                            *)

\* The media sizes of media_supported copied into capabilities: the first
\* PAGE_STATUS_MAX entries that are not 0 (lines 1169-1177).
CopyMediaSizes(arr) ==
    LET n == IF Len(arr) < PageStatusMax THEN Len(arr) ELSE PageStatusMax
    IN  SelectSeq([k \in 1..n |-> arr[k].size], LAMBDA s : s # 0)

\* Mutant of AddMediaType: the duplicate scan is dropped.
AddMediaTypeAlways(ts, t) == IF Len(ts) < MaxMediaTypes THEN Append(ts, t) ELSE ts

\* addMediaType: skip a type already present, else append it while there
\* is room (lines 1137-1150).
AddMediaType(ts, t) ==
    IF \E j \in DOMAIN ts : ts[j] = t THEN ts
    ELSE IF Len(ts) < MaxMediaTypes THEN Append(ts, t) ELSE ts

\* media-type-supported, and plain, photo and glossy when no keyword is
\* recognised (lines 1278-1301).
MediaTypesOf(kws) ==
    LET found == FoldLeft(LAMBDA ts, k : IF k \in MediaTypes THEN AddMediaType(ts, k)
                                         ELSE ts,
                          <<>>, kws)
    IN  IF found # <<>> THEN found
        ELSE FoldLeft(AddMediaType, <<>>, <<"PLAIN", "PHOTO", "GLOSSY">>)

\* Mutant of CapsVersion: the flags are reset for every keyword, so the
\* last one decides.
CapsVersionLast(kws, old) ==
    IF kws = <<>> THEN old
    ELSE IF kws[Len(kws)] = "2.0" THEN V20
    ELSE IF kws[Len(kws)] = "1.1" THEN V11 ELSE V10

\* ipp-versions-supported: the flags accumulate over the list and after
\* each keyword the version is set from them, 1.0 when none is set; an
\* empty or absent list leaves the version alone (lines 1319-1349).
CapsVersion(kws, old) ==
    LET flags == ToSet(kws)
    IN  IF kws = <<>> THEN old
        ELSE IF "2.0" \in flags THEN V20
        ELSE IF "1.1" \in flags THEN V11 ELSE V10

\* Mutant of Margins: the loop counter j is incremented, so only the first
\* four attributes of a collection are read.
MarginsFirstFour(cols, old) ==
    IF cols = <<>> THEN old
    ELSE [m \in MarginNames |->
            LET at == {i \in DOMAIN cols[1] : cols[1][i] = m /\ i <= 4}
            IN  IF at = {} THEN old[m] ELSE Max(at)]

\* media-col-default: the attribute loop never increments j, so it reads
\* every attribute of the first collection, the last of a name winning;
\* it leaves attrptr NULL, so ippGetCount(attrptr) ends the outer loop
\* after the first collection (lines 1376-1396).
Margins(cols, old) ==
    IF cols = <<>> THEN old
    ELSE [m \in MarginNames |->
            LET at == {i \in DOMAIN cols[1] : cols[1][i] = m}
            IN  IF at = {} THEN old[m] ELSE Max(at)]

\* Mutant of DefaultMedia: the absent-attribute check is dropped.
DefaultMediaNoAbsent(d, cur) == IF cur = "" THEN d ELSE cur

\* Mutant of DefaultMedia: media-default overrides the ready default.
DefaultMediaAlways(d, cur) == IF d # "ABSENT" THEN d ELSE cur

\* media-default d, "ABSENT" when the attribute is missing, is copied only
\* over an empty default (lines 1208-1212).
DefaultMedia(d, cur) == IF d # "ABSENT" /\ cur = "" THEN d ELSE cur

-----------------------------------------------------------------------------
(* The caller asks for the printer's capabilities with a fresh structure. *)
Query ==
    /\ cpc \in {"idle", "done"}
    /\ cpc' = "media"
    /\ caps' = FreshCaps
    /\ mediaArr' = <<>>
    /\ seen' = NoInput

\* parse_getMediaSupported into the local media_supported, setting the
\* media default from the first ready entry (lines 1158-1162, 1082-1086).
GetMediaSupported ==
    /\ cpc = "media"
    /\ \E col \in BoundedSeq(MediaCols, MaxList),
          ready \in BoundedSeq(ReadyKws, MaxList),
          sup \in BoundedSeq(SupportedKws, MaxList) :
          LET rdy == MediaReady(ColReady(col), ready)
          IN  /\ mediaArr' = MediaSupported(rdy, sup)
              /\ caps' = [caps EXCEPT !.mediaDefault =
                             IF rdy # <<>> THEN KeywordFor(rdy[1].size) ELSE @]
              /\ seen' = [seen EXCEPT !.col = col, !.ready = ready,
                                      !.supported = sup]
    /\ cpc' = "uris"

\* parse_printerUris (line 1163).
PrinterUris ==
    /\ cpc = "uris"
    /\ \E us \in BoundedSeq(UriSchemes, MaxList), as \in BoundedSeq(AuthKws, MaxList) :
          /\ caps' = [caps EXCEPT !.printerUri = ParsePrinterUris(us, as)]
          /\ seen' = [seen EXCEPT !.uris = us, !.auth = as]
    /\ cpc' = "copy"
    /\ UNCHANGED mediaArr

\* The media sizes are copied into capabilities (lines 1166-1177).
CopyMedia ==
    /\ cpc = "copy"
    /\ caps' = [caps EXCEPT !.sizes = @ \o CopyMediaSizes(mediaArr)]
    /\ seen' = [seen EXCEPT !.uris = <<>>, !.auth = <<>>]
    /\ cpc' = "default"
    /\ UNCHANGED mediaArr

\* media-default is taken only when no ready media set a default
\* (lines 1208-1212).
MediaDefault ==
    /\ cpc = "default"
    /\ \E d \in DefaultKws :
          /\ caps' = [caps EXCEPT !.mediaDefault = DefaultMedia(d, @)]
          /\ seen' = [seen EXCEPT !.dflt = d]
    /\ cpc' = "types"
    /\ UNCHANGED mediaArr

\* media-type-supported (lines 1278-1301).
MediaTypeSupported ==
    /\ cpc = "types"
    /\ \E ts \in BoundedSeq(TypeKws, MaxList) :
          /\ caps' = [caps EXCEPT !.mediaTypes = MediaTypesOf(ts)]
          /\ seen' = [NoInput EXCEPT !.types = ts]
    /\ cpc' = "versions"
    /\ UNCHANGED mediaArr

\* ipp-versions-supported (lines 1319-1349).
VersionsSupported ==
    /\ cpc = "versions"
    /\ \E vs \in BoundedSeq(VersionKws, MaxList) :
          /\ caps' = [caps EXCEPT !.version = CapsVersion(vs, @)]
          /\ seen' = [NoInput EXCEPT !.versions = vs]
    /\ cpc' = "margins"
    /\ UNCHANGED mediaArr

\* media-col-default (lines 1376-1396); the remaining lookups follow.
MediaColDefault ==
    /\ cpc = "margins"
    /\ \E ms \in BoundedSeq(MarginCols, MaxList) :
          /\ caps' = [caps EXCEPT !.margins = Margins(ms, @)]
          /\ seen' = [NoInput EXCEPT !.margins = ms]
    /\ cpc' = "done"
    /\ UNCHANGED mediaArr

CapsInit ==
    /\ cpc = "idle"
    /\ caps = FreshCaps
    /\ mediaArr = <<>>
    /\ seen = NoInput

CapsNext ==
    \/ Query \/ GetMediaSupported \/ PrinterUris \/ CopyMedia
    \/ MediaDefault \/ MediaTypeSupported \/ VersionsSupported \/ MediaColDefault

CapsSpec == CapsInit /\ [][CapsNext]_cvars

-----------------------------------------------------------------------------
CapsTypeOK ==
    /\ cpc \in {"idle", "media", "uris", "copy", "default", "types", "versions",
               "margins", "done"}
    /\ caps.sizes \in Seq({Entry(i).size : i \in CatIdx})
    /\ caps.mediaDefault \in {""} \cup {Entry(i).kw : i \in CatIdx}
                                   \cup (DefaultKws \ {"ABSENT"})
    /\ caps.printerUri \in 0..MaxUris
    /\ caps.mediaTypes \in Seq(MediaTypes)
    /\ Len(caps.mediaTypes) <= MaxMediaTypes
    /\ caps.version \in Versions \cup {<<0, 0>>}
    /\ caps.margins \in [MarginNames -> Nat]
    /\ mediaArr \in Seq([size : {Entry(i).size : i \in CatIdx}, idx : CatIdx])

\* The catalog entries a media-col-ready collection stands for (spec,
\* section 4.1): on a roll, every entry no wider than the roll whose height
\* lies in the roll's range; otherwise the entry of exactly its size.
ColEntries(c) ==
    IF c.range /\ c.y > 0 /\ c.hi > 0 /\ c.roll
    THEN {i \in CatIdx : Entry(i).w <= c.x /\ Entry(i).h \in c.y..c.hi}
    ELSE {i \in CatIdx : Entry(i).w = c.x /\ Entry(i).h = c.y}

\* The entries of the ready media: those of media-col-ready, or those of
\* media-ready when media-col-ready gives none (spec, section 4.3).
ReadyEntries(s) ==
    LET col == UNION {ColEntries(s.col[k]) : k \in DOMAIN s.col}
    IN  IF col # {} THEN col ELSE {i \in CatIdx : Entry(i).kw \in ToSet(s.ready)}

\* The media-supported keywords the catalog knows, in order.
KnownSupported(s) == SelectSeq(s.supported, LAMBDA k : \E i \in CatIdx : Entry(i).kw = k)

SizeOfKeyword(k) == Entry(CHOOSE i \in CatIdx : Entry(i).kw = k).size

\* The entry the first ready medium found stands for.
FirstReady(s) ==
    LET ks == {k \in DOMAIN s.col : ColEntries(s.col[k]) # {}}
        rs == {k \in DOMAIN s.ready : \E i \in CatIdx : Entry(i).kw = s.ready[k]}
    IN  IF ks # {} THEN Min(ColEntries(s.col[Min(ks)]))
        ELSE CHOOSE i \in CatIdx : Entry(i).kw = s.ready[Min(rs)]

(* After the media blocks, the capabilities list every ready medium once  *)
(* (a roll contributing each size that fits on it, a duplicate collection *)
(* or keyword nothing), followed by the media-supported sizes in the      *)
(* order the printer lists them: parse_getMediaSupported deduplicates by   *)
(* catalog index while it gathers ready media and falls back to           *)
(* media-ready only when media-col-ready yields nothing.                  *)
MediaListFaithful ==
    cpc = "default" =>
        LET r == ReadyEntries(seen)
            n == Cardinality(r)
            sup == KnownSupported(seen)
        IN  /\ Len(caps.sizes) = n + Len(sup)
            /\ {caps.sizes[k] : k \in 1..n} = {Entry(i).size : i \in r}
            /\ \A k \in 1..Len(sup) : caps.sizes[n + k] = SizeOfKeyword(sup[k])

(* Spec, section 4.3: the first ready medium found is the default; the    *)
(* media-default attribute, looked up later, counts only when no ready     *)
(* medium was found.                                                       *)
MediaDefaultRule ==
    cpc = "types" =>
        caps.mediaDefault =
            IF ReadyEntries(seen) # {} THEN Entry(FirstReady(seen)).kw
            ELSE IF seen.dflt # "ABSENT" THEN seen.dflt ELSE ""

(* parse_printerUris settles on the first valid ipps URI when there is one *)
(* and otherwise on the last valid URI, a URI being valid when its        *)
(* authentication is none or requesting-user-name.                        *)
UriPreference ==
    cpc = "copy" =>
        LET valid == {i \in 1..Len(seen.uris) :
                         i <= MaxUris /\ (i > Len(seen.auth) \/ seen.auth[i] # "other")}
            secure == {i \in valid : seen.uris[i] = "ipps"}
        IN  caps.printerUri = IF secure # {} THEN Min(secure)
                              ELSE IF valid # {} THEN Max(valid) ELSE 0

(* The media types are distinct and are the recognised ones, or plain,     *)
(* photo and glossy when the printer names none (spec, section 4.3: a     *)
(* deduplicated set of bounded capacity).                                  *)
MediaTypesDistinct ==
    cpc = "versions" =>
        LET named == ToSet(seen.types) \cap MediaTypes
            want == IF named = {} THEN {"PLAIN", "PHOTO", "GLOSSY"} ELSE named
        IN  /\ IsInjective(caps.mediaTypes)
            /\ Cardinality(want) <= MaxMediaTypes => ToSet(caps.mediaTypes) = want

(* The IPP version the capabilities report is the version the negotiator *)
(* keeps from the same ipp-versions-supported list (parse_IPPVersions and  *)
(* test_and_set_ipp_version), whatever order the printer lists it in.    *)
VersionAgreesWithNegotiator ==
    cpc = "margins" =>
        (ListedVersions(seen.versions) # {} =>
            caps.version = Highest(ListedVersions(seen.versions)))

(* Every margin attribute of the first media-col-default collection is    *)
(* read, however many attributes precede it (spec, section 10 asks whether *)
(* the j < 4 bound stops the loop early), and the last one of a name wins; *)
(* margins the first collection does not list stay 0.                      *)
MarginsFromFirstCollection ==
    cpc = "done" =>
        \A m \in MarginNames :
            IF seen.margins # <<>> /\ m \in ToSet(seen.margins[1])
            THEN LET c == seen.margins[1]
                 IN  \E i \in DOMAIN c : /\ c[i] = m /\ caps.margins[m] = i
                                        /\ \A j \in DOMAIN c : j > i => c[j] # m
            ELSE caps.margins[m] = 0

=============================================================================
