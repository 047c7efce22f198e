# TLA+ models of the IPP helper

This directory holds TLA+ models of `src/jni/ipphelper/ipphelper.c`, the IPP client
layer of the built-in print service. The directory also holds the TLC configurations
that check the models, and TLAPS proofs about them. `spec.md` at the repository root
describes the same layer in prose. Where the code and that description disagree, a
run below shows it.

## The system

The helper talks to a network printer through the CUPS library. Its parts, with the
lines of `ipphelper.c` that implement them:

| Part | Code | Model |
|---|---|---|
| Version Negotiator | `set_ipp_version`, `determine_ipp_version`, `test_and_set_ipp_version` (155-289), `parse_IPPVersions` (883-909) | `IppVersion`, `IppVersionNumbers` |
| Request/Retry Engine | `ipp_doCupsRequest` (1726-1811), `ippSendRequest` (1691-1718) | `IppRequest` |
| Job status query | `get_JobStatus` (569-700), `set_jobStateDyn`, `parse_jobStateReasons` (459-567) | `IppJobStatus` |
| Resource-Path Resolver | `tryNextResourceExtension` (1850-1874), `getResourceFromURI` (1126-1135) | `IppJobStatus` |
| Printer state decoding | `get_PrinterState`, `get_PrinterStateReason` (291-457) | `IppPrinterState` |
| Job submission id | `getJobId` (1813-1848) | not modelled |
| Media catalog | `mapDFMediaToIPPKeyword` ... `getMediaSizeNameFromDimens` (911-966) | `IppCapabilities` |
| Capability assembler | `parse_getMediaSupported` ... `parse_printerUris` (968-1576) | `IppCapabilities` (partly) |
| Debug printing | `print_col`, `print_attr`, `debuglist_*` (702-881, 1578-1630) | not modelled (logging only) |
| Transport connect | `ipp_cups_connect`, `ipp_server_cert_cb` (1632-1685) | not modelled (CUPS I/O) |

How the parts interact:

- A status or capability query builds a request. It sends the request either
  through `ipp_doCupsRequest`, the retry engine, or through its own loop around
  `cupsDoRequest` (`get_JobStatus` does this).
- Each send first calls `set_ipp_version`. That function stamps the request with the
  process-wide negotiated version (two globals, lines 155-156).
- When the printer answers version-not-supported, the loop marks its version state
  unsupported. The next `set_ipp_version` then runs `determine_ipp_version`, which
  probes the printer with `test_and_set_ipp_version` at 1.1, then 1.0, then 2.0.
- A not-found answer in `get_JobStatus` makes `tryNextResourceExtension` rewrite the
  caller's URI to the next resource path.
- A successful response is decoded into the caller's `printer_state_dyn` or
  `job_state_dyn` structure. A get-printer-attributes response is decoded by
  `parse_printerAttributes` into a `printer_capabilities_t`. It reads the same
  `ipp-versions-supported` list the negotiator reads.

## Modules

**`IppVersion`** holds the process-wide state and the negotiator.

- `ippVersion` is the pair of version globals, and `running` is
  `wprintIsRunning()`.
- The printer is the external collaborator. It is fixed in the initial state by
  `advertised`, the versions its `ipp-versions-supported` lists, and `rejects`, the
  versions it answers with version-not-supported. The constant `Cooperative` says
  whether the printer never advertises a version it rejects.
- `neg` is the frame of `test_and_set_ipp_version` together with the probe index of
  `determine_ipp_version`.
- `ProbeSend` is one iteration of the probe's do-while loop, with each of its exits.
  `ProbeNext` moves along the `||` chain of `determine_ipp_version`.
- Every send through CUPS is one atomic step. Its outcome is any answer in
  `Answers(v)`: a NULL response with one of the statuses the code tests, or a
  response whose status is a version rejection exactly when the printer rejects `v`.

**`IppRequest`** adds a caller that issues one logical request at a time through
`ipp_doCupsRequest`.

- `pc` is the caller's position in the function.
- `svc`, `bad` and `internal` are the three retry counters, and `verState` is the
  local `ipp_version_supported`.
- `stamp` is the version set on the request, `response` what the local response
  pointer holds, and `cont` the HTTP_CONTINUE retries of `ippSendRequest`.
- Actions:
  - `Call` is entry.
  - `Top` is the head of the loop: the shutdown check and `set_ipp_version`.
  - `Negotiated` is the return of `determine_ipp_version`.
  - `SendContinue` and `Send` are the transport and the classification of its
    answer (lines 1751-1807).
  - `Return` is the caller deleting the response.
  - `NewRequestSequence` is the reset of the global version. With
    `Concurrent = FALSE` only the caller does it, between calls. With
    `Concurrent = TRUE` another thread may do it at any step of a call, because
    nothing locks the globals.
  - `ShutDown` is another thread stopping wprint.
- `attempts` and `lastRejected` are history variables that the properties read.

**`IppJobStatus`** is a status monitor polling one job through `get_JobStatus`, with
the same negotiator.

- `path` is the index of the URI's resource in `resource_extensions_arr`
  (`{DEFAULT_IPP_URI_RESOURCE, "/"}`), or 2 for any other resource. It persists
  across polls, because the code rewrites the caller's URI buffer.
- `jobDyn` is `job_state_dyn->job_state`.
- `ParseJobState` is what `set_jobStateDyn` followed by `parse_jobStateReasons`
  leaves there:
  - unable-to-connect when `job-state-reasons` or `job-state` is absent;
  - the mapped state for an enum value;
  - the old value for a `job-state` outside the enum, because the `default:` case
    writes nothing then.

**`IppPrinterState`** is a status monitor polling the printer through
`get_PrinterState`.

- The request is abstracted to the two outcomes of `ipp_doCupsRequest`, NULL or a
  response. `IppRequest` checks that engine.
- A response has a `printer-state` value (absent, in the enum or outside it) and its
  `printer-state-reasons`.
- A reason keyword is represented by the `IPP_PRNT_*` token it starts with, the
  first in the order the code tests them. The token strings are in a header that
  is not in this repository.
- `ReasonCode` is the state-dependent table of lines 380-451, and `Classify` is the
  loop over the keywords.
- `Overwrite` writes the new reason codes from index 0 over the old array without
  terminating it, as the code does.

**`IppVersionRegister`** is the abstract specification of the negotiator's promise
about the shared version:
- `version` is the register and `offered` the printer's list;
- `RegInit` sets it to 2.0;
- `Reset` (a new request sequence) puts it back to 2.0;
- `Learn` (a probe that read the list) stores a listed version with no later
  version listed.

It says nothing about which probes run, or when. `IppRequest` instantiates it as
`Register` with `version <- ippVersion` and `offered <- advertised`.
`VersionRefinement == Register!RegSpec` is checked as a property.

**`IppVersionNumbers`** is the constant part shared by the negotiator and the
capability assembler:
- the three versions;
- `ListedVersions`, which is `parse_IPPVersions`: the versions a keyword list sets a
  flag for;
- `Highest`, the choice `test_and_set_ipp_version` makes.

**`IppCapabilities`** is one call of `parse_printerAttributes` on a fresh structure.

- `cpc` is the block the call is at. The actions follow the code's order:
  - `GetMediaSupported` (with the catalog lookups, `addMediaIfNotDuplicate` and
    `addRollSupportedSizes`);
  - `PrinterUris`;
  - `CopyMedia`;
  - `MediaDefault`;
  - `MediaTypeSupported`;
  - `VersionsSupported`;
  - `MediaColDefault`.

  `Query` is the caller starting a new call.
- Each action chooses the attribute values it reads from the small sets of the
  constants, as lists of at most `MaxList` values.
- `caps` holds the fields these blocks write, and `mediaArr` holds the local
  `media_supported` arrays.
- `seen` is a history variable: what the blocks read, kept until the property
  about them is checked.
- The catalog `SupportedMediaSizes` (the table at lines 77-146) is a constant.
  The MC module gives it three of its entries, letter, A4 and 4x6, with the
  dimensions the lookups compare: the table's micrometres divided by 10. The
  size enum values come from a header that is not in this repository.
- The code's loops are `FoldLeft`s over the attribute values, in the order the
  code visits them.

The other lookups of `parse_printerAttributes` are not modelled. They are name,
make, uuid, location, colour, copies, duplex, document formats, resolutions, the
ePCL version and the flags after line 1398. Each sets its own field from one
attribute, with no interaction.

## Runs

The constants: the retry maxima `SvcMax = 3`, `BadMax = 2` and `InternalMax = 1`.
These are the values of `IPP_SERVICE_ERROR_MAX_RETRIES` and friends in `ipphelper.h`.
That header is not in this repository, so the MC modules name the values. Also
`ContinueMax = 1` and `MaxReasons = 2`. `Concurrent = FALSE` except in
ipp_concurrent.

| Run | Config | Expect | What it shows |
|---|---|---|---|
| ipp_request | `MCIppRequest.cfg` | pass | `TypeOK`, `RenegotiatedVersionAccepted`, `AttemptBound`, `Termination`, `VersionRefinement`: the version globals implement `IppVersionRegister`; with one thread and a cooperative printer, a request sent after a rejection is stamped with an accepted version, one call sends at most `InternalMax + SvcMax + BadMax + 2` requests, and every call returns under weak fairness. |
| ipp_rejected | `IppRequestRejected.cfg` | violation | `RejectedNotRetained` |
| ipp_exhausted | `IppRequestExhausted.cfg` | violation | `ExhaustedReturnsNothing` |
| ipp_probe_leak | `IppProbeLeak.cfg` | violation | `ProbeReleasesResponse` |
| ipp_stop | `IppStopPrompt.cfg` | violation | `StopIsPrompt` |
| ipp_concurrent | `IppConcurrentReset.cfg` | violation | `RenegotiatedVersionAccepted` with another thread resetting the version |
| job_status | `MCIppJobStatus.cfg` | pass | `JobTypeOK`, `JobAttemptBound`, `JobTermination`, `JobRenegotiatedVersionAccepted`: a poll sends at most `SvcMax + BadMax + 1` requests, and every poll returns. The path advances at most once. After a rejection the poll's next request is stamped with an accepted version. |
| job_svc_budget | `IppJobSvcBudget.cfg` | violation | `ServiceBudgetNPlusOne` |
| job_fresh | `IppJobFresh.cfg` | violation | `JobStateFresh` |
| printer_state | `MCIppPrinterState.cfg` | pass | `PTypeOK`: over any sequence of polls the decoder's state stays typed; with `reason_idx` local to the call, the reasons array never grows past one response's reasons plus one (a `reason_idx` kept across calls breaks it). |
| printer_null_arg | `IppPrinterNullArg.cfg` | violation | `NullArgumentSafe` |
| capabilities | `MCIppCapabilities.cfg` | pass | see below |

The capabilities run checks, over every response of up to two values per attribute:

- `MediaListFaithful`: the sizes list every ready medium exactly once, followed by
  the known `media-supported` sizes in order. A roll contributes every catalog size
  that fits it. `media-ready` counts only when `media-col-ready` yields nothing.
- `MediaDefaultRule`: the default is the first ready medium, and `media-default`
  is used only when there is none.
- `UriPreference`: the URI is the first valid `ipps` URI, else the last valid one.
- `MediaTypesDistinct`: the media types are distinct and are the recognised
  classes, or plain, photo and glossy when none is recognised.
- `VersionAgreesWithNegotiator`: the version is the one `Highest` picks from the
  same list.
- `MarginsFromFirstCollection`: every margin of the first `media-col-default`
  collection is read, whatever its position, and no margin of a later collection
  is read.

Each property is written against a reference definition, not against the code's
operators. For example, `ColEntries` states roll inclusion directly.

What the violations show:

- **ipp_rejected.** `test_and_set_ipp_version` keeps the *highest advertised*
  version, not the version that was probed (line 262). A printer that advertises
  2.0 and rejects it is sent 2.0 again. `ipp_doCupsRequest` then loops without
  bound, because version rejections are not counted.
- **ipp_exhausted.** When a *response* with bad-request status exhausts the budget,
  `ipp_doCupsRequest` returns that response instead of NULL (line 1793).
- **ipp_probe_leak.** The same exit in `test_and_set_ipp_version` breaks before
  `ippDelete` and leaks the response (lines 253-254).
- **ipp_stop.** The probe loop never checks `wprintIsRunning`, so probes go out after
  shutdown. `get_JobStatus` has the same gap.
- **job_svc_budget.** The do-while condition of `get_JobStatus`
  (`count < MAX`, line 695) gives up after `N` service-unavailable answers. The spec
  asks for `N+1`, which is what `ipp_doCupsRequest` does.
- **job_fresh.** `get_JobStatus` can return without writing `job_state_dyn` in three
  cases:
  - the loop ends on bad-request responses;
  - renegotiation fails;
  - `job-state` is outside the enum.

  The caller then sees the previous poll's state.
- **ipp_concurrent.** The version globals (lines 155-156) have no lock. When
  another thread calls `set_ipp_version(NEW_REQUEST_SEQUENCE)` between this call's
  renegotiation and its next `ippSetVersion`, the request goes out at 2.0 again,
  even when the printer has just rejected 2.0. Spec section 5 says concurrent use
  must confine this state per connection or guard it with a mutex. The code does
  neither.
- **printer_null_arg.** `get_PrinterState` only logs a NULL `printer_state`, and
  `get_PrinterStateReason` then writes through it (line 357).

One divergence has no run, because no property tells it apart: the spec says the
negotiator probes 2.0 first, while the code probes 1.1, then 1.0, then 2.0. Every
probe keeps the highest advertised version, so the order only changes how many
probes are sent.

Two more points about the capability assembler:

- The spec (section 4.3) describes `media-supported` as deduplicated. The code
  appends it with no duplicate check (comment at line 1088: "de-duplicated later in
  java"). `MediaListFaithful` states what the code does: the ready part is
  deduplicated and the supported part is not.
- The `media-supported` loop writes `media_size[sizes_idx]` with no check against
  `PAGE_STATUS_MAX` (line 1097). That array size is in a header that is not in this
  repository. The run's lists stay below `PageStatusMax = 8`, so this overflow is
  listed as a hazard that no property covers.

**Why the bounds are enough.**

- Each retry counter runs to its real maximum, so every break happens.
- `AttemptBound` and `JobAttemptBound` are reached: TLC finds a state with one
  attempt fewer than the bound.
- Three versions and every subset of them cover every shape of the printer's
  advertised and rejected sets, including the one the finding needs.
- `ContinueMax = 1` exercises the HTTP_CONTINUE resend.
- Two reason keywords exercise a stale tail, since a poll with one reason follows
  a poll with two. The reason tokens are restricted to the state-dependent ones
  (`none`, `spool-full`), one fixed token and one unmatched keyword.
- The capabilities catalog has three entries. Together with the collections, it
  produces each kind of media-col-ready case:
  - a roll that fits two entries and excludes a third by height;
  - an exact match;
  - a range tray that is not a roll, so it is looked up by its minimum height;
  - a roll with a single height, which matches nothing.

  There are keywords outside the catalog, and a margin placed fifth in its
  collection. Two values per attribute reach each duplicate, order and fallback
  case of the properties. With at most two values, media types never fill
  `MaxMediaTypes = 3` except through the fallback.

**Fairness.** The liveness runs assume weak fairness of the steps of a call in
progress: `Top`, `Negotiated`, `Send`, the probes, and their job-status
counterparts. A call runs on one blocking thread. Every CUPS send returns within
the socket timeout set in `ipp_cups_connect`. Nothing else in the code waits. The
HTTP_CONTINUE resend is bounded by `ContinueMax` in the model. That bound is an
assumption about the transport, not a guarantee of the code, and it is listed
under the hazards. Only `Cooperative = TRUE` is assumed for termination. The
ipp_rejected run shows why the code needs it.

## Proofs

`IppRequestProofs` proves, with TLAPS, for every value of the retry maxima and of
`ContinueMax` (the only assumptions are that they are naturals and that
`Cooperative` is Boolean):

- **`TypeCorrect`: `Spec => []TypeOK`.** `TypeOK` alone is not inductive. The
  `Send` step increments a counter that is only known to be at most its maximum
  while the loop runs. The inductive invariant `TypeInv` adds `LoopBounds`: at
  `top`, `negotiate` and `send`, each counter is at most its maximum. Lemmas:
  - `TypeInit` and `TypeStep` (one step per action);
  - `NegUpdate`: every update of the probe frame stays in `NegType`;
  - `HighestInList`;
  - `ReturnFields`;
  - `AnswerType`.
- **`RenegotiationSound`: `~Concurrent => (Spec => []RenegotiatedVersionAccepted)`.**
  The theorem holds only when no other thread resets the version; ipp_concurrent
  shows that without this hypothesis it fails. The
  strengthening `RenegInv` says four things:
  - the printer's advertised and rejected sets stay disjoint;
  - the negotiator is only active while the caller is at `negotiate`;
  - a probe that returned OK left an advertised version in the global;
  - a request stamped after a rejection carries an advertised version.

  The third and fourth conjuncts carry the fact across the `Negotiated` step, which
  copies the global into the stamp. The first conjunct turns "advertised" into
  "accepted".

- **`VersionRefines`: `Spec => VersionRefinement`.** This is the refinement proof,
  and it needs no hypothesis on `Concurrent`.
  - The initial state maps to `RegInit`.
  - Every step maps to a `Reset`, a `Learn` or a stutter:
    - `NewRequestSequence` is a `Reset`;
    - `ProbeSend` either leaves the globals alone or stores
      `Highest(advertised)`, which is a `Learn`, by `HighestInList` and
      `HighestIsLatest`;
    - every other action leaves both mapped variables unchanged (`KeepsRegister`).
  - The step needs `advertised \subseteq Versions`, which comes from `TypeInv`.

- **`AttemptBounded`: `~Concurrent => (Spec => []AttemptBound)`.** `AttemptBound`
  is not inductive. It says nothing about how many requests are still to come.
  The strengthening `AttemptInv` adds `RenegInv` and an account for cooperative
  printers:
  - while the loop runs, `attempts = internal + svc + bad + Rejections`, where
    `Rejections` is 1 once the printer has rejected a version in this call;
  - after the call, `attempts <= MaxAttempts`.

  `LoopRoom` shows that a request still fits in the loop: each counter is at most
  its maximum there, so `attempts + 1 <= MaxAttempts`, and the saturating history
  counter really counts. `NoSecondRejection` uses `RenegInv` to show that a
  request sent after a rejection is not rejected again. This is why the theorem
  needs `~Concurrent`. With another thread resetting the globals, TLC finds a
  call that is rejected twice and sends `MaxAttempts + 1` requests (budgets 1, 1,
  1). TLC checked `AttemptInv` as an invariant before it was proved, on budgets
  (0,0,0), (1,0,2), (3,2,1) and (0,2,0), for cooperative and uncooperative
  printers.
The lemmas about the negotiator are in `IppVersionProofs`:
- `HighestInList`;
- `NegUpdate`;
- `ReturnFields`;
- `ProbeStores`: a probe leaves the globals alone or stores
  `Highest(advertised)`, and never changes the printer;
- `NegotiatorStep`: a probe step keeps the frame typed and leaves the printer
  alone. It returns OK only with an advertised version in the globals, and it
  stores no version the printer does not list.

`IppJobStatusProofs` proves the following:

- **`JobAttemptBounded`: `JobSpec => []JobAttemptBound`**, for every pair of retry
  budgets, zero included. The inductive invariant `JobInv` has three parts.
  - A renegotiated version is advertised, so a cooperative printer rejects at
    most one version per poll. This is the same chain of facts as in
    `RenegInv`.
  - In the loop, `jsends + PathLeft + VerLeft <= jsvc + jbad + 2`. `PathLeft` and
    `VerLeft` are the path switch and the version rejection that are still
    possible. Each send that loops raises a counter or uses one of them up.
  - The loop continues only while `jsvc < SvcMax` and `jbad < BadMax`, unless
    nothing has been sent yet. So the send that breaks the loop stays within
    `SvcMax + BadMax + 1`.

  TLC checked `JobInv` as an invariant before it was proved. It was checked with
  budgets (0,0), (1,0), (0,1), (2,2) and (3,2), for cooperative and
  uncooperative printers.

- **`JobTypeCorrect`: `BadMax >= 1 => (JobSpec => []JobTypeOK)`.** The hypothesis
  is stated in the theorem, not assumed of the constant. `JobTypeOK` is false
  when `BadMax = 0`: the do-while body retries a bad request before its condition
  is tested, so the first bad-request answer sets `jbad` to 1 before the loop
  breaks.
  - The strengthening `JobTypeInv` adds `JobInv` and one fact: a poll that has
    sent nothing has counted no retry.
  - With that fact, the loop-continuation conjunct of `JobInv` bounds the
    counter before every send by `BadMax - 1`, or by 0 on the first send.
  - `JobSendType` shows one send keeps the counters in their budgets.
    `ParseJobStateType` shows the parsers of `job-state` leave a value of the
    enum.

  TLC checked `JobTypeInv` on budgets (0,1), (1,1), (3,2), (1,3) and (2,1).
  The job_status run checks `JobTypeOK` itself with budgets (3,2).

- **`JobRenegotiationSound`: `JobSpec => []JobRenegotiatedVersionAccepted`.** This
  is the job poller's form of `RenegotiationSound`. `JobInv` already holds the chain
  of facts it needs, so it follows directly. The poller model has no other thread
  resetting the globals, so the theorem has no hypothesis.
What stays with TLC, and why:

- **The liveness properties (`Termination`, `JobTermination`).** They need
  fairness and `ENABLED`, which the provers do not handle.
- **Everything about `IppPrinterState`.** It has no theorem. Its status
  switch is a table lookup whose invariant would only restate the switch.
  `PTypeOK` bounds the reasons array. What the
  reasons fold `Classify` returns is a fact about a recursive function for every
  input list, and it needs induction over data. The induction theorems of the
  library take an operator parameter that the installed provers cannot
  instantiate.
- **Everything about `IppCapabilities`.** It uses `FoldLeft` and `SequencesExt`,
  which are RECURSIVE operators, so no theorem may live in a module that
  reaches it.
- **The remaining `IppJobStatus` properties (`ServiceBudgetNPlusOne`,
  `JobStateFresh`).** These are violation runs: TLC shows they fail.

## Not modelled, and next steps

- Other threads are modelled only as an environment that resets the version
  (`Concurrent`). A second thread that probes concurrently is not modelled; its
  writes go through the same globals.
- The independent lookups of `parse_printerAttributes`, listed above.
- `numSupportedMediaSizes` is appended to and never reset (line 1171). Spec section 3
  has the caller pass a fresh structure, and `Query` does that. A caller that reuses
  a structure would get both lists, and `MediaListFaithful` would fail.
- `getJobId`, and proofs of the job-status bounds.
- Debug printing and the CUPS connection code: they only log or call into the
  library.
