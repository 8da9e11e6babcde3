# HDIP Phase 1 in TLA+

A verification project for the Phase 1 services of HDIP: the issuer service, the
verifier service, the trust registry, the SQL store they share, the commands that
prepare it and the processes that serve. It models what these programs do
when requests overlap, statements fail, contexts expire and processes stop. TLC
checks it on small instances, and TLAPS proves every safety property of those
runs for every instance.

Run the tools in this directory:

    tlc -workers 2 -config IssuerIssue.cfg MCIssuerApi
    tlapm IssuerCredentialProofs.tla

`PROJECT.json` lists the components, the runs, the mutants each property must
refute, the source lines each definition stands for, the findings, the hazards
and the theorems.

## 1. Inventory

### The parts of the system

| Part | State | Operations | Talks to |
|---|---|---|---|
| issuer-api (`services/issuer-api/internal/httpapi/phase1.go`) | none of its own: one goroutine per request, `reservationOpen` in each write | issue a credential, change a credential's status, read a credential | store |
| verifier-api (`services/verifier-api/internal/httpapi/phase1.go`) | the same, and a cached access token | submit an artifact for verification, read a result back | store, trust-registry, Hydra |
| trust-registry (`services/trust-registry/internal/httpapi`) | none of its own | answer the trust record of an issuer to an authorized client | store, Hydra |
| phase1sql store (`services/internal/phase1sql/store.go`) | tables: sequences, issuer records, credentials, verification requests and results, audit records, idempotency records | one SQL statement or transaction per operation | the database |
| phase1sql commands (`schema.go`, `trust_bootstrap.go`, `cmd/phase1sql`) | the schema, the issuer table | `migrate up`, `bootstrap trust`, the checks of both that services and probes make | the database |
| foundation (`packages/go/foundation`) | none | request identifier, context timeout, attribution, process life cycle | Hydra for introspection |
| service process (`cmd`, `internal/app`, `internal/config`) | configuration, listener, shutdown | load and validate, open, serve, stop | foundation, phase1sql |
| consoles, API client, crates, schemas, scripts | none that changes | presentation and data | the services over HTTP |

The services share one database and nothing else. A request holds no lock: the
only mutual exclusion between requests is the primary key of
`phase1_idempotency_records`.

### Where it is hard

- *Interleaving.* A handler is a sequence of autocommitted statements; between
  any two of them another request may run. The status check and the status
  update of a credential are two statements; so are the two halves of
  `ReserveIdempotencyRecord`, and the reads a verification is decided on.
- *Partial failure.* A statement may fail before or after it took effect. Write,
  completion of the reservation, audit and release are separate statements, and
  the errors of the last two are dropped.
- *Timeouts.* All statements of a request run under `r.Context()`, the deferred
  release included: an expired context also prevents the release.
- *Crashes.* A reservation outlives the process that made it. Nothing reclaims it.
- *Stale reads.* A verification decides on a credential row read before the trust
  registry was asked, at an evaluation time that comes from the identifier.
- *Re-runs.* Migration and bootstrap are loops of single statements without a
  transaction; they may break off anywhere, overlap, and be started again while
  services check for what they leave.
- *Shutdown.* The signal, the listener's error, two deadlines and a client that
  never sends the rest of its body race for the end of the process.
- *Conversions.* The digest is taken of the raw artifact, the fingerprint of the
  trimmed one; the key of an audit record is made from a client's header.

`PROJECT.json` lists each such hazard at its line, with the properties that cover
it, or the reason why none does yet.

### What makes each part correct

- Issuer: a key runs its write once; what a key answered it answers for good, to
  the same request only; a 201 names a stored credential of the caller's own
  organization; status changes start in `active`; every success is audited and
  every audit record is true; every request ends.
- Verifier: an allow is for the very artifact that was issued, under the known
  policy, by an issuer the registry calls active, and not after the credential was
  revoked; an answer under a key is replayed for good; a verdict can be read back by
  its own organization only; the audit trail agrees with the results.
- Trust path: only a positive answer leads to an allow; a token in use has not
  expired.
- Store life cycle: a service serves only on a complete schema with an issuer in
  it; what reported success is in force, what broke off left a prefix that is
  audited as far as it went, and running the commands again repairs it.
- Process: a request acts only for whom the configured authority vouches; a signal
  ends the process, and interrupts nothing on the way.
- System: what the issuer hands out the verifier knows, what the issuer revokes the
  verifier no longer allows, and one audit table holds the successes of both.

## 2. The modules

| Module | What it is |
|---|---|
| `Phase1Sql` | the statements of the store as operators from a table to the table it leaves, and the rows and replies they handle |
| `RequestContext` | what can happen to one statement: done, refused, or done without an acknowledgement; context expiry; the budget of failures a run explores |
| `IssuerApi` | the issuer service: one action per statement of each handler, crash and expiry, all its properties |
| `IdempotentWrite` | the abstract promise of an Idempotency-Key, without a database; `IssuerApi` implements it |
| `VerifierApi` | the verifier service, the tables it reads, and the issuer and the trust registry that change them meanwhile |
| `VerifierTrust` | `VerifierApi` with a memory: whom the registry has held active while a submission was under way |
| `TrustRuntime` | a trust read from the verifier's token cache over Hydra to the registry's table, exchange by exchange, on a clock |
| `TrustRead` | the abstract trust read: an error, or what the table held at one instant of the read; `TrustRuntime` implements it |
| `TrustLifecycle` | `migrate up`, `bootstrap trust`, and services that open and are probed, one statement at a time, with failures, crashes and re-runs |
| `PublicService` | the process of issuer-api or verifier-api from configuration to exit, with the way of a request up to its handler |
| `Phase1System` | `IssuerApi` and `VerifierApi`, instanced over one store, each statement of either between any two of the other |
| `MCIssuerApi`, `MCVerifierApi`, `MCVerifierTrust`, `MCTrustRuntime`, `MCTrustLifecycle`, `MCPublicService`, `MCPhase1System` | the small instances: callers, bodies, artifacts, calls, documents, budgets |
| `Phase1SqlProofs` | lemmas about the statements of the store, contexts and failures, for both services |
| `IssuerApiProofs` | types of `IssuerApi`, exclusion of reservations, orphans, replay |
| `IssuerCredentialProofs` | what the issuer answers, stores and audits about credentials; one credential for each key; that `IssuerApi` implements `IdempotentWrite` |
| `VerifierApiProofs` | types of `VerifierApi`, replay, what a verdict rests on, whom the registry has vouched for (`VerifierTrust`), and what becomes of submissions |
| `TrustRuntimeProofs` | the inductive invariant of `TrustRuntime`, its properties, and that it implements `TrustRead` |
| `TrustLifecycleProofs` | types, readiness and completeness of `TrustLifecycle`, and what bootstraps leave: documents in force, audits, prefixes, creation times |
| `PublicServiceProofs` | types, graceful shutdown and vouched-for requests of `PublicService` |
| `Phase1SystemProofs` | what the two services promise together: audits in one table, allows and revocations, artifacts that are found |

`Phase1System` composes `IssuerApi` and `VerifierApi`; the other modules meet at what
they abstract: `VerifierApi` takes a trust read as the one step that `TrustRuntime`
implements, `TrustRegistryWrites` and `BootstrapWrites` are what `TrustLifecycle` does
to the issuer table in detail, `Crash` is how `PublicService` exits at its worst, and
the "work" of a request in `PublicService` is a handler of the two services.

### How a handler is modelled

A request `r` has a program counter `pc[r]` that names the statement it runs
next, from "idle" to "done", or "lost" in a crash. An action is one statement with
everything the handler does up to the next one: the checks on what the statement
returned, the response prepared, the branch taken. Where a handler returns with its
reservation open, the action `Fail` leads to the "release" step, which is the
deferred function of the code; it runs after the response was written, so a
crash there is a crash after the answer, and the client may or may not have seen it.

| Code | Model |
|---|---|
| `requireIssuerAttribution`, decoding, `validate` | `FrontDoor`, `Refuse`, `Arrive` |
| `GetIssuerRecord`, any error is 403 | `ReadIssuer` |
| `ReserveIdempotencyRecord`: INSERT ... DO NOTHING, then SELECT | `Reserve`, then `Lookup` |
| replay, in progress, conflict, each audited | `OccupiedReply`, then `Audit` |
| `NextCredentialID`, `CreateCredentialRecord` | `Allocate`, `Create` |
| `GetCredentialRecord` and its checks, `UpdateCredentialStatus` | `Load`, `Update` |
| `completeIdempotencyResponse`, `reservationOpen = false` | `Complete` |
| the deferred `ReleaseIdempotencyRecord` under `r.Context()` | `Release` |
| `AppendAuditRecord`, error dropped | `Audit` |
| `NextVerificationID`, parse, `CreateVerificationRequestRecord` | `Allocate`, `Submit` |
| `resolveCredentialRecord`: by digest, then by identifier | `ResolveByDigest`, `ResolveById` |
| `evaluateVerification` | `VerdictBeforeTrust`, `ReadTrust`, `VerdictAfterTrust` |
| `CreateVerificationResultRecord` | `StoreResult` |
| `getVerification` | `ReadSubmission`, `ReadResult` |
| `ContextTimeout`, or a client that has gone | `Expire`, or expiry in the middle of a `Statement` |
| the process stops | `Crash` |
| other writers of the shared tables | `TrustRegistryWrites`, `IssuerIssues`, `IssuerChangesStatus` |

Data is abstracted to what the properties tell apart. A fingerprint is the tuple it
hashes; a digest is the artifact itself, its text and whether it is padded; an
artifact text decodes through the constant `Envelope`; an identifier is its
sequence number. A body stands for all its spellings that differ in white space
around a field. Times are minutes after `verificationBaseTime`.

### How time and tokens are modelled

`TrustRuntime` counts seconds. A request has a deadline, `RequestTimeout` after its
arrival, as `ContextTimeout` and the HTTP clients' own timeouts give it; `Tick` waits
for the requests in flight, which reach their next step or give up by then. So an
exchange may take any time up to the deadline, and a local step none at all beyond
it: a goroutine that is held up past its own deadline is not modelled. A token
carries when it was granted, for how long and to whom. Its cached life starts when the
response is stored, its real one when Hydra granted it. All parties read one clock.

| Code | Model |
|---|---|
| `Token`: `cachedAccessToken`, under the mutex | `TakeCached`, `MissCache` |
| the POST to Hydra's token endpoint, outside the mutex | `Grant` |
| `cacheAccessToken`, under the mutex again | `StoreToken` with `CachedUntil` |
| `HydraClientCredentialsTokenSource.Check` | a request of kind "probe", done once it has a token |
| `requireInternalAuth`, `Authorize`, `introspectToken` | `Introspect` with `Authorize` |
| `getIssuerTrust`, `GetIssuerRecord` | `Load` |
| the status codes, decoding | `Receive` with `Told` |
| errors of any exchange, the deadline | `GiveUp` |

`VerifierApi` takes a trust read as one step (`ReadTrust`). `TrustRead` is why it may:
an answer that is not an error is what the table held at one instant of the read,
and that instant is the step.

### How the store's life cycle is modelled

An actor of `TrustLifecycle` is one invocation of `phase1sql migrate up`, one of
`phase1sql bootstrap trust`, or one service. `pc[a]` says what it does and `at[a]`
which statement of its migration, object of its check or entry of its document is
next. Any statement may fail before it took effect (`StatementFails`) or after
(`CreateUnacked`, `UpsertUnacked`, `AuditUnacked`), any process may stop (`Crash`), and
what did not succeed may be started again. A service that is open may be probed: a
probe is the same check again, and a failed one leaves the service open.

| Code | Model |
|---|---|
| `MigrateUp`, `executeSQLStatements` | `StartMigration`, `CreateObject` for each statement, `EndMigration` |
| `Open`, `Connect`; `CheckReadiness` | `StartCheck` |
| `MissingSchemaObjects`, one query for each object | `CheckObject`, `SchemaChecked`, `RefuseSchema` |
| `RequireTrustBootstrap` | `CountIssuers`, `RefuseBootstrap` |
| `ApplyTrustBootstrapFile` | `BeginApply` |
| `toIssuerRecord`, `GetIssuerRecord` | `LoadIssuer`, `RefuseEntry` |
| `UpsertIssuerRecord`, `AppendAuditRecord` | `Upsert`, `Audit`, `EndBootstrap` |
| an error anywhere | `GiveUp` |

A bootstrap's time `now` is unique: it has nanoseconds, and a bootstrap is a process. It
is a counter here, so that "later" can be said of two of them. An issuer's content is
one value that stands for its name, state, templates and keys.

### How a process is modelled

`PublicService` follows one process through loading, opening, running, draining
and exit, and each request through authentication, the arrival of its body and the work
of its handler. Deadlines are those of `ContextTimeout` and `Shutdown`. `Tick` waits for
what ends at a deadline: an introspection, a handler that works, the wait of `Shutdown`;
it does not wait for a body, which no context bounds. Which tokens are active changes at
any time, by Hydra's own decision or because they expire.

| Code | Model |
|---|---|
| `config.Load`, `Validate` | `Load` with `Valid`, `RefuseConfig` |
| `app.Run`: `NewMux` with its store and its extractor | `Open`, `OpenFails` |
| the goroutine of `RunHTTP` | `Listen`, `ListenFails` |
| its `select` | `ExitOnListenerError`, `BeginShutdown` (either, if both are there) |
| `Shutdown` under `ShutdownTimeout` | `Drained`, `DrainExpires` |
| `ContextTimeout`, `RouteHandler` | `Arrive`, `Enter` |
| header mode | `HeaderExtractor` |
| hydra mode: `bearerTokenFromRequest`, `introspectToken` | `HydraExtractor`, `Introspect`, `IntrospectFails` |
| `ValidateFor`, `RequireScope` | `Admit` |
| `DecodeJSONBody` | `ReadBody` |
| the handler's statements and its answer | `Statement`, `Answer` |

A signal before the handler of signals is installed kills the process and is no action
here; one between its installation and `RunHTTP` is heeded when `RunHTTP` selects, since
the store is opened under a context of its own.

### How the services share a store

`Phase1System` declares the tables once and instances `IssuerApi` and `VerifierApi` over
them. What differs is the view: `SeenByVerifier` is the credential table as the verifier's
store reads it, `AllowedTemplates` and `TrustStates` are the two sides of the issuer
table. The idempotency table and the audit table are the same rows for both. The actions
by which each module imagines its surroundings (`IssuerIssues`, `IssuerChangesStatus`,
`TrustRegistryWrites`) are not used; `IssuerIsTheVerifiersWorld` says that the issuer
service does what the first two assume of it.

### Histories

Some variables are not in the code; actions never read them to decide what to do.

| Variable | What it remembers |
|---|---|
| `VerifierApi`: `spoiled[r]`, `arrived[r]` | the credentials that were not active when `r` arrived, and the minute it arrived |
| `VerifierTrust`: `vouched[r]` | the issuers the registry has held active since `r` arrived, up to its end |
| `TrustRuntime`: `dead[r]` | the tokens revoked before `r` arrived |
| `TrustLifecycle`: `ended[n]`, `overlap[n]` | how the bootstrap that began at `n` fared, and which others were under way with it |
| `PublicService`: `dead[r]`, `cutIn[r]` | the tokens not active when `r` arrived; what `r` was doing when the process exited |
| `Phase1System`: `before[r]` | the artifacts the issuer had handed out and the status changes it had confirmed when the verifier's request `r` arrived |

`VerifierTrust` is a module of its own because only one property needs that memory, and
the other runs are smaller without it. Every step of it is a step of `VerifierApi`, and
every step of `VerifierApi` one of it.

## 3. What the runs check

| Run | Instance | Shows |
|---|---|---|
| `IssuerIssue` | 3 issuances, 2 callers, 2 bodies, shared or separate keys; one fault, one expiry, one crash | `TypeOK`, `ReservationExclusive`, `SuccessIsReplayable`, `IssuedMeansStored`, `OneCredentialPerKeyUnlessFault`, `OrphanStaysOrphan`, and `KeepsPromise`: the service implements `IdempotentWrite` |
| `IssuerStatus` | 2 requests out of every kind of call, refused ones included; one failure of each kind; a registry that rewrites its table; fairness | `AuditTruthful`, `CredentialLifecycle`, `RequestsEnd`; and until something fails, `InProgressMeansInFlight`, `ReservationsSettle` |
| `VerifierWorld` | 2 submissions, a credential issued, revoked, superseded, a registry with and without the issuer; one failed statement or trust lookup | `AllowIsJustified`, `NoAllowAfterRevocation`, `AuditTellsVerdict`, and `AllowIsVouchedFor` |
| `VerifierFailures` | 2 requests out of keyed submissions, retries, reads by owner and stranger; one failure of each kind; 2 minutes | `TypeOK`, `AnswersReplay`, `VerdictsReadBack`, `SubmissionsAreDecided` |
| `TrustRuntime` | 2 reads or probes; tokens of a life beyond the margin, of a shorter one, and of another client; revocations; a table that changes; 5 seconds | `TypeOK`, `NeverRefusedForAge`, `OnlyEntitledReads`, and `ReadsAreTrue`: the trust read implements `TrustRead` |
| `TrustLifecycle` | 1 migration of 3 objects, 2 bootstraps of 2 entries (one of them does not end well), 1 service and its probes; one failed statement or stopped process; 2 runs of bootstraps; fairness | `TypeOK`, `ServingMeansReady`, `MigratedMeansComplete`, `DoneMeansApplied`, `TrustChangesAreAudited`, `BrokenRunsLeaveAPrefix`, `CreationTimeKept`, `ServicesComeUp` |
| `PublicService` | 2 requests out of six calls, 4 configurations, 2 tokens; a timeout of 1 second and a shutdown of 2; one failure; fairness | `TypeOK`, `ShutdownInterruptsNothing`, `ActsForALiveToken`, `SignalStops` |
| `Phase1System` | 1 request to the issuer (issue, revoke, read) and 2 to the verifier, a key used at both, an X-Request-ID used at both; one failed statement in each; 2 trust tables | `HandedOutIsKnown`, `AllowPredatesRevocation`, `SuccessesAreAudited`, `IssuerIsTheVerifiersWorld` |

Four runs expect a violation; each is a disagreement between the code and what the
repository says of it, quoted in the findings:

| Run | The code | What is said |
|---|---|---|
| `IssuerTerminalStatus` | of two overlapping status changes the second overwrites a terminal status | ADR 0007: transitions from `active` |
| `IssuerDuplicate` | one failed completion frees the key: an overlapping request issues a second credential | threat model 0003: overlapping writes fail closed |
| `VerifierNotFound` | a genuine artifact whose two lookups fail is stored as "did not resolve to a known credential" | the message itself |
| `VerifierExpiry` | the time of evaluation comes from the identifier | integration guide: an allow is not expired |

`OneCredentialPerKeyUnlessFault` is the strongest form of "one key, one
credential" that the code does keep: expired contexts and crashes alone never
duplicate, and they do not because the release runs under the context that
expired. The mutant of that property, a release under a context that is never
cancelled, is a change a maintainer could well make.

Some properties are conditional because the code keeps no more:

- `InProgressMeansInFlight` and `ReservationsSettle` hold until something fails. After a
  crash, or a failed release, a reserved row outlives its request, nothing reclaims it
  (`OrphanStaysOrphan`), and every later request with the key is told that a request
  in flight holds it.
- `SuccessesAreAudited` excepts a success whose audit identifier another request of
  either service has taken, under the same X-Request-ID: `AppendAuditRecord` meets the
  primary key and its error is dropped. ADR 0008 asks for an audit of every write; a
  client that reuses an identifier does without.
- `HandedOutIsKnown` holds as long as no statement of the verifier fails. One that does,
  in the lookup by digest, turns a genuine artifact into `artifact_continuity_failed`;
  one in each of the two lookups is the finding of `VerifierNotFound`. (An artifact sent
  with white space around it is never found by its digest: there the second is enough.)
- `SubmissionsAreDecided` does not promise a result. A failure or a crash after the
  submission was stored leaves it without one; what is promised is that its caller was
  told of the failure, or was told nothing. While nothing fails, the failure that remains,
  an unknown credential, is in the audit trail, unless another request with the same
  X-Request-ID took the key of that record.
- `AllowPredatesRevocation` excepts replays: an answer under a key is what the first
  submission got, revoked since or not.
- `DoneMeansApplied` and `CreationTimeKept` except bootstraps that overlap: each reads a
  row and overwrites all of it in two statements.

### Bounds, and why they are enough

- *Requests.* A property of a key or of a credential involves two requests that
  collide; a third, in `IssuerIssue`, comes after a first was
  released and beside a second, or replays. A request that is finished is not
  reused: `Requests` bounds the number of calls in a behaviour.
- *Failures.* The budget allows one fault, one expiry and one crash each; the
  order and place are free, so up to three failures combine. The known duplications
  need one fault.
- *Calls.* The sets in the MC modules contain a call for each branch of the
  handlers; passing runs between them fire every action and every disjunct.
- *Tables.* One issuer with one template, and at most two credentials at the start
  plus what the requests issue; two artifacts and a forged one. The registry of
  `VerifierWorld` knows the issuer as active or not at all; a suspended one is in
  `Phase1System`. `LastMinute` bounds the clock at one, which separates a time before
  expiry from one after it; `VerifierWorld` keeps it at zero, since the evaluation does not
  look at the clock.
- *Seconds.* In `TrustRuntime` they are scaled: a timeout of 1, a margin of 3, lives of
  4 and 2. What matters is that two timeouts fit in the margin, and the margin in
  one of the lives; 5 seconds are enough to present the longest-lived token after it
  has expired. Two requests overlap their fetches, or the second uses what the first
  stored; three do not fit, and the theorems cover them.
- *Objects and documents.* Three objects in two orders: one that a bootstrap needs
  first, one it needs last, and one between them whose place differs in the check, as
  the index's does. Documents of two entries, so that there is a first part; two
  bootstraps, one to overtake the other; more runs of them only repeat this, and the
  theorems cover any number of jobs and runs and any documents.
- *Process.* One timeout of a request fits into the shutdown's, as by default; the clock
  leaves every shutdown its time. Two requests, of which one holds the process up.
- *System.* One request of the issuer is enough to issue, to revoke or to read, and a
  credential that was issued before gives the verifier something to ask about meanwhile.
  Two submissions, so that one can be the other's replay.
- *Deadlock.* Requests are one-shot, so the system stops when all are answered;
  the cfgs of the two services, of the system and of the process say
  `CHECK_DEADLOCK FALSE`. `RequestsEnd`, `SignalStops` say that nothing stops earlier.
- *Symmetry.* Only `Requests` is symmetric, and only in runs without liveness.
- *Overlap.* `OverlapSpec` (run `IssuerDuplicate`) keeps to behaviours in which all
  requests arrive before any ends, which is the case its quotation is about.

### Fairness

`Fairness` is weak fairness of `Step(r)` for each request: a handler's goroutine
keeps running, and a statement returns, at the latest when the context that
`ContextTimeout` put on the request is done. No arrival, no failure and no action of
the world is fair. Only `RequestsEnd` and `ReservationsSettle` use it.

In `TrustLifecycle` a process that runs gets to its next statement, by the same reason.
That a command or a service that did not succeed is started again is no fact about the
code but what is assumed of whoever operates it: the compose file restarts nothing.
`ServicesComeUp` says that this is enough: no state is left that a re-run cannot repair.

In `PublicService` the process, its handlers and the clock are fair. No client is:
`SignalStops` holds although a body never arrives.

## 4. What is proved

The proofs about the two services share `Phase1SqlProofs`: what a reservation, a
completion, a release and an insertion leave of every other row, what a statement may
spend of the failures, and that none is regained.

### The issuer service

`IssuerApiProofs` proves, for any set of requests and calls, any attribution and
templates, any budget and any contents of the issuer table, from `BudgetAssumption`,
`CallsAssumption` and `PreissuedAssumption` alone:

- `TypeCorrect`: `Spec => []TypeOK`.
- `ReservationsExclude`: `Spec => []ReservationExclusive`.
- `OrphansStay`: `Spec => OrphanStaysOrphan`.
- `SuccessesReplay`: `Spec => []SuccessIsReplayable`.

The argument has three layers.

1. `Typed` is `TypeOK` with `FlowOK`, which says of each request what its step allows:
   a request at "complete" is keyed, has its reservation open and an allocated
   credential; one at "update" has loaded the credential it was asked about; one at
   "release" has a reservation open. `TypeOK` alone is not inductive: that the
   slot of a completed row is known needs that the request completing it is keyed.
2. `ReservationInv` adds `ReservationExclusive` and `ReservedWhileOpen`: the row of
   an open reservation is still in the state "reserved" up to the completion, unless
   the completion took effect unseen, when the request is on its way to the
   release. Exclusion is not inductive without it: that a slot is not deleted under
   its holder rests on who may release.
3. `ReplayInv` adds `ReplayFlow`: the same for the reply that is stored, carried from
   the completion and the lookup through the audit to the answer.

Each layer has one lemma per action or group of actions and an induction at
the end. Lemmas about the tables (what a reservation, a completion and a release
leave of the other slots) come first and are cited by name.

`IssuerCredentialProofs` goes on from the second layer, under the same assumptions, and
states everything else that is safety in the issuer's runs:

- `SuccessesAreStored`: `Spec => []IssuedMeansStored`.
- `AuditsAreTruthful`: `Spec => []AuditTruthful`.
- `CredentialsLive`: `Spec => CredentialLifecycle`.
- `OneCredentialPerKey`: `Spec => []OneCredentialPerKeyUnlessFault`.
- `InProgressIsTrue`: `Spec => InProgressMeansInFlight`.
- `IssuerKeepsPromise`: `Spec => KeepsPromise`.

The first three share `CredentialInv`. It says of each request what its steps have made
sure of (`CredentialFlow`: a prepared success names a credential that is stored as the
request asked), of each row of the idempotency table that the reply in it is true
(`RowsTrue`, which a replay needs, since its request wrote nothing), and that no two
requests allocate one identifier. `Grown` is what every step leaves of the credential
table: no credential is lost, rewritten or revived. With it the claims of all requests
that a step does not concern go through at once.

`KeyInv` adds `KeyTaken`, under the condition that no statement has failed: the slot of a
request that has stored its credential stays taken, by nobody else, and its request
comes to the release only under an expired context. This is where the release under the
request's own context is needed, and why one fault is enough to lose the property.
`CalmInv` says that while nothing fails, every reserved row has a request that holds it.

For the refinement, `Asked`, `Decided` and `Served` are the variables of
`IdempotentWrite` in terms of the tables. An arrival asks, the statement of a completion
decides whether or not it is acknowledged, the end of a keyed request serves, and
every other step stutters; that what is served was decided, for the same
fingerprint, is `PromiseInv`.

### The verifier service

`VerifierApiProofs` proves every property of the verifier's passing runs, for any requests,
calls and budget, any artifacts and what they decode to, any credentials that the
issuer may store, and any tables of the registry, from `BudgetAssumption`,
`CallsAssumption`, `IssuableAssumption` (a credential's artifact names that credential)
and `EnvelopeAssumption` (an expiry is a time):

- `VerifierTypeCorrect`: `Spec => []TypeOK`.
- `VerdictsReplay`: `Spec => []AnswersReplay`.
- `VerdictsAreReadable`: `Spec => []VerdictsReadBack`.
- `AllowsAreJustified`: `Spec => []AllowIsJustified`.
- `RevocationsHold`: `Spec => []NoAllowAfterRevocation`.
- `AuditsTellVerdicts`: `Spec => []AuditTellsVerdict`.
- `AllowsAreVouchedFor`: `TrustSpec => []AllowIsVouchedFor`, of `VerifierTrust`.
- `SubmissionsEnd`: `Spec => []SubmissionsAreDecided`.

1. `Typed`: types, what each step allows, and that the world only stores credentials
   that may be issued.
2. `ReservationInv`: an open reservation is the row this request inserted, and nobody
   else's. `ReplayInv` carries the reply of a keyed submission from the completion to
   the answer. "Final" is the reply that a completion stores: a verdict, or "credential
   not found".
3. `VerdictInv` carries the decision. `FoundTrue` says of the row a submission has
   resolved, which may be stale by the time the registry has answered, what is still
   true of it: it is the row of the credential that was submitted, under its digest, and
   if that credential had ended when the request arrived, the row shows it
   (`EndedForGood`). From there the verdict goes to the result, to the idempotency row
   (`RowsTrue`), to the audit and to later replays and reads.
4. `VouchInv`: a request on its way remembers the registry as it is now (`VouchFlow`), so
   the answer "active" of a trust lookup, which is the registry's of that moment, is
   remembered (`TrustVouches`), and no other step decides on an allow
   (`ResolvingDenies`). `SubmissionStays` keeps the identifier and the call of the
   request that a stored allow goes back to.
5. `DecisionInv`: while nothing fails, a stored submission is on its way, or has a
   result, or its record of failure. The record can be missing only because its key was
   taken, and `AuditsOwned` names the request that took it. `UndecidedInv` says, whatever
   fails, what the request of a submission without a result can be at, and that every
   submission has its request.

### The trust read, the commands and the process

`TrustRuntimeProofs` proves, for any set of requests, any grants, any table states
and any timeout of which two fit in the margin (`TimeoutAssumption`: 5 and 30 seconds
by default; the configuration accepts any positive timeout, and with one of 15
seconds or more the first theorem is no longer claimed):

- `RuntimeTypeCorrect`: `Spec => []TypeOK`.
- `AgeNeverRefuses`: `Spec => []NeverRefusedForAge`.
- `ReadsAreEntitled`: `Spec => []OnlyEntitledReads`.
- `TrustRuntimeImplementsTrustRead`: `Spec => ReadsAreTrue`.

The invariant `IInv` accounts for time in three steps, none of which is inductive
alone: a grant is stored at most one timeout after it was made (`Fetching`), so the
cached expiry is at least a margin less one timeout before the token's own
(`CacheIsEarly`), so a request that takes it ends, one more timeout later, while the
token is still alive (`Carrying`). `RefusedRightly` and `ServedRightly` carry the
reason for an answer from the introspection to the caller. `GrantsStay` says that a
grant never changes once somebody holds it; with it `OthersKeep` gives the invariant for
all requests that a step does not concern, and each action has one lemma for its own.
For the refinement, `Load` is the look, the end of a request the close, and every
other step of a request a stutter.

`TrustLifecycleProofs` proves, for any set of objects and any two orders of creating
and of checking them, any documents, and any number of commands, services, failures
and re-runs, from `ActorsAssumption`, `OrderAssumption` (both orders name every object),
`DocumentAssumption` and `BoundsAssumption`:

- `LifecycleTypeCorrect`: `Spec => []TypeOK`.
- `ServingIsReady`: `Spec => []ServingMeansReady`.
- `MigratedIsComplete`: `Spec => []MigratedMeansComplete`.

`ServingMeansReady` is not inductive, since a check asks for the objects at different
times. `ChecksKnow` supplies what is missing: every object that a check without a
miss has passed is there *now*, because objects are only ever created. The
same of a migration is `MigrationsKnow`. `GiveUpKeeps` treats every way to fail at once.

Of what bootstraps leave, it proves from the same assumptions:

- `AppliedWhenDone`: `Spec => []DoneMeansApplied`.
- `ChangesAudited`: `Spec => []TrustChangesAreAudited`.
- `PrefixLeft`: `Spec => []BrokenRunsLeaveAPrefix`.
- `TimesKept`: `Spec => CreationTimeKept`.

The invariant `BInv` rests on `Meet`: two bootstraps never share a time, and the later of
two that meet at their documents remembers the earlier. So one that ran alone can be
overtaken only by a younger one (`StoredIsInForce`, entry by entry up to where it has
come), and the creation time it read is still the stored one when it writes
(`TimeAtHand`). `AuditsFollow` says that a bootstrap has audited what it has left behind;
`RunsUnderWay` that its run has not been written off, so that a success never hides a
failure. `Frame` disposes of all steps that concern no bootstrap at its document, and
`Abandon` of every way to break off.

`PublicServiceProofs` proves, for any number of requests and any of their calls, from
`BoundsAssumption` and `TimeoutsAssumption` (the shutdown's time is longer than a
request's, as by default; `Validate` does not ask for it):

- `ServiceTypeCorrect`: `Spec => []TypeOK`.
- `ShutdownIsGraceful`: `Spec => []ShutdownInterruptsNothing`.
- `ActsAreVouched`: `Spec => []ActsForALiveToken`.

For the second, every request that works or waits for Hydra was there before the
shutdown began, so its deadline is less than the shutdown's; what is still in flight
when the wait runs out can only be waiting for a body.

### The services over one store

`Phase1SystemProofs` is about both services at once, each in the surroundings the other one
gives it. It does not reuse the invariants of the component proofs, which suppose that
nobody else writes the idempotency and audit tables. It proves all properties of
`Phase1System`, for any requests, calls and budgets at both services, any tables that
bootstraps leave and any credentials handed out before:

- `VerifierSeesItsWorld`: `Spec => IssuerIsTheVerifiersWorld`.
- `EverySuccessIsAudited`: `Spec => []SuccessesAreAudited`.
- `AllowIsFromBefore`: `Spec => []AllowPredatesRevocation`.
- `HandedOutIsFound`: `Spec => []HandedOutIsKnown`.

The assumptions: no request goes to both services (`RequestsAssumption`), failures are
counted (`BudgetsAssumption`), `PreissuedAssumption`, `CallsAssumption` (each service has
its own operations) and `ArtifactsAssumption` (an artifact is a text, padded or not, and
the texts include the submitted ones) say what kind of values the constants have.

1. `IssuerInv` and `VerifierInv` say of each request what its step allows. The first is
   enough for `VerifierSeesItsWorld`: a statement of the issuer service either creates a
   row under a digest of its own or ends a credential, and the checks that make this so
   were done at an earlier statement.
2. `Spent` makes every failure show: while a budget is whole, no statement of that service
   has failed and none of its requests has run out of time. `AuditsOwned` names for every audit record, of either service, the request
   that wrote it. So a success whose record is missing has lost its key to another
   request (`Clash`), and the theorem names that one. `Kept` carries both through the
   steps of the other service.
3. `HistoryInv` is for the last two. `VerifierReserved` and `IssuerReserved` hold because
   each service writes only the idempotency rows of its own operations, although the keys
   may be the same (`NextReserved`). `CredentialsGrow` is what any step leaves of the
   credential table. `Holds` says what a reply of the issuer service claims of it, so what
   has been answered (`IssuerSays`), stored for replay (`RowsHold`) and seen by a
   submission when it arrived (`AnswersHold`) stays true. `Allows` follows a decision from
   the row it read to the answer, to the stored reply and to every replay: behind an allow
   there is always a request (`Witnessed`) that was evaluated under that verification
   and had arrived before the end was confirmed. `Known` needs that the verifier service
   has not failed: a statement that fails leads to the search by identifier, and an artifact
   it finds is then refused.

### What is only model-checked

The liveness properties `RequestsEnd`, `ReservationsSettle`, `ServicesComeUp` and
`SignalStops`, which rest on fairness and are out of the prover's reach. Every invariant and
every action property of a passing run has a theorem.

`EnvelopeAssumption` and the part of the issuer's `CallsAssumption` about attribution only
say what kind of values the constants have: the decoder yields a time, and
attribution has the three outcomes that `PublicService` derives.

## 5. What is not modelled, and why

- Inside `VerifierApi`, the exchanges of a trust read: `ReadTrust` gives its outcomes,
  `TrustRuntime` has the exchanges. A restart of the verifier empties its token cache and is
  not modelled: the next request fetches, as the first one does.
- What a readiness probe promises of Hydra: it may be served from the cache while Hydra
  grants no tokens. `TrustRuntime` has the probe; no property is about its answer.
- What a listener's error does to requests in flight: it is modelled
  (`ExitOnListenerError`), and nothing is claimed of it, as the code waits for nobody then.
- Isolation inside the database: each statement is atomic, and the sequence's
  transaction is one step, serialized by its row lock.
- Logging, recovery from panics, response headers, the sanitizing of an `X-Request-ID`:
  nothing a property tells apart.
- Addresses, names and secrets in the configuration, and the settings of the verifier and
  the registry beyond what `Validate` has in common.
- The conversions of the store adapters that copy a record field by field, their seeding
  and listing methods, and the upserts that only fixtures call; the file-backed stores.
- The consoles, the API client, the crates, schemas and scripts: no state that
  changes. The deferred services, wallets and portals have no code.

## 6. Plan

Done: all modules of section 2 with their runs; a theorem for every safety property of a
passing run, and for both refinements.

Next:

- The hazards without a property: the settings of which `Validate` asks too little, the
  registry's record that does not decode, the listener's error, the audit records that a
  failed statement or a reused X-Request-ID loses, the lookup by digest that fails.
- `TrustRuntime` inside `VerifierApi`: a refinement mapping from the exchanges of a trust
  read to the step `ReadTrust`, in place of the argument by `TrustRead`.
- `IdempotentWrite` for keyed submissions: the verifier service keeps the same promise
  as the issuer service up to the replies that are not final.
