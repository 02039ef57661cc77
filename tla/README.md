# Verification of opentea

TLA+ models of opentea, a server for the Transparency Exchange API (TEA), the
TLC configurations that check them, and TLAPS proofs about them. The models are
translated from the Go code in `internal/` and `pkg/` and the SQL migrations.
Requests are interleaved at the granularity of the database:
`internal/db` opens SQLite with a single connection, so a transaction is one
step, while a handler that issues several queries outside a transaction takes
several steps and anything may happen between them.

## Inventory

| Part | State | Operations | What is hard, what makes it correct |
|---|---|---|---|
| Collection drafts (`repo/collectiondraft.go`, `publisher/collectiondraft.go`) | one draft row per release: content, revision, decision, lock, expiries | put, get, delete, approve, reject, prepareCommit, cancelPrepare, commit | maker-checker across edits; a lock that expires while someone signs; verification outside the committing transaction; lost answers. Nothing is published that an independent party has not approved in that form, and what is published is what was signed |
| Collections (`repo/collection.go`) | rows `(uuid, version)` with artifact references | create (admin, commit, release creation), import, read, list | versions numbered with gaps; published versions stay, also when the release goes; content resolved at read time |
| Evidence (`repo/evidencebundle.go`) | bundles, used fingerprints, timestamps, transparency entries, references | create (with a commit, for an artifact, or by the admin API for any version), complete, refer, read | replay versus reuse of a fingerprint; a commit's bundle and collection appear together |
| Artifacts (`repo/artifact.go`, `publisher/artifact.go`, `admin/upload.go`) | artifact versions, formats, file checksums, revisions | create, new version, upload file, upload signature, import | upload racing the evidence that attests to the file |
| Catalogue (`repo/product*.go`, `repo/component*.go`, `repo/distribution.go`, `repo/cle.go`, `repo/watermark.go`) | products, components, releases, links, identifiers, lifecycle events, revisions, watermarks | create, update, delete, import | ETags must change whenever a representation does; polymorphic rows must go with their owner |
| Bundles (`internal/bundle`) | none of its own | export, check, import | import is idempotent and all or nothing over whatever the catalogue holds; files are outside the transaction |
| Authorisation (`internal/authz`, `repo/authzstore.go`, `entitlement.go`, `template.go`) | templates and their revisions, entitlements, groups, audit records | decide, edit | a decision is many queries without a transaction; grants keep their rules; every change has its record |
| Users and sessions (`repo/user.go`, `internal/authn`, `internal/webadmin`, `httpx/loginlimiter.go`) | users, sessions, API keys, access tokens, attempts | log in, log out, create, delete, exchange | the last administrator stays; a login or exchange for an account that is being deleted; a sliding window at its limit |
| Publisher service (`internal/openteapublisher`) | staff, targets, approval requests, CI/CD credentials; its own database | request, decide, sign and publish, proxy | distinct approvers; decisions after the requester or an approver is deleted; calls to a remote server that fail half-way |
| Consumer API (`internal/api`, `internal/pagination`) | none | reads, conditional reads, pages | pages over a changing table neither skip nor repeat; validators are never stale |
| Storage (`internal/storage`, `internal/files`) | content-addressed files | put, get | a crash between writing and renaming |
| Database (`internal/db`) | applied migrations | migrate | a crash between migrations: each is one transaction with its record |
| Client (`pkg/teaclient`) | a discovery or a listing in progress | discovery, version ordering, list, download | failover against retry against refusal; redirects that take a token along; semantic-version precedence; ending at all |
| Trust (`internal/trust`) | none | canonical JSON, digest, verify | taken as given: digests are injective, a signature verifies for its signer |
| Tooling (`internal/conformance`, `internal/testdataset`, `cmd/*`) | none | | no state of its own |

`PROJECT.json` lists the hazards line by line with the properties aimed at each.

## Modules

| Module | Part | Composes |
|---|---|---|
| `CollectionDraft`, `CollectionDraftProofs` | collection drafts, collections, their evidence | implements `MakerChecker` |
| `MakerChecker` | what the draft workflow promises | |
| `BusinessApproval`, `BusinessApprovalProofs` | accounts, targets, approvals and credentials of the publisher service | |
| `ArtifactEvidence`, `ArtifactEvidenceProofs` | artifact versions, files, evidence, reads and downloads | handlers, blob store and caching clients |
| `Catalogue`, `CatalogueProofs` | products, components, releases, links, distributions, lifecycle data, watermarks, conditional reads | writers, entitlements and caching clients |
| `Authorisation`, `AuthorisationProofs` | templates, entitlements, groups, audit, decisions | administrators and consumer requests |
| `Accounts`, `AccountsProofs` | users, sessions, API keys, access tokens | extends `LoginLimiter` |
| `LoginLimiter` | the limiter of login attempts | |
| `Listing`, `ListingProofs` | paged lists and the client that reads them | consumer API, entitlements and client |
| `Discovery`, `DiscoveryProofs` | bootstrap discovery of the client library | client, DNS and servers |
| `MC...` | constants, symmetry and, where a run needs it, the states it goes on from | |

## Plan

Done: every module above, and the proof of every safety property that a passing run
checks. What is left:

1. A bundle as one transaction over several entities; the export that a later import
   must accept.
2. The proxy of the publisher service with a remote server that fails half-way.

Operators marked "Mutant", or named for what they leave out next to the definition they
vary, are deliberately wrong; they show that the properties notice such a mistake and are
used nowhere.

Fairness is assumed in two places, both of code that keeps running by itself: `Listing`
(the handler of a request and the client's loop take their next step) and `Discovery`
(every lookup and request has a timeout and every pause a timer). Elsewhere whether
anybody ever approves, signs, uploads or reads is up to people, so the promises are
safety properties and deadlock is not checked: the clock and the counters are bounded and
the system may come to rest. `Listing` and `Discovery` are checked for deadlock.

Four runs (`drafts`, `business`, `artifact`, `catalogue`) have a state constraint called
`Focus`. TLC goes on only from the states it names, which is how one run has both many
actors for a short time and few actors for a long one; each `MC` module says what is left
out. Every safety property of those runs is also a theorem for all constants and all
states, so the constraint limits where TLC looks and not what is known to hold.

## The collection-draft workflow

### Modules

* **`CollectionDraft`** is the workflow. `drafts[o]` is the `collection_draft` row of
  release `o` (revision 0 stands for no row, time 0 for NULL), `collections` the
  `collection` and `collection_artifact` rows, `evidence` the evidence bundles of
  collections with their registered fingerprints. `content[r]` counts the states an
  artifact version's canonical form has been in: a collection stores references and is
  served with whatever the artifacts are now (`Resolve`, `Representation`).
  `signer[s]`, `editor[e]`, `cancelling` and `creating` are what callers and handlers
  remember between two database accesses; `signer[s]` is also a client of the admin API
  that submits evidence (phase `attesting`).

  | Action | Code |
  |---|---|
  | `BlindPut`, `EditorPut` (through `PutCollectionDraft`) | put, without and with `expectedRevision` |
  | `GetDraftRow`, `GetDraftArtifacts` | get: two queries outside a transaction |
  | `DecideCollectionDraft`, `DeleteCollectionDraft` | approve and reject, delete |
  | `PrepareCollectionCommit` | prepareCommit: lock, and hand out the digest to sign |
  | `CancelPrepareCheck`, `CancelPrepareUpdate` | cancelPrepare: a check, then an update |
  | `PeekRow`, `PeekArtifacts`, `CommitSucceeds`, `CommitFails` | the commit handler: two reads and the verification, then the transaction |
  | `RetryCommit`, `SignerLeaves` | a lost answer; a signer or server that goes away |
  | `AdminCollectionCheck`, `AdminCreateCollection`, `ImportCollection` | the other two ways to publish |
  | `AttestCollection`, `SubmitEvidence` | evidence that the admin API accepts for any existing version: the reads and the verification, then the transaction |
  | `CreateRelease`, `ImportRelease`, `DeleteRelease`, `CreateArtifact`, `SetArtifactFormatFile`, `Tick` | the surroundings |

  A crash of the server loses only what handlers remember, which is `SignerLeaves`,
  `EditorGivesUp`, or a `cancelling` or `creating` entry that is never used; the
  database is transactional.
* **`MakerChecker`** is what the workflow promises: proposals, endorsements by an
  independent party, publication of exactly what was endorsed.
* **`CollectionDraftProofs`** holds the proofs, **`MCCollectionDraft`** the constants.

### Runs

| Run | Shows |
|---|---|
| `drafts` | `FourEyes`, `LockStandsOnApproval` and `LockFreezesDraft` with an editor who passes the revision it read and a signer, inputs the tables refuse (a repeated reference), and time long enough for an approval to run out under a lock; `TypeOK`, `CommitAllOrNothing`, `FingerprintUsedOnce`, `MakerCheckerSpec` and `PublishedStays` with two signers with one certificate, commits and retries, and next to them the admin API, which publishes and attests, and imports that leave gaps in the versions (419 thousand states) |
| `two_signers` | refutes "committing must publish bit-for-bit the same content that was signed" (`repo/collection.go`), stated as `SignedIsPublished`: signer 1 prepares and its commit handler verifies; signer 2 prepares again, which replaces `lock_date`; signer 1's transaction publishes the new date with evidence over the old one |
| `release_deletion` | refutes "cascading to its component links and collections" (`repo/productrelease.go`; likewise `repo/componentrelease.go`, and "a collection version cascade-deletes with its owning release", `repo/collection.go`), stated as `CollectionsGoWithRelease`: a release is created with its first collection and deleted, and the collection stays, since no foreign key leads from it to the release and no statement deletes it |

Other divergences met while modelling are reproduced by the model and recorded here,
without a run of their own:

* "Past this time the draft is treated as abandoned" (`design/publisher-openapi.yaml`):
  `expires_at` is only reported.
* expectedRevision detects "someone else already replaced this draft since I last read
  its state" (`repo/collectiondraft.go`): revisions restart at 1 after a delete or a
  commit, so the comparison can pass against a different draft.
* A retried commit is replayed, "the stored bundle is returned instead of an error"
  (`repo/evidencebundle.go`): the commit deleted the draft, so the retry gets 404 before
  the evidence is looked at. `FingerprintUsedOnce` shows that nothing is published twice.
* "there is at most one such bundle" (`GetEvidenceBundleForOwner`,
  `repo/evidencebundle.go`): the index on the owner is not unique, and
  `POST /admin/v1/collections/{uuid}/{version}/evidenceBundle` adds another bundle, under
  another certificate, to a version that was committed with its own. `CommitAllOrNothing`
  therefore says that a committed version has evidence, not that it has one bundle.
* A version's "representation is provably immutable" (`repo/collection.go`): its
  artifacts' formats change with an upload.
* A competing version under the lock is what "nothing in this codebase does"
  (`repo/collectiondraft.go`): the admin API and imports do.

`PeekArtifacts` and `AttestCollection` each stand for several queries outside a transaction
(the references of a version, then each artifact); nothing stated here depends on an upload
between two of them. The variant of the admin request that refers to an external bundle
(`evidenceBundleRef`) stores a row nothing modelled reads and is left out.

Bounds: one release (releases do not interact except through fingerprints, which two
commits of one release exercise), two actors and two credentials (the fewest for
which a decision is possible and self-approval by name and by credential differ), one
or two signers, `MaxTime` past the longest expiry, `MaxVersion` for a commit beside
another publication, `MaxRevision` 2 so that an approved draft is edited. Actors,
credentials and signers are interchangeable, hence the symmetry. `Focus` has one signer
and an editor until an approval has run out under a lock (`OneSigner`), and two signers,
the admin API and imports until the next tick of the clock (`TwoSigners`). That a
lock cannot be held for ever is the bound in `LockStandsOnApproval`.

### Proofs

For every choice of the constants (assumptions: the time limits are natural numbers,
locks and approvals last at least one unit, `NoOne` is none of the named things):

* `TypeCorrect`. The invariant needs `Topped`: every release has a newest version.
  `MAX(version)` is a `CHOOSE`, which means nothing without a maximum, and finiteness
  is not available to the provers, so the existence of a maximum is carried along.
* `DraftStep` reduces every step to six ways a draft row can change. From it:
  `FourEyesHolds`, `LockStandsOnApprovalHolds`, `LockFreezesDraftHolds`.
* `HistoryStep` reduces every step to four ways the published rows can change. From
  it: `PublishedStaysHolds`, `CommitAllOrNothingHolds`, `FingerprintUsedOnceHolds`. The
  transaction that stores a bundle looks for its owner again, so evidence of the admin API
  never names a version that is not there, whatever happened since it was verified.
* `ImplementsMakerChecker`: initial states map to initial states and every step maps
  to a step of `MakerChecker` or to none.

`SignedIsPublished` does not hold with two signers, which is what `two_signers` shows, and
`CollectionsGoWithRelease` does not hold at all.

## The publisher service's accounts and approvals

**`BusinessApproval`** models the service's own database (`internal/openteapublisher`)
and the form handlers that change it. A form handler takes up to three steps: the
session middleware resolves the account and checks its role (`Arrive`), the handler
reads the row it is about to change (`GetStaffByUUID`, `GetTarget`,
`GetApprovalRequest`, `ListCICDCredentials`), and one transaction changes the row and
writes the audit entry (`CreateStaffForm`, `DeleteStaffForm`, `CreateTargetForm`,
`DeleteTargetForm`, `CreateApprovalRequest`, `RecordApprovalDecision`,
`CreateCICDCredentialForm`, `RevokeCICDCredentialForm`). Two handlers interleave at
these points, sessions begin and end (`LoginSubmit`, `SessionEnds`), and
`RunCreateStaff` is the command that adds an account beside the service. `Rollback` is
every error path: a refused check, a constraint, a client or server that goes away.

A row is `unused`, `live` or `deleted`, since a UUID is never used twice. Deleting an
account empties the columns that name it (ON DELETE SET NULL), deleting a target takes
its requests, decisions and credentials (ON DELETE CASCADE). Several sessions of an
account count as one; the audit entry is reduced to the operation, the account, the
row, and the status of a request before and after. `maker` and `approvers` are history
variables: the tables forget both when accounts are deleted.

| Run | Shows |
|---|---|
| `business` | with three accounts, two handlers and requests for one or two approvals, accounts deleted at any point (five audit entries): `ApprovedByQuorum`, `StatusFollowsDecisions`, `ClosedIsFinal`; with two accounts and every operation (three audit entries): `AdminRemains`, `NoOrphans`, `AuditMatchesTables`, `NothingByTheDeleted`, `TypeOK` (1.35 million states; all properties are checked in both parts) |

Three accounts are the fewest for a maker and two approvers; two handlers give every
race of two requests, and each transaction touches one row with its dependants, so a
third handler adds no new conflict. `MaxAudit` bounds the number of transactions, and
`Focus` (`Deciding`, `Administering`) which of them go on.

What the quorum rests on: deleting the maker's account empties `requested_by`, and the
self-approval check then compares with nothing. That is harmless because a deleted
account cannot commit a decision: the foreign keys of the decision and of the audit
entry refuse it, although its handler passed the session check before. The count is of
distinct accounts, so repeated approvals, which the code allows although a comment in
`approval.go` says that an approver "may only decide once", do not add up. Likewise
"every mutation ... gets one" (`audit.go`) does not hold of the `createstaff` command,
which writes no audit entry.

Proofs (`BusinessApprovalProofs`), for all sets of accounts (finite), targets,
requests, credentials and handlers:

* `TypeCorrect`, `AdminRemainsHolds` (two admins that delete each other are serialised
  by the transaction that counts), `NothingByTheDeletedHolds`, `ClosedIsFinalHolds`.
* `ApprovedByQuorumHolds` from the inductive invariant: type correctness, sessions
  belong to live accounts (`SessionsLive`), a handler about to decide was opened by an
  approver (`HandlersGated`), and for every request the decision rows that still name
  an account are approvals of the history, and the maker column is the maker or empty
  only when that account is deleted (`QuorumInv`). Without the last part the
  property is not inductive: nothing else connects the emptied column with the account
  that must not approve.

* `NoOrphansHolds`, from `ReferencesLive`: a request that exists has its target, and its
  maker is a live account or nobody; likewise for credentials.
* `StatusFollowsDecisionsHolds`, from `StatusInv`: at most one decision rejects and then
  it is the last, and a pending request has fewer approvals than it needs. Emptying the
  column that names an approver leaves the decisions as they were, so the count of
  distinct accounts may fall later while the status stays.
* `AuditMatchesTablesHolds`, from `CountsMatch` (one entry per decision and deletion),
  `ReadsClosed` (a request that a handler read as closed stays closed, so its transaction
  is refused and what it read is never logged) and `ChainInv` (the last entry about a request
  records the status it has now). The handler reads the previous state outside its
  transaction: `ReadsClosed` is why the log is right all the same. Needed besides: requests
  share no UUID with other rows (`UUIDsAssumption`).

## Artifacts: versions, files, evidence and reads

**`ArtifactEvidence`** models artifact versions with the files of their formats, the
blob store, the evidence submitted for artifacts, and the clients that cache answers.

| State | Code |
|---|---|
| `artifact[a][v]` | `artifact`, `artifact_format`, `checksum`, `artifact_distribution` rows of a version: distribution ids, SHA-256 and signature per format, revision |
| `files`, `blob` | the content-addressed files (`storage/fsblob.go`), the `blob` table |
| `evidence` | evidence bundles of artifacts with their fingerprints |
| `handler[h]` | an upload or a submission between two of its steps |
| `request[c]`, `copy[c]` | a read between two of its queries; the answer a client keeps for If-None-Match |
| `accepted` | history: the submissions answered with 201 |

| Action | Code |
|---|---|
| `CreateArtifact`, `CreateArtifactVersion` | create, new version (with the optional previousVersion check) |
| `ImportArtifact`, `ImportRolledBack` | an artifact of a bundle, with its files, by a forced import without them (`referenced`), or with external URLs; an import that fails after its files were written |
| `DeleteDistribution` | deletion of a component release, as the cascade reaches artifacts |
| `UploadFile`, `Put`, `UpsertBlob`, `SetArtifactFormatFile`, `SetArtifactFormatSignatureFile` | the steps of an upload, through either API |
| `SubmitArtifactEvidence`, `ReadPart`, `CreateEvidenceBundle` | submission: the artifact is read part by part, then the transaction |
| `Abandon`, `GiveUp` | errors, refusals, crashes, redirects |
| `Get`, `NotModified`, `Conditional`, `GetArtifact`, `ReadOn`, `WriteJSON` | reading an artifact, latest or by number |
| `GetArtifactFormatForDownload`, `StreamBlob` | downloading content or signature |

The run `artifact` checks `UploadedIsStored`, `AcceptedOncePerFingerprint` and
`MatchingValidatorIsCurrent`: two handlers upload and submit, one client reads the
latest artifact and downloads its content, over two versions, with an import and a
deleted distribution in between. `UploadedIsStored` is about content and signatures that
were uploaded or came with a bundle (`Promised`). A forced import (`ImportUnchecked`) takes
checksums whose files are missing; such a row promises its signature only, and the property
says that a later upload or an import beside it is stored all the same.

Reading an artifact is where the order is right: the ETag is settled before the artifact
is read, so a change in between leaves new content under an old ETag, which no later
request matches.

Bounds: a second handler gives each race of an upload with an upload or a submission
(`MaxCalls` counts what handlers start); one file, which a version made by the API starts
without and an imported one starts with, is enough for content and signature to change
under a reader and under a submission; a client keeps one answer at a time.
Handlers are interchangeable. Of the canonical form only what can change is kept; all
formats of an imported version start with the same file. `Focus` has a version imported by
reference only as the first one of its artifact and before clients have kept anything (869
thousand states). Files that a forced import stores under a digest that is not theirs are
left out, as are references to external bundles, timestamps and transparency entries,
which nothing modelled reads.

Recorded without a run:

* "a checksum with no matching blob is a legitimate "reference-only" import, so import
  can't reject it" (`storage/fsblob.go`): `bundle/import.go` does reject it
  (`missingFileHashes`), unless the import is forced; the model has the code's rule.
* "file content is frozen once validated" (`publisher/artifact.go`): the upload looks for
  evidence before it receives the file and not again when it replaces the checksum, so
  evidence submitted in between is of content that is gone.
* "Strong `ETag`" of downloads (`TODO.md`): the checksum is resolved before the revision
  is read, so an upload between the two sends old content under the new ETag, and 304 for
  it afterwards.
* Deleting a component release removes distribution ids from artifacts and leaves their
  revision: a cached artifact stays "not modified" with ids that are gone.
* "there is at most one such bundle" (`repo/evidencebundle.go`): two certificates give
  an artifact version two bundles.
* "every write path only ever sets one of the two" of signature URL and signature file
  (`repo/artifact.go`): an imported format with a URL that then gets an upload has both,
  and the URL is the one served.
* Two formats of one media type: downloads reach the first only.

Proofs (`ArtifactEvidenceProofs`), for all sets of artifacts, handlers and clients, any
number of formats, versions and calls:

* `UploadedIsStoredHolds`, from `StoreInv`: besides the rows, a handler that has written
  its file or booked it has it in the store or in the `blob` table, since the row comes to
  name it only afterwards and nothing is ever taken out.
* `AcceptedOncePerFingerprintHolds`: the transaction decides; what a submission read
  before it does not matter.
* `MatchingValidatorIsCurrentHolds`, from `ClientsInv`: of an answer being put together, the
  parts read so far are current while the ETag settled before still matches. The property
  is about finished answers only and is not inductive without it. Revisions only grow,
  and every write of a part raises them, except deleting a distribution, which the property
  leaves out by looking at formats.

## The catalogue

**`Catalogue`** models the rows below `internal/repo` that make up the catalogue. An
owner is a pair of an owner type and a UUID, as in the tables without foreign keys.

| State | Code |
|---|---|
| `row[o]` | `product`, `component`, `product_release`, `component_release`, `release_distribution`: parent, content, revision |
| `identifier`, `checksum` | the rows of those tables that belong to an owner |
| `link` | `product_release_component`, with the pinned component release |
| `event`, `support`, `cleRevision` | lifecycle data (`cle_event`, `cle_support_definition`) and the counter behind its ETag |
| `watermark` | `dataset_watermark`: one counter per list |
| `creator[h]` | a release creation between its lookup of the parent and its transaction |
| `granted[c]`, `suffix[c]` | what a consumer may read now; the part of its ETags that stands for its entitlements (`authzCacheSuffix`) |
| `request[c]`, `copy[c]` | a conditional read between its ETag and its body; the answer a client keeps, with what it was let read when it was answered |

One action per repository method that writes (`CreateProduct`, `ImportProduct`,
`LinkComponent`, `SetDistributionFile`, `CreateCLEEvent`, `DeleteComponent`, ...), the
creation of a release in its two steps (`LookUpParent`, `CreateProductRelease` or
`CreateReleaseFails`), and `Request` and `Respond` for conditional reads. A list holds what
the consumer may read (`Listed`, filterAuthorized), and its ETag is a counter with the
consumer's suffix. `ChangeEntitlements` gives a consumer other entitlements and any suffix:
for an anonymous one it is the constant "anon", for a user the highest revision of an
entitlement that applies, which may rise, fall or stay. `Cascade` is
what the foreign keys delete, `deleteOwnerScoped` what the code deletes itself.

`catalogue` checks four properties. `ReferencesResolve` and `ReleaseUUIDsDisjoint` are
about the tables, the identifier rows included, which no foreign key guards and on which
`CreateComponent` relies when it answers a conflict with the component that has the
identifier; `ValidatorIsCurrent` and `RevisionCoversDistributions` are about the counters
behind ETags: a copy whose ETag still matches has the current body of what the consumer was
let read when it was answered, across deletion and re-import of the same UUID and whatever
happens to entitlements meanwhile. That it is also what the consumer may read now is not
true and not stated: see below. `cascade`
refutes the same for the lists of releases: `watermark.go` says that a watermark is
"bumped on any write that could change that family's list membership or listed content",
but deleting a product deletes its releases by cascade and bumps the products only.

Bounds: one product, one component, two releases (of either type, so that a product
release, a component release and their confusion are possible), one distribution, six
writes of rows (create a component and two releases, link, delete and import again),
`MaxCount` for the revisions, one consumer that may read all or nothing, with two suffixes.
`Focus` has consumers read while there is nothing but the component, whose list and
lifecycle data they read (786 thousand states). `Request` merges the reads of the counter
and of the suffix, and `Respond` reads a list in one step; the batches of a list are in
`Listing`.

Recorded without a run:

* An ETag is "different the instant their entitlements change" (`api/cachepolicy.go`), and
  its part for the caller "changes the moment any entitlement applicable to userUUID is
  created, modified, or removed" (`repo/entitlement.go`). Every entitlement starts at
  revision 1 and the part is a maximum of revisions, so creating or deleting one can leave
  it as it was, and for anonymous callers it is constant. Stated of `granted[c]` as it is
  now, `ValidatorIsCurrent` is violated by `CreateComponent`, `Request`, `Respond`,
  `ChangeEntitlements`: 304 is said of a list that lacks, or shows, an entity under the
  entitlements of before.
* Deleting a component or a component release changes the components that a product
  release shows, through the foreign keys of the link, and not its revision: "not
  modified" is said of the old list.
* A release deleted and imported again under its UUID starts at revision 1 again, so an
  ETag of its former life can match; products and components have ETags of their
  identity alone.
* `deleteOwnerScoped` runs for the row that is deleted, not for the releases that go
  with it: their identifiers and lifecycle rows stay.
* Lifecycle data is accepted for owners that do not exist.

Proofs (`CatalogueProofs`), for all sets of owners, identifiers and clients and all bounds:
`ReferencesResolveHolds` and `ReleaseUUIDsDisjointHolds` from `TablesInv` (types, and every
row's parent is of the right type and exists); `RevisionCoversDistributionsHolds`, by
reducing every action to what it may do to one release and its distributions
(`RowsStep`, `ReleaseStep`); `ValidatorIsCurrentHolds` from `ClientsInv`: the ETag that a
request or a copy holds has at most the current counter, and a body is current, for what
was granted then, while they are equal. The counters behind those ETags are never lowered, also not by deletion and
import, which is what makes this inductive (`WriteStep`, `CLEStep`).

## Authorisation

**`Authorisation`** has the tables of `0005_authz.sql` and the admin handlers that change
them, each with its audit record in one transaction, and the decision of a consumer
request, which is not in a transaction: `CandidateRules` plans the queries for a resource
(`PlanForProduct`, `PlanForRelease`, ... as in `authzstore.go`), and each query
(`QueryRules`, `ListProductGroupsContaining`, `ListReleaseGroupsContaining`,
`listCollectionsContainingArtifact`, `EnterCollection`) is a step between which
administrators act and time passes. `Decide` is `authz/engine.go`: default deny, the
narrowest resource scope, the narrowest subject, deny over allow.

`authorisation` checks: `VerdictExplained`, that a decision pieced together from queries
at different moments is one that rules in force during the request justify (an allow needs
a rule that a scope of the resource held, against which no deny stood throughout; a deny
of what was allowed throughout needs a deny); `GrantKeepsItsRules`, that no sequence of
revising, activating and deleting templates changes what an existing entitlement grants;
`AuditExplainsTables`, that the log accounts for everything that exists or has gone, except
an entitlement given to a user who is gone as well (`grantee` remembers to whom it was
given). `user_deletion` refutes "Authorization-state mutations MUST atomically create an
immutable audit record" (`admin/audit.go`) for that exception, stated as
`RevocationIsAudited`: `DeleteUser` deletes the user's entitlements by foreign-key cascade
and records nothing. The
instance asks about an artifact in the collection of a release in groups, which goes
through every kind of query; the public entitlement of the migration, one more
entitlement by group and one template with two revisions are enough for rules to appear,
lapse and be withdrawn between two queries.

What the property allows on purpose: groups are listed first and their rules are queried
later, so a group that was left or deleted in between still decides. `PlanForArtifact`
omits the branch for an artifact together with a collection, which no handler asks for.

Proofs (`AuthorisationProofs`), for any resources, groups, subjects, templates and
requests: `TypeCorrect`; `AuditExplainsTablesHolds` from `AuditInv`;
`GrantKeepsItsRulesHolds` from `GrantsResolve` (an entitlement names a revision that exists),
`TemplatesKept` (revisions are only added, and a template in use stays) and
`EntitlementsKept`; and `VerdictExplainedHolds`. The invariant behind the last
(`RequestInv`) follows a request through its queries: every candidate found is a rule that
applied at some moment; every query still to make is about a scope that the resource has
or had; and a rule that has applied throughout by one path is already a candidate, or the
query that will find it, or the step that leads to that query, is still to come
(`Pending`). A path is how a rule comes to concern a resource: itself, its release, its
product, a collection it is in, or a group of one of these.

The proof attempt corrected the property. "A rule that applied throughout is seen" is false
of an artifact that is shared by releases of two products: while a decision is being made, a
group can be moved from the product whose groups are not yet listed to the one whose
groups already were, so that the artifact is in the group at every moment and the
decision never sees it. What is true, and proved, is about rules that applied throughout by
one path. The instance of the run has one collection per artifact, which cannot tell the
two apart; an instance with two products also passes (2.3 million states, too many
to repeat with every change), and the theorem covers both.

## Accounts and the login limiter

**`LoginLimiter`** is `httpx/loginlimiter.go`. Instants are ages that grow with `Tick`; a
call to `Allow` happens when it has the mutex, with a clock reading that may be up to
`MaxWait` old by then. `RateBound` is what is left of "no more than" the limit "within any
window": since the map was last cleared, and in windows shorter by the wait. A map at its
limit is cleared and every attempt forgotten; the model has that, and no property bounds
the rate across it.

**`Accounts`** extends it with users, sessions, API keys and access tokens. A login is
`loginSubmit` (limiter), `VerifyLogin`, `CreateSession`; a key exchange is `requestToken`,
`CreateAccessToken`; an administrator's request is `requireRole` and then `CreateUser`,
`DeleteUser` or `SetAPIKey`. Between the steps anything happens, and `Respond` ends a
request without effect (a refused input, a failed statement, a caller that hangs up).
`createadmin` is the command in a process of its own.

`accounts` checks `SomeAdminRemains` (two admins deleting each other),
`CredentialsEndWithAccount` (no session, key or token without its account, also when it
was being issued while the account was deleted), `SessionProvesPassword` (a session is for
the account whose password was given, although the name may be taken by another in
between) and `RateBound`. Three users (one deletes, one is deleted, one takes the name),
two requests for their races, two addresses and a map that is cleared above one. Random
tokens stand for new ones once they resolve to nobody; requests, names, passwords,
addresses and the users not yet made are interchangeable. Access tokens are valid until
their time to live after the API key they came from was replaced, as the code has it.

Proofs (`AccountsProofs`), for any users, requests, names, passwords and addresses:
`TypeCorrect`, `RateBoundHolds`, `SomeAdminRemainsHolds`, `CredentialsEndWithAccountHolds`
and `SessionProvesPasswordHolds`, the last three from `AccountsInv`: types, every row is of a user that was issued, finitely many exist (the
code counts administrators), and `LoginHoldsProof`: a login past the password check holds a
UUID that no other user ever has, with the password that user has.

`RateBound` is about calls that were let in and the limiter counts attempts that it
remembers, by clock readings that are older than the calls by an unknown wait and need not
be in order. `LimiterInv` relates the two: the calls that `RateBound` can still reach are
paired with the latest of the remembered attempts, each of which is older than its call by
at most `MaxWait` (`Paired`), and at most `Limit` are remembered. It is inductive because
such a call is younger than `Window - MaxWait`, hence its attempt younger than `Window`, and
no caller's cutoff drops it, however late or early its own reading of the clock. The loop
that drops attempts is a recursive function of its position (`Younger`), and what it leaves
of a sequence of any length is proved by induction over that position (`YoungerKeepsTail`,
`YoungerOfFalling`).

## Paged lists

**`Listing`** is a client that reads a list to its end. `ListAll` asks for pages; a page
is served in steps: `Parse` (parsePageParams, which refuses a token issued for other
parameters), `Query` (the keyset query of one batch), `Load` (each release the query named
is read by its own statement), `Decide` (the authorisation of each row), `NextBatch`
(filterAuthorized goes on behind the last row it read) and `Reply`. Around them rows are
inserted, deleted and imported again, entitlements come and go, clients send tokens with
other parameters, and connections fail.

`listing` checks `NoGaps`, `DeliveredInOrder`, `TokenNamesShown` and, under weak fairness
of the serving steps, `ListingEnds`. Fairness is of the handler and of the client's loop,
which nothing stops; writers, clients and connections have none. Pages of one row over
three rows give empty, full and overfull batches; two writes are enough to delete a row
and bring it back; values of the sort field repeat, so that the UUID decides.

Left out as without effect on these properties: the sort field `version` of releases (one
more column like the others) and the check that the parent of a release list exists and may
be read, which only refuses a request before it starts.

What the properties leave out, because the code does otherwise: a release without a
release date is only found by the first batch of a list sorted by it (a comparison with
NULL is not true), and a UUID that is deleted and imported again with another sort value
between the query and the load moves the cursor (`reused`).

Proofs (`ListingProofs`), for any set of rows, page size, parameters and number of writes:
`NoGapsHolds`, `DeliveredInOrderHolds` and `TokenNamesShownHolds`. The answer of a query
with ORDER BY and LIMIT is the one sequence that is ordered and holds the first rows
(`Limited`, a set of outcomes): that says what SQL promises, and the properties can be
proved from it without a sort. `QueryIsDetermined` shows that it is a definition and not a
choice: of finite tables the set has exactly one member in every state. None of the properties mentions the
cursor or the batch in hand, so none is inductive. The invariant says: rows in hand are as
the tables have them or deleted since, unless their UUID was reused (`RowsInv`); what was
taken is in order and before the batch, the cursor and the token (`OrderInv`); and what is
due, that is, there and readable all along, was taken or is still to be read (`DueInv`).
`Inv` was checked by TLC on the run's instance before it was proved. `ListingEnds` is
liveness and stays with TLC.

## Discovery

**`Discovery`** is `BootstrapDiscover` of the client library: `Resolve` and `Alias` (HTTPS
records), the fetch of `.well-known/tea` (`Send`, `FetchAnswer`), the endpoints by
priority (`Choose`), the request to each with the highest version both sides speak (`Send`,
`Redirect`, `DiscoverAnswer`), pauses and retries (`Wait`), and the caller's `Cancel`. DNS
contents, documents, answers, redirects and cancellation are the environment's. A version
is its fields (parsing is left out); an answer is the class that the error predicates can
tell apart.

`discovery` checks that endpoints are tried in the order of their priority
(`FailoverInOrder`), that a 401 or 403 is not passed on to another endpoint
(`RefusalIsFinal`) and a call fails only after a refusal or when every usable endpoint has
let it down (`FailsOnlyExhausted`), that the bearer token is
only sent to the origin of an endpoint (`TokenStaysHome`), that an endpoint is asked for the highest mutual
version under the precedence of semantic versions (`HighestVersionAsked`), and, since every
lookup, request and pause has a timeout or a timer, that the discovery ends
(`DiscoveryEnds`). The documents hold endpoints with and without a priority, with equal
ones, with one that is not https, and with versions that differ in pre-release fields; one
retry and two redirects stand for three and nine, since each further one is alike.
In the second document an endpoint that cannot be used stands in the middle of the order,
so that skipping it and stopping at it differ.

Recorded without a run: after a 401 or 403 "any other failure ... moves on to the next
endpoint" (the comment on `BootstrapDiscover`), while the comment inside the loop and the
code stop at a conforming TEA 404 too. The model has the code's rule, and
`FailsOnlyExhausted` counts such a 404 as a refusal; `RefusalIsFinal` is about what both
comments say.

Proofs (`DiscoveryProofs`), for any documents (sequences of endpoints with integer
priorities), zones and limits: `TokenStaysHomeHolds`, `FailoverInOrderHolds`,
`FailsOnlyExhaustedHolds`, `RefusalIsFinalHolds` and `HighestVersionAskedHolds`. The order of
the endpoints is the one outcome of a stable sort (`sortEndpointsByPriority`, a set of
outcomes; `StableSortIsUnique` proves that it has exactly one member). The
invariant adds what the properties leave open: the endpoints still waiting are in order,
after all others, and have not been asked (`QueueInv`); an endpoint that is neither waiting
nor in hand was given up or cannot be used (`LeftInv`, `OrderInv`); the endpoint in hand is
one that may be asked, was asked as often as the attempts say, and its requests start at
its own origin (`AttemptInv`, `HandInv`); after a
refusal the call has failed (`RefusalInv`).

`HighestVersionAskedHolds` rests on `HighestMutualVersionIsHighest`, about the function
alone: `compareSemVer` is a strict order on versions (`SemVerOrder`; pre-release fields left
to right, numbers below words, a longer list above its beginning), and after each turn of
the two loops the version in hand is the highest of the common ones seen so far. A second
invariant (`VersionInv`) says that what an endpoint was asked for is what the function
returns for it. The version lists are sequences of parsed versions of any length
(`VersionsAssumption`).

`DiscoveryEnds` is liveness and stays with TLC, but the argument that no call goes on for
ever is proved: `Rank` is what is left of a call (the phases before the endpoints, the
endpoints waiting, the attempts, the redirects of an attempt), every step lowers it in the
lexicographic order whatever is answered (`CallRunsOutHolds`), and that order is
well-founded (`RankIsWellFounded`). What remains to TLC is that a running call always has a
step to take.

## What is proved and what is only checked

`PROJECT.json` lists the theorems. Of each of the eight state machines an inductive
invariant is proved and, from it, the safety and action properties that the runs check, for
every value of the constants. The assumptions are named in the modules and TLC evaluates
them on every run:

* `NULL` is no row and no name; the UUIDs of different tables differ where a log or a column
  mixes them (`UUIDsAssumption`);
* bounds are natural numbers, and page sizes are those that the server accepts;
* inputs lie within the types the handlers accept, a document's priorities are integers and
  its versions parsed semantic versions;
* the login limit is positive and the window longer than a caller waits for the mutex;
* the service has finitely many staff accounts (it counts them).

Only model-checked:

* `ListingEnds` and `DiscoveryEnds`: liveness under fairness, and that a step is enabled,
  are out of the provers' reach. Of `DiscoveryEnds` the decreasing measure is proved.

What loops compute for inputs of any length is proved by induction over the loop's position.
The library's induction theorems take an operator as parameter, which the installed provers
cannot instantiate; the proofs use the set form instead: a set of numbers that holds 0, and
with each number the next, holds them all (`NaturalsByInduction`, from the least element of a
set of naturals, `LeastNatural`, which is the well-foundedness of `<`). Loops are written as
recursive functions of the position, whose defining equations are lemmas.

What the runs `two_signers`, `release_deletion`, `cascade` and `user_deletion` check does not
hold; each shows how.
Where a theorem of `PROJECT.json` has no property beside it, it is the invariant that
the others rest on, types included; no run spends itself on those.

## Not modelled

Formatting and parsing of requests, timestamps and certificates; wording of errors and
logs; the cryptography (digests are taken to be injective, signatures to verify for
their signer); sub-second differences between clock reads in one request. A bundle as one
transaction over its entities and its export; reads of single products, components and
collection versions; the proxy of the publisher service, which forwards requests and keeps
nothing; the pages of the web administration; migrations, each of which is one transaction
before anything else runs; the test tooling. `PROJECT.json` says so component by component.
