-------------------------- MODULE ArtifactEvidence --------------------------
(***************************************************************************)
(* Artifact versions, the files uploaded for their formats, the evidence   *)
(* submitted for them, and the clients that cache what they download.      *)
(*                                                                         *)
(* A handler issues its queries one by one outside a transaction, and      *)
(* other handlers run between two of them: an artifact is read row by row, *)
(* an upload checks, stores the file, books it and only then changes the   *)
(* artifact, and a response is put together from several reads.  A handler *)
(* may stop anywhere (an error, a client that went away, a crash).         *)
(*                                                                         *)
(* SHA-256 is taken to be injective: a file stands for its digest, and the *)
(* canonical form of an artifact for the digest signed over it.            *)
(***************************************************************************)
EXTENDS Integers

CONSTANTS
    Artifacts,      \* artifact UUIDs
    NumFormats,     \* the formats of each artifact version
    Contents,       \* the files that are uploaded
    Distributions,  \* distribution ids
    Fingerprints,   \* certificates of signers
    Handlers,       \* uploads and submissions in progress
    Clients,        \* readers; each has one request at a time and keeps its answer
    Apis,           \* the APIs through which files are uploaded
    Reads,          \* the URLs that clients read
    ImportSources,  \* what bundles bring
    MaxVersion,     \* bound on the versions of an artifact
    MaxCalls,       \* bound on the uploads and submissions that are started
    NULL            \* an empty column, an idle handler

Formats == 1..NumFormats
Versions == 1..MaxVersion

\* A read is of an artifact version, or of the content ("checksum") or the
\* detached signature of one of its formats; version 0 is the latest.
Kinds == {"artifact", "checksum", "signature"}
URLs == [kind : Kinds, artifact : Artifacts, version : {0} \cup Versions,
         format : Formats]

\* A version was created here, or imported: with its files in the bundle, with
\* SHA-256 checksums whose files are not in the bundle (only a forced import lets
\* them through), or with external URLs.
Sources == {"created", "embedded", "referenced", "external"}

ASSUME BoundsAssumption ==
    NumFormats \in Nat /\ MaxVersion \in Nat /\ MaxCalls \in Nat
ASSUME ApisAssumption == Apis \subseteq {"publisher", "admin"}
ASSUME ReadsAssumption == Reads \subseteq URLs
ASSUME ImportSourcesAssumption == ImportSources \subseteq Sources \ {"created"}

VARIABLES
    artifact,      \* artifact[a][v]: the row of version v with its formats, or NULL
    distribution,  \* the distributions that exist
    files,         \* the blob files in place under their digest
    blob,          \* the digests with a row in the blob table
    evidence,      \* the evidence bundles of artifacts
    handler,       \* handler[h]: what a handler holds between its steps, or NULL
    request,       \* request[c]: the same for the read of client c, or NULL
    copy,          \* copy[c]: the answer client c keeps, or NULL
    accepted,      \* history: the evidence submissions answered with 201
    calls          \* uploads and submissions started so far

vars == <<artifact, distribution, files, blob, evidence, handler, request, copy, accepted,
          calls>>

\* A row holds the distribution ids, the SHA-256 checksum and the detached
\* signature of each format, and the revision behind its ETags.
Row(source, ids, sums) ==
    [source |-> source, distributionIDs |-> ids, checksum |-> sums,
     signature |-> [f \in Formats |-> NULL], revision |-> 1]

Optional(S) == S \cup {NULL}

\* The rows with a revision from R.
RowsOf(R) ==
    [source : Sources, distributionIDs : SUBSET Distributions,
     checksum : [Formats -> Optional(Contents)],
     signature : [Formats -> Optional(Contents)], revision : R]

ASSUME NULLAssumption == NULL \notin Contents \cup RowsOf(Nat)

\* What changes of an artifact's canonical form, part by part in the order in
\* which the parts are read: the distribution ids, then each format.
Parts == 0..NumFormats
Part(r, i) == IF i = 0 THEN r.distributionIDs ELSE r.checksum[i]
Form(r) == [i \in Parts |-> Part(r, i)]

Exists(a, v) == v \in Versions /\ artifact[a][v] # NULL

\* MAX(version) of an artifact; 0 when it has none.
LatestArtifactVersion(a) ==
    IF \A v \in Versions : artifact[a][v] = NULL THEN 0
    ELSE CHOOSE v \in Versions :
            artifact[a][v] # NULL /\ \A w \in Versions : artifact[a][w] # NULL => w <= v

Owner(a, v) == [artifact |-> a, version |-> v]
HasEvidence(a, v) == \E e \in evidence : e.owner = Owner(a, v)

-----------------------------------------------------------------------------
Init ==
    /\ artifact = [a \in Artifacts |-> [v \in Versions |-> NULL]]
    /\ distribution = Distributions
    /\ files = {}
    /\ blob = {}
    /\ evidence = {}
    /\ handler = [h \in Handlers |-> NULL]
    /\ request = [c \in Clients |-> NULL]
    /\ copy = [c \in Clients |-> NULL]
    /\ accepted = {}
    /\ calls = 0

Store(a, v, r) == artifact' = [artifact EXCEPT ![a][v] = r]

-----------------------------------------------------------------------------
(* Versions come from createArtifact, createArtifactVersion and imports.   *)

CreateArtifact(a, ids) ==
    /\ LatestArtifactVersion(a) = 0
    /\ 1 \in Versions
    /\ ids \subseteq distribution
    /\ Store(a, 1, Row("created", ids, [f \in Formats |-> NULL]))
    /\ UNCHANGED <<distribution, files, blob, evidence, handler, request, copy, accepted, calls>>

\* One more than the newest version, which the caller may name to make sure
\* that nobody else added one.
CreateArtifactVersion(a, previousVersion, ids) ==
    LET current == LatestArtifactVersion(a) IN
    /\ current # 0
    /\ previousVersion \in {NULL, current}
    /\ current + 1 \in Versions
    /\ ids \subseteq distribution
    /\ Store(a, current + 1, Row("created", ids, [f \in Formats |-> NULL]))
    /\ UNCHANGED <<distribution, files, blob, evidence, handler, request, copy, accepted, calls>>

\* A bundle brings a version of its own number and perhaps the file, which is
\* stored first.  A version that exists with the same content is left as it is.
Embedded(source, file) == IF source = "embedded" THEN {file} ELSE {}
Imported(source, ids, file) ==
    Row(source, ids, [f \in Formats |-> IF source = "external" THEN NULL ELSE file])

ImportArtifact(a, v, source, ids, file) ==
    /\ files' = files \cup Embedded(source, file)
    /\ blob' = blob \cup Embedded(source, file)
    /\ IF artifact[a][v] = NULL
       THEN ids \subseteq distribution /\ Store(a, v, Imported(source, ids, file))
       ELSE UNCHANGED artifact
    /\ UNCHANGED <<distribution, evidence, handler, request, copy, accepted, calls>>

\* An import that fails (a conflict, for one) leaves nothing in the database,
\* but the files it has put in the store stay.
ImportRolledBack(file) ==
    /\ "embedded" \in ImportSources
    /\ files' = files \cup {file}
    /\ UNCHANGED <<artifact, distribution, blob, evidence, handler, request, copy, accepted, calls>>

\* Deleting a component release takes its distributions, and those the rows
\* that name them in artifacts; no revision is touched.
Without(r, d) == [r EXCEPT !.distributionIDs = @ \ {d}]

DeleteDistribution(d) ==
    /\ d \in distribution
    /\ distribution' = distribution \ {d}
    /\ artifact' = [a \in Artifacts |-> [v \in Versions |->
                      IF artifact[a][v] = NULL THEN NULL
                      ELSE Without(artifact[a][v], d)]]
    /\ UNCHANGED <<files, blob, evidence, handler, request, copy, accepted, calls>>

-----------------------------------------------------------------------------
(* Uploads of a format's content ("checksum") or of its detached signature. *)

Idle(h) == handler[h] = NULL
At(h, op, step) == handler[h] # NULL /\ handler[h].op = op /\ handler[h].step = step
Goto(h, x) == handler' = [handler EXCEPT ![h] = x]
Done(h) == handler' = [handler EXCEPT ![h] = NULL]

\* The handler looks the version up; the publisher API also looks for
\* evidence, and only for a content upload.
UploadFile(h, api, what, a, v, f, file) ==
    /\ Idle(h)
    /\ calls < MaxCalls
    /\ calls' = calls + 1
    /\ Exists(a, v)
    /\ api = "publisher" /\ what = "checksum" => ~HasEvidence(a, v)
    /\ Goto(h, [op |-> "upload", step |-> "checked", what |-> what, artifact |-> a,
                version |-> v, format |-> f, file |-> file])
    /\ UNCHANGED <<artifact, distribution, files, blob, evidence, request, copy, accepted>>

\* Mutant: the file is left under its temporary name.
PutNotRenamed(h) ==
    /\ At(h, "upload", "checked")
    /\ Goto(h, [handler[h] EXCEPT !.step = "stored"])
    /\ UNCHANGED <<artifact, distribution, files, blob, evidence, request, copy, accepted, calls>>

\* storage.Put: renaming the temporary file is what counts.
Put(h) ==
    /\ At(h, "upload", "checked")
    /\ files' = files \cup {handler[h].file}
    /\ Goto(h, [handler[h] EXCEPT !.step = "stored"])
    /\ UNCHANGED <<artifact, distribution, blob, evidence, request, copy, accepted, calls>>

UpsertBlob(h) ==
    /\ At(h, "upload", "stored")
    /\ blob' = blob \cup {handler[h].file}
    /\ Goto(h, [handler[h] EXCEPT !.step = "booked"])
    /\ UNCHANGED <<artifact, distribution, files, evidence, request, copy, accepted, calls>>

\* Mutant: the revision is not incremented.
ReplacedChecksumOnly(r, f, file) == [r EXCEPT !.checksum[f] = file]

ReplacedChecksum(r, f, file) ==
    [r EXCEPT !.checksum[f] = file, !.revision = @ + 1]
ReplacedSignature(r, f, file) ==
    [r EXCEPT !.signature[f] = file, !.revision = @ + 1]

SetArtifactFormatFile(h) ==
    LET c == handler[h]  r == artifact[c.artifact][c.version] IN
    /\ At(h, "upload", "booked")
    /\ c.what = "checksum"
    /\ Store(c.artifact, c.version, ReplacedChecksum(r, c.format, c.file))
    /\ Done(h)
    /\ UNCHANGED <<distribution, files, blob, evidence, request, copy, accepted, calls>>

SetArtifactFormatSignatureFile(h) ==
    LET c == handler[h]  r == artifact[c.artifact][c.version] IN
    /\ At(h, "upload", "booked")
    /\ c.what = "signature"
    /\ Store(c.artifact, c.version, ReplacedSignature(r, c.format, c.file))
    /\ Done(h)
    /\ UNCHANGED <<distribution, files, blob, evidence, request, copy, accepted, calls>>

\* Anything that ends a handler before its last step.
Abandon(h) ==
    /\ ~Idle(h)
    /\ Done(h)
    /\ UNCHANGED <<artifact, distribution, files, blob, evidence, request, copy, accepted, calls>>

-----------------------------------------------------------------------------
(* Reading an artifact: getArtifactByVersionTx outside a transaction.      *)

Unread == [i \in Parts |-> NULL]

\* x.next is the next part that x reads of its version.
PartRead(x) ==
    [x EXCEPT !.form[x.next] = Part(artifact[x.artifact][x.version], x.next),
              !.next = @ + 1]

ReadPart(h) ==
    /\ At(h, "evidence", "reading")
    /\ handler[h].next \in Parts
    /\ Goto(h, PartRead(handler[h]))
    /\ UNCHANGED <<artifact, distribution, files, blob, evidence, request, copy, accepted, calls>>


-----------------------------------------------------------------------------
(* Evidence.                                                               *)

SubmitArtifactEvidence(h, a, v, fp) ==
    /\ Idle(h)
    /\ calls < MaxCalls
    /\ calls' = calls + 1
    /\ Exists(a, v)
    /\ Goto(h, [op |-> "evidence", step |-> "reading", artifact |-> a, version |-> v,
                fingerprint |-> fp, next |-> 0, form |-> Unread])
    /\ UNCHANGED <<artifact, distribution, files, blob, evidence, request, copy, accepted>>

Bundle(x) ==
    [owner |-> Owner(x.artifact, x.version), digest |-> x.form,
     fingerprint |-> x.fingerprint]

\* Mutant: a known fingerprint is enough to be taken for a retry.
IdenticalFingerprint(b) == \E e \in evidence : e.fingerprint = b.fingerprint

\* The bundle registered under the fingerprint is the one submitted again.
IdenticalEvidenceBundleByFingerprint(b) == b \in evidence

\* The digest signed is the one of the artifact as it was read (otherwise the
\* request was refused: Abandon), and the signature over it verifies.  The
\* transaction registers the fingerprint with the bundle, or replays.
CreateEvidenceBundle(h) ==
    LET b == Bundle(handler[h])
        used == \E e \in evidence : e.fingerprint = b.fingerprint IN
    /\ At(h, "evidence", "reading")
    /\ handler[h].next \notin Parts
    /\ used => IdenticalEvidenceBundleByFingerprint(b)
    /\ evidence' = IF used THEN evidence ELSE evidence \cup {b}
    /\ accepted' = accepted \cup {b}
    /\ Done(h)
    /\ UNCHANGED <<artifact, distribution, files, blob, request, copy, calls>>

-----------------------------------------------------------------------------
(* Clients read an artifact version or the latest one (version 0), or      *)
(* download a format's content or signature.  They keep the last answer    *)
(* with its ETag and offer it in If-None-Match.                            *)

Resolve(u) == IF u.version = 0 THEN LatestArtifactVersion(u.artifact) ELSE u.version

\* The parts of the ETag that vary for one URL and one principal.
ETag(a, v) == <<v, artifact[a][v].revision>>

Reading(c, step) == request[c] # NULL /\ request[c].step = step
Continue(c, x) == request' = [request EXCEPT ![c] = x]
Answered(c) == request' = [request EXCEPT ![c] = NULL]

\* LatestArtifactVersion, or the version of the URL; then GetArtifactType.
Get(c, u) ==
    /\ request[c] = NULL
    /\ Exists(u.artifact, Resolve(u))
    /\ Continue(c, [step |-> "resolved", url |-> u, artifact |-> u.artifact,
                    version |-> Resolve(u), etag |-> NULL, next |-> 0, form |-> Unread])
    /\ UNCHANGED <<artifact, distribution, files, blob, evidence, handler, copy, accepted, calls>>

\* The step before the ETag is settled: a read of the artifact settles it
\* first, a download once it has located the file.
ETagStep(u) == IF u.kind = "artifact" THEN "resolved" ELSE "located"

MatchesIfNoneMatch(c, etag) ==
    copy[c] # NULL /\ copy[c].url = request[c].url /\ copy[c].etag = etag

\* GetArtifactRevision and conditional: the client's copy is still good, or the
\* response goes on with this ETag.
NotModified(c) ==
    LET x == request[c] IN
    /\ x # NULL
    /\ x.step = ETagStep(x.url)
    /\ MatchesIfNoneMatch(c, ETag(x.artifact, x.version))
    /\ Answered(c)
    /\ UNCHANGED <<artifact, distribution, files, blob, evidence, handler, copy, accepted, calls>>

Conditional(c) ==
    LET x == request[c] IN
    /\ x # NULL
    /\ x.step = ETagStep(x.url)
    /\ ~MatchesIfNoneMatch(c, ETag(x.artifact, x.version))
    /\ Continue(c, [x EXCEPT !.etag = ETag(x.artifact, x.version), !.step = "tagged"])
    /\ UNCHANGED <<artifact, distribution, files, blob, evidence, handler, copy, accepted, calls>>

\* getLatestArtifact resolves the version again, after the ETag is settled.
GetArtifact(c) ==
    LET x == request[c] IN
    /\ Reading(c, "tagged")
    /\ x.url.kind = "artifact"
    /\ Continue(c, [x EXCEPT !.version = Resolve(x.url), !.step = "reading"])
    /\ UNCHANGED <<artifact, distribution, files, blob, evidence, handler, copy, accepted, calls>>

ReadOn(c) ==
    /\ Reading(c, "reading")
    /\ request[c].next \in Parts
    /\ Continue(c, PartRead(request[c]))
    /\ UNCHANGED <<artifact, distribution, files, blob, evidence, handler, copy, accepted, calls>>

\* The client keeps the answer in place of the one it had.
Keep(c) ==
    LET x == request[c] IN
    /\ copy' = [copy EXCEPT ![c] = [url |-> x.url, etag |-> x.etag,
                                    version |-> x.version, body |-> x.form]]
    /\ Answered(c)
    /\ UNCHANGED <<artifact, distribution, files, blob, evidence, handler, accepted, calls>>

WriteJSON(c) ==
    /\ Reading(c, "reading")
    /\ request[c].next \notin Parts
    /\ Keep(c)

\* What a download of format f finds, unless it is redirected elsewhere.
Located(kind, r, f) == IF kind = "checksum" THEN r.checksum[f] ELSE r.signature[f]

\* GetArtifactFormatForDownload, GetArtifactFormatForSignatureDownload: an
\* external URL is redirected to, and nothing published is not found; either
\* way the client keeps what it has (GiveUp).
GetArtifactFormatForDownload(c) ==
    LET x == request[c]
        r == artifact[x.artifact][x.version]
        file == Located(x.url.kind, r, x.url.format) IN
    /\ Reading(c, "resolved")
    /\ x.url.kind # "artifact"
    /\ r.source # "external"
    /\ file # NULL
    /\ Continue(c, [x EXCEPT !.form = file, !.step = "located"])
    /\ UNCHANGED <<artifact, distribution, files, blob, evidence, handler, copy, accepted, calls>>

StreamBlob(c) ==
    /\ Reading(c, "tagged")
    /\ request[c].url.kind # "artifact"
    /\ request[c].form \in files
    /\ Keep(c)

GiveUp(c) ==
    /\ request[c] # NULL
    /\ Answered(c)
    /\ UNCHANGED <<artifact, distribution, files, blob, evidence, handler, copy, accepted, calls>>

-----------------------------------------------------------------------------
NextVersion ==
    \E a \in Artifacts, ids \in SUBSET Distributions :
        \/ CreateArtifact(a, ids)
        \/ \E p \in {NULL} \cup Versions : CreateArtifactVersion(a, p, ids)
        \/ \E v \in Versions, s \in ImportSources, file \in Contents :
              ImportArtifact(a, v, s, ids, file)

NextUpload(h) ==
    \/ \E api \in Apis, what \in {"checksum", "signature"}, a \in Artifacts,
          v \in Versions, f \in Formats, file \in Contents :
              UploadFile(h, api, what, a, v, f, file)
    \/ Put(h) \/ UpsertBlob(h)
    \/ SetArtifactFormatFile(h) \/ SetArtifactFormatSignatureFile(h)

NextEvidence(h) ==
    \/ \E a \in Artifacts, v \in Versions, fp \in Fingerprints :
          SubmitArtifactEvidence(h, a, v, fp)
    \/ ReadPart(h) \/ CreateEvidenceBundle(h)

NextRead(c) ==
    \/ \E u \in Reads : Get(c, u)
    \/ NotModified(c) \/ Conditional(c)
    \/ GetArtifact(c) \/ ReadOn(c) \/ WriteJSON(c)
    \/ GetArtifactFormatForDownload(c) \/ StreamBlob(c)
    \/ GiveUp(c)

Next ==
    \/ NextVersion
    \/ \E file \in Contents : ImportRolledBack(file)
    \/ \E d \in Distributions : DeleteDistribution(d)
    \/ \E h \in Handlers : NextUpload(h) \/ NextEvidence(h) \/ Abandon(h)
    \/ \E c \in Clients : NextRead(c)

Spec == Init /\ [][Next]_vars

-----------------------------------------------------------------------------
(* Properties.                                                             *)

Rows == RowsOf(1..MaxCalls + 1)
Owners == [artifact : Artifacts, version : Versions]
Forms == [Parts -> (SUBSET Distributions) \cup Optional(Contents)]
Bundles == [owner : Owners, digest : Forms, fingerprint : Fingerprints]
ETags == Versions \X (1..MaxCalls + 1)
Calls ==
    [op : {"upload"}, step : {"checked", "stored", "booked"},
     what : {"checksum", "signature"}, artifact : Artifacts, version : Versions,
     format : Formats, file : Contents]
    \cup [op : {"evidence"}, step : {"reading"}, artifact : Artifacts,
          version : Versions, fingerprint : Fingerprints,
          next : 0..NumFormats + 1, form : Forms]
Requests ==
    [step : {"resolved", "located", "tagged", "reading"}, url : Reads,
     artifact : Artifacts, version : Versions, etag : Optional(ETags),
     next : 0..NumFormats + 1, form : Forms \cup Contents]
Copies == [url : Reads, etag : ETags, version : Versions, body : Forms \cup Contents]

\* Rows, files, bundles, requests and cached answers are of their types; the
\* revision of a stored version starts at 1 (0004_etags.sql).
TypeOK ==
    /\ artifact \in [Artifacts -> [Versions -> Optional(Rows)]]
    /\ distribution \subseteq Distributions
    /\ files \subseteq Contents
    /\ blob \subseteq Contents
    /\ evidence \subseteq Bundles
    /\ accepted \subseteq Bundles
    /\ handler \in [Handlers -> Optional(Calls)]
    /\ request \in [Clients -> Optional(Requests)]
    /\ copy \in [Clients -> Optional(Copies)]
    /\ calls \in 0..MaxCalls

\* The files of format f that row r promises: its signature, and its content
\* unless the row was imported with a mere reference to it.
Promised(r, f) ==
    ({r.signature[f]} \cup IF r.source = "referenced" THEN {} ELSE {r.checksum[f]}) \ {NULL}

\* Whatever content and signatures were uploaded, or came with a bundle, can be
\* served: wherever an upload or an import is cut short, the file of each that a
\* row names is in the blob store and in the blob table (receiveUploadedFile
\* before SetArtifactFormatFile, importBlobs first).
UploadedIsStored ==
    \A a \in Artifacts, v \in Versions : artifact[a][v] # NULL =>
        \A f \in Formats : Promised(artifact[a][v], f) \subseteq files \cap blob

\* A client that would be told 304 for an artifact has its current formats:
\* the copy is of the version the URL stands for now, with the checksums it has
\* now, although the answer was put together from separate reads (artifact.go,
\* getLatestArtifact and getArtifactByVersion).
MatchingValidatorIsCurrent ==
    \A c \in Clients :
        LET k == copy[c]  u == k.url  v == Resolve(u) IN
        k # NULL /\ u.kind = "artifact" /\ k.etag = ETag(u.artifact, v) =>
            /\ k.version = v
            /\ \A f \in Formats : k.body[f] = artifact[u.artifact][v].checksum[f]

\* A submission is answered with 201 only if its very bundle is stored, and one
\* certificate never vouches for two of them: a retry is replayed and nothing
\* else is (CreateEvidenceBundle).
AcceptedOncePerFingerprint ==
    /\ accepted = evidence
    /\ \A e1, e2 \in accepted : e1.fingerprint = e2.fingerprint => e1 = e2
=============================================================================
