-------------------------- MODULE CollectionDraft --------------------------
(***************************************************************************)
(* The collection-draft workflow of opentea: a release's next collection   *)
(* is assembled in a draft, approved by a second person, locked while it   *)
(* is signed, and published together with the evidence that attests to it. *)
(*                                                                         *)
(* The state is the database (internal/repo) plus what HTTP handlers and   *)
(* their callers remember between two database accesses.  internal/db      *)
(* opens one connection, so a transaction is one step; a handler that      *)
(* issues several queries outside a transaction takes several steps, and   *)
(* anything may happen between them.                                       *)
(***************************************************************************)
EXTENDS Integers, Sequences, FiniteSetsExt

CONSTANTS
    Owners,         \* releases, each the owner of at most one draft
    Refs,           \* artifact versions a collection can reference
    DraftInputs,    \* bodies of a put or create: [artifacts, reason]
    Actors,         \* actor names a caller asserts
    Creds,          \* publisher credentials a caller authenticates with
    Signers,        \* callers that run prepare, sign, commit
    Fingerprints,   \* certificates a signer can sign with
    Editors,        \* callers that read a draft and put it back changed
    DirectOwners,   \* owners the admin and import paths also publish for
    NoOne,          \* a NULL actor or credential
    LockTTL, ApprovalTTL, DraftTTL,
    MaxTime, MaxRevision, MaxContent, MaxVersion   \* bounds of the model

\* An update reason is either NULL or one of the types the collection table's
\* CHECK lists, or it is one the CHECK refuses.
Reasons == {"listed", "unlisted"}

ASSUME NoOneAssumption ==
    NoOne \notin Actors \cup Creds \cup Owners \cup Fingerprints
ASSUME NoProposalAssumption ==
    /\ NoOne \notin (Actors \cup {NoOne}) \X (Creds \cup {NoOne})
    /\ NoOne \notin [content : Seq(Refs) \X Reasons,
                     maker : (Actors \cup {NoOne}) \X (Creds \cup {NoOne}),
                     checker : {NoOne} \cup
                         (Actors \cup {NoOne}) \X (Creds \cup {NoOne})]
ASSUME TTLAssumption ==
    LockTTL \in Nat \ {0} /\ ApprovalTTL \in Nat \ {0} /\ DraftTTL \in Nat
ASSUME InputsAssumption ==
    \A in \in DraftInputs : in \in [artifacts : Seq(Refs), reason : Reasons]
ASSUME DirectAssumption == DirectOwners \subseteq Owners
ASSUME BoundsAssumption ==
    {MaxTime, MaxRevision, MaxContent, MaxVersion} \subseteq Nat

VARIABLES
    releases,       \* releases[o]: "absent", "present" or "deleted"
    content,        \* content[r]: 0 if r was never created, else the number
                    \*   of states its canonical form has been in
    drafts,         \* drafts[o]: the collection_draft row, or NoDraft
    collections,    \* the collection and collection_artifact rows
    evidence,       \* the evidence_bundle rows of collections
    signer,         \* signer[s]: what s holds, and how far its commit is
    editor,         \* editor[e]: what e has read of a draft
    cancelling,     \* owners a cancelPrepare passed its check for
    creating,       \* owners an admin create passed its check for
    now             \* the clock, in seconds

dbVars == <<releases, content, drafts, collections, evidence>>
callerVars == <<signer, editor, cancelling, creating>>
vars == <<dbVars, callerVars, now>>

-----------------------------------------------------------------------------
(* A draft row.  Revision 0 stands for "no row", time 0 for a NULL time.   *)

Draft == [revision : Nat, draftedBy : Actors \cup {NoOne},
          credential : Creds \cup {NoOne}, artifacts : Seq(Refs),
          reason : Reasons, expiresAt : Nat, lockExpiresAt : Nat,
          lockDate : Nat, status : {"none", "approved", "rejected"},
          decidedBy : Actors \cup {NoOne}, decidedCred : Creds \cup {NoOne},
          decidedAtRevision : Nat, approvalExpiresAt : Nat]

NoDraft == [revision |-> 0, draftedBy |-> NoOne, credential |-> NoOne,
            artifacts |-> <<>>, reason |-> "listed", expiresAt |-> 0,
            lockExpiresAt |-> 0, lockDate |-> 0, status |-> "none",
            decidedBy |-> NoOne, decidedCred |-> NoOne,
            decidedAtRevision |-> 0, approvalExpiresAt |-> 0]

lockHeld(d) == d.lockExpiresAt > now

ApprovalCurrent(d) ==
    /\ d.status = "approved"
    /\ d.decidedAtRevision = d.revision
    /\ d.approvalExpiresAt > now

-----------------------------------------------------------------------------
(* Collections.  A row holds references; reading it resolves every         *)
(* reference to the artifact's current content.                            *)

CollectionRow == [owner : Owners, version : Nat, date : Nat,
                  artifacts : Seq(Refs), reason : Reasons,
                  origin : {"initial", "admin", "import", "commit"}]

\* tea.Collection, and with it the digest: SHA-256 over the canonical form
\* is taken to be injective, so the digest is the collection it was taken of.
Collection == [owner : Owners, version : Nat, date : Nat,
               artifacts : Seq(Refs \X Nat), reason : Reasons]

Resolve(refs) == [i \in 1..Len(refs) |-> <<refs[i], content[refs[i]]>>]

Representation(c) ==
    [owner |-> c.owner, version |-> c.version, date |-> c.date,
     artifacts |-> Resolve(c.artifacts), reason |-> c.reason]

Versions(o) == {c.version : c \in {d \in collections : d.owner = o}}

\* Mutant: counts the versions instead of taking the largest.
NextVersionByCount(o) == Cardinality(Versions(o)) + 1

NextVersion(o) == Max({0} \cup Versions(o)) + 1

Exist(refs) == \A i \in 1..Len(refs) : content[refs[i]] > 0

\* The constraints of the collection and collection_artifact tables: the
\* CHECK on the reason, one row per reference, an existing artifact.
Insertable(in) ==
    /\ in.reason = "listed"
    /\ \A i, j \in 1..Len(in.artifacts) :
            in.artifacts[i] = in.artifacts[j] => i = j
    /\ Exist(in.artifacts)

createCollection(o, in, date, origin) ==
    /\ Insertable(in)
    /\ NextVersion(o) <= MaxVersion
    /\ collections' = collections \cup
          {[owner |-> o, version |-> NextVersion(o), date |-> date,
            artifacts |-> in.artifacts, reason |-> in.reason,
            origin |-> origin]}

\* The collection o's draft would become if committed now, dated date.
buildWouldBeCollectionTx(o, date) ==
    [owner |-> o, version |-> NextVersion(o), date |-> date,
     artifacts |-> Resolve(drafts[o].artifacts), reason |-> drafts[o].reason]

-----------------------------------------------------------------------------
(* Evidence.  A fingerprint is registered once; presenting it again is     *)
(* accepted only for the very bundle it is registered for.                 *)

EvidenceRow == [owner : Owners, version : Nat, digest : Collection,
                fingerprint : Fingerprints]

\* Mutant: does not look whether the fingerprint is registered.
CreateEvidenceBundleUnregistered(e) == evidence' = evidence \cup {e}

\* Mutant: takes every reuse of a fingerprint for a retry.
CreateEvidenceBundleAnyRetry(e) ==
    evidence' = IF \E x \in evidence : x.fingerprint = e.fingerprint
                THEN evidence ELSE evidence \cup {e}

CreateEvidenceBundle(e) ==
    /\ \E c \in collections' : c.owner = e.owner /\ c.version = e.version
    /\ \A x \in evidence : x.fingerprint = e.fingerprint => x = e
    /\ evidence' = evidence \cup {e}

-----------------------------------------------------------------------------
(* What callers hold.                                                      *)

\* "signing": holds a prepare response; "row", "verified": its commit
\* handler has read the draft row, has verified digest and signature;
\* "published", "refused": the commit handler has answered; "attesting": the
\* admin API has verified the evidence it submits for an existing collection.
SignerPhase ==
    {"signing", "row", "verified", "published", "refused", "attesting"}

IdleSigner == [phase |-> "idle", digest |-> NoOne, fingerprint |-> NoOne]

Signer == {IdleSigner} \cup
    [phase : SignerPhase, digest : Collection, fingerprint : Fingerprints]

IdleEditor == [phase |-> "idle", owner |-> NoOne, revision |-> 0,
               artifacts |-> <<>>]

Editor == {IdleEditor} \cup
    [phase : {"row", "read"}, owner : Owners, revision : Nat,
     artifacts : Seq(Refs)]

TypeOK ==
    /\ releases \in [Owners -> {"absent", "present", "deleted"}]
    /\ content \in [Refs -> Nat]
    /\ drafts \in [Owners -> Draft]
    /\ collections \subseteq CollectionRow
    /\ evidence \subseteq EvidenceRow
    /\ signer \in [Signers -> Signer]
    /\ editor \in [Editors -> Editor]
    /\ cancelling \subseteq Owners
    /\ creating \subseteq Owners
    /\ now \in Nat \ {0}

Init ==
    /\ releases = [o \in Owners |-> "absent"]
    /\ content = [r \in Refs |-> 0]
    /\ drafts = [o \in Owners |-> NoDraft]
    /\ collections = {}
    /\ evidence = {}
    /\ signer = [s \in Signers |-> IdleSigner]
    /\ editor = [e \in Editors |-> IdleEditor]
    /\ cancelling = {}
    /\ creating = {}
    /\ now = 1

-----------------------------------------------------------------------------
(* The catalogue around the workflow.                                      *)

\* A new release has a fresh uuid and is created with collection version 1.
CreateRelease(o) ==
    /\ releases[o] = "absent"
    /\ Versions(o) = {}
    /\ releases' = [releases EXCEPT ![o] = "present"]
    /\ createCollection(o, [artifacts |-> <<>>, reason |-> "listed"],
                        now, "initial")
    /\ UNCHANGED <<content, drafts, evidence, callerVars, now>>

\* A bundle import brings a release in under its own uuid, new or deleted
\* before, without an initial collection.
ImportRelease(o) ==
    /\ o \in DirectOwners
    /\ releases[o] # "present"
    /\ releases' = [releases EXCEPT ![o] = "present"]
    /\ UNCHANGED <<content, drafts, collections, evidence, callerVars, now>>

\* No foreign key leads from collections or drafts to a release.
DeleteRelease(o) ==
    /\ releases[o] = "present"
    /\ releases' = [releases EXCEPT ![o] = "deleted"]
    /\ UNCHANGED <<content, drafts, collections, evidence, callerVars, now>>

CreateArtifact(r) ==
    /\ content[r] = 0
    /\ content' = [content EXCEPT ![r] = 1]
    /\ UNCHANGED <<releases, drafts, collections, evidence, callerVars, now>>

\* Replaces the checksum, so the artifact's canonical form changes.
SetArtifactFormatFile(r) ==
    /\ content[r] \in 1..(MaxContent - 1)
    /\ content' = [content EXCEPT ![r] = @ + 1]
    /\ UNCHANGED <<releases, drafts, collections, evidence, callerVars, now>>

\* The admin API: the release is looked up before the transaction begins.
AdminCollectionCheck(o) ==
    /\ o \in DirectOwners
    /\ releases[o] = "present"
    /\ creating' = creating \cup {o}
    /\ UNCHANGED <<dbVars, signer, editor, cancelling, now>>

AdminCreateCollection(o, in) ==
    /\ o \in creating
    /\ creating' = creating \ {o}
    /\ \/ createCollection(o, in, now, "admin")
       \/ ~ Insertable(in) /\ UNCHANGED collections
    /\ UNCHANGED <<releases, content, drafts, evidence, signer, editor,
                   cancelling, now>>

\* A bundle names the version and the date itself (here the first instant);
\* no release of that uuid need exist.  A version that exists is left alone
\* or reported as a conflict.
ImportCollection(o, v, in) ==
    /\ o \in DirectOwners
    /\ v \notin Versions(o)
    /\ Insertable(in)
    /\ collections' = collections \cup
          {[owner |-> o, version |-> v, date |-> 1,
            artifacts |-> in.artifacts, reason |-> in.reason,
            origin |-> "import"]}
    /\ UNCHANGED <<releases, content, drafts, evidence, callerVars, now>>

-----------------------------------------------------------------------------
(* Assembling and reviewing a draft.                                       *)

\* Mutant: the locked draft can be replaced and decided upon.
NeverLocked(o) == FALSE

ErrDraftLocked(o) == lockHeld(drafts[o])

\* Mutant: an edit keeps the decision on the previous revision.
UpsertKeepingDecision(o, actor, cred, in) ==
    [drafts[o] EXCEPT !.revision = @ + 1,
                      !.draftedBy = actor, !.credential = cred,
                      !.artifacts = in.artifacts, !.reason = in.reason,
                      !.expiresAt = now + DraftTTL]

\* The row after a put: a decision and a lock on record are wiped.
Upsert(o, actor, cred, in) ==
    [NoDraft EXCEPT !.revision = drafts[o].revision + 1,
                    !.draftedBy = actor, !.credential = cred,
                    !.artifacts = in.artifacts, !.reason = in.reason,
                    !.expiresAt = now + DraftTTL]

\* expected is the caller's expectedRevision, or -1.
PutCollectionDraft(o, actor, cred, in, expected) ==
    /\ releases[o] = "present"
    /\ Exist(in.artifacts)
    /\ ~ ErrDraftLocked(o)
    /\ expected # -1 => expected = drafts[o].revision
    /\ drafts[o].revision < MaxRevision
    /\ drafts' = [drafts EXCEPT ![o] = Upsert(o, actor, cred, in)]

BlindPut(o, actor, cred, in) ==
    /\ PutCollectionDraft(o, actor, cred, in, -1)
    /\ UNCHANGED <<releases, content, collections, evidence, callerVars, now>>

\* getCollectionDraft reads the row and then the references; an absent draft
\* is revision 0 with no artifacts to the editing form.
GetDraftRow(e, o) ==
    /\ editor[e].phase = "idle"
    /\ editor' = [editor EXCEPT ![e] =
          [phase |-> IF drafts[o].revision = 0 THEN "read" ELSE "row",
           owner |-> o, revision |-> drafts[o].revision,
           artifacts |-> <<>>]]
    /\ UNCHANGED <<dbVars, signer, cancelling, creating, now>>

GetDraftArtifacts(e) ==
    /\ editor[e].phase = "row"
    /\ editor' = [editor EXCEPT
          ![e].phase = "read",
          ![e].artifacts = drafts[editor[e].owner].artifacts]
    /\ UNCHANGED <<dbVars, signer, cancelling, creating, now>>

EditorPut(e, actor, cred, in) ==
    /\ editor[e].phase = "read"
    /\ PutCollectionDraft(editor[e].owner, actor, cred, in,
                          editor[e].revision)
    /\ editor' = [editor EXCEPT ![e] = IdleEditor]
    /\ UNCHANGED <<releases, content, collections, evidence, signer,
                   cancelling, creating, now>>

\* The put was refused (409, 404), or the user left the form.
EditorGivesUp(e) ==
    /\ editor[e].phase # "idle"
    /\ editor' = [editor EXCEPT ![e] = IdleEditor]
    /\ UNCHANGED <<dbVars, signer, cancelling, creating, now>>

\* Mutant: the row stays.
KeepDraft(o) == UNCHANGED drafts

DropDraft(o) == drafts' = [drafts EXCEPT ![o] = NoDraft]

DeleteCollectionDraft(o) ==
    /\ drafts[o].revision > 0
    /\ DropDraft(o)
    /\ UNCHANGED <<releases, content, collections, evidence, callerVars, now>>

ErrSelfApproval(d, actor, cred) == actor = d.draftedBy \/ cred = d.credential

DecideCollectionDraft(o, actor, cred, approve) ==
    /\ drafts[o].revision > 0
    /\ ~ ErrDraftLocked(o)
    /\ ~ ErrSelfApproval(drafts[o], actor, cred)
    /\ drafts' = [drafts EXCEPT
          ![o].status = IF approve THEN "approved" ELSE "rejected",
          ![o].decidedBy = actor,
          ![o].decidedCred = cred,
          ![o].decidedAtRevision = drafts[o].revision,
          ![o].approvalExpiresAt = IF approve THEN now + ApprovalTTL ELSE 0]
    /\ UNCHANGED <<releases, content, collections, evidence, callerVars, now>>

-----------------------------------------------------------------------------
(* Signing and publishing a draft.                                         *)

\* A second prepare is accepted while the first one's lock is still held.
PrepareCollectionCommit(s, o, f) ==
    /\ signer[s].phase = "idle"
    /\ drafts[o].revision > 0
    /\ ApprovalCurrent(drafts[o])
    /\ drafts' = [drafts EXCEPT ![o].lockExpiresAt = now + LockTTL,
                                ![o].lockDate = now]
    /\ signer' = [signer EXCEPT ![s] =
          [phase |-> "signing", digest |-> buildWouldBeCollectionTx(o, now),
           fingerprint |-> f]]
    /\ UNCHANGED <<releases, content, collections, evidence, editor,
                   cancelling, creating, now>>

\* The check and the update of a cancel are two database accesses.
CancelPrepareCheck(o) ==
    /\ drafts[o].revision > 0
    /\ lockHeld(drafts[o])
    /\ cancelling' = cancelling \cup {o}
    /\ UNCHANGED <<dbVars, signer, editor, creating, now>>

\* Mutant: the lock date is cleared and the lock is not.
CancelPrepareKeepsLock(o) ==
    /\ o \in cancelling
    /\ cancelling' = cancelling \ {o}
    /\ drafts' = [drafts EXCEPT ![o].lockDate = 0]
    /\ UNCHANGED <<releases, content, collections, evidence, signer, editor,
                   creating, now>>

CancelPrepareUpdate(o) ==
    /\ o \in cancelling
    /\ cancelling' = cancelling \ {o}
    /\ drafts' = [drafts EXCEPT ![o].lockExpiresAt = 0, ![o].lockDate = 0]
    /\ UNCHANGED <<releases, content, collections, evidence, signer, editor,
                   creating, now>>

\* The commit handler peeks outside a transaction: first the draft row ...
PeekRow(s) ==
    LET d == drafts[signer[s].digest.owner]
        agrees == /\ d.revision > 0
                  /\ lockHeld(d)
                  /\ ApprovalCurrent(d)
                  /\ d.lockDate = signer[s].digest.date
                  /\ d.reason = signer[s].digest.reason
    IN  /\ signer[s].phase = "signing"
        /\ signer' = [signer EXCEPT
              ![s].phase = IF agrees THEN "row" ELSE "refused"]
        /\ UNCHANGED <<dbVars, editor, cancelling, creating, now>>

\* ... then the references, the artifacts and the next version.  The digest
\* submitted must be the digest of what was read; the signature over it is
\* the signer's own and verifies.
PeekArtifacts(s) ==
    LET g == signer[s].digest
        agrees == /\ Resolve(drafts[g.owner].artifacts) = g.artifacts
                  /\ NextVersion(g.owner) = g.version
    IN  /\ signer[s].phase = "row"
        /\ signer' = [signer EXCEPT
              ![s].phase = IF agrees THEN "verified" ELSE "refused"]
        /\ UNCHANGED <<dbVars, editor, cancelling, creating, now>>

\* The transaction of a commit: it derives the collection afresh, publishes
\* it, stores the evidence verified before it began, and deletes the draft.
CommitCollectionDraft(s) ==
    LET g == signer[s].digest
        d == drafts[g.owner]
        wouldBe == buildWouldBeCollectionTx(g.owner, d.lockDate)
    IN  /\ d.revision > 0
        /\ lockHeld(d)
        /\ ApprovalCurrent(d)
        /\ releases[g.owner] = "present"
        /\ createCollection(g.owner,
              [artifacts |-> d.artifacts, reason |-> d.reason],
              wouldBe.date, "commit")
        /\ CreateEvidenceBundle(
              [owner |-> g.owner, version |-> wouldBe.version,
               digest |-> g, fingerprint |-> signer[s].fingerprint])
        /\ DropDraft(g.owner)

CommitSucceeds(s) ==
    /\ signer[s].phase = "verified"
    /\ CommitCollectionDraft(s)
    /\ signer' = [signer EXCEPT ![s].phase = "published"]
    /\ UNCHANGED <<releases, content, editor, cancelling, creating, now>>

\* The draft, its lock or its approval is gone, the release is, a constraint
\* refuses the rows, or the fingerprint is taken: all is rolled back.
CommitFails(s) ==
    LET g == signer[s].digest
        d == drafts[g.owner]
    IN  /\ signer[s].phase = "verified"
        /\ \/ d.revision = 0
           \/ ~ lockHeld(d)
           \/ ~ ApprovalCurrent(d)
           \/ releases[g.owner] # "present"
           \/ ~ Insertable([artifacts |-> d.artifacts, reason |-> d.reason])
           \/ \E x \in evidence : x.fingerprint = signer[s].fingerprint
        /\ signer' = [signer EXCEPT ![s].phase = "refused"]
        /\ UNCHANGED <<dbVars, editor, cancelling, creating, now>>

\* Mutant: sends a commit without holding a prepare response.
RetryUnprepared(s) ==
    /\ signer' = [signer EXCEPT ![s].phase = "signing"]
    /\ UNCHANGED <<dbVars, editor, cancelling, creating, now>>

\* An answer that was lost, or an error: the signer sends the same again.
RetryCommit(s) ==
    /\ signer[s].phase \in {"published", "refused"}
    /\ signer' = [signer EXCEPT ![s].phase = "signing"]
    /\ UNCHANGED <<dbVars, editor, cancelling, creating, now>>

\* The admin API takes evidence for any collection version there is, under
\* any certificate.  Digest and signature are verified against the collection
\* as it reads now, before the transaction ...
AttestCollection(s, c, f) ==
    /\ signer[s].phase = "idle"
    /\ signer' = [signer EXCEPT ![s] =
          [phase |-> "attesting", digest |-> Representation(c),
           fingerprint |-> f]]
    /\ UNCHANGED <<dbVars, editor, cancelling, creating, now>>

\* ... which stores the bundle unless the fingerprint is taken; a refused or
\* failed submission is SignerLeaves.
SubmitEvidence(s) ==
    LET g == signer[s].digest
    IN  /\ signer[s].phase = "attesting"
        /\ UNCHANGED <<releases, content, drafts, collections>>
        /\ CreateEvidenceBundle(
              [owner |-> g.owner, version |-> g.version, digest |-> g,
               fingerprint |-> signer[s].fingerprint])
        /\ signer' = [signer EXCEPT ![s] = IdleSigner]
        /\ UNCHANGED <<editor, cancelling, creating, now>>

\* The signer is done or gives up, or its connection or the server dies.
SignerLeaves(s) ==
    /\ signer[s].phase # "idle"
    /\ signer' = [signer EXCEPT ![s] = IdleSigner]
    /\ UNCHANGED <<dbVars, editor, cancelling, creating, now>>

Tick ==
    /\ now < MaxTime
    /\ now' = now + 1
    /\ UNCHANGED <<dbVars, callerVars>>

-----------------------------------------------------------------------------

Catalogue ==
    \/ \E o \in Owners : \/ CreateRelease(o)
                         \/ ImportRelease(o)
                         \/ DeleteRelease(o)
                         \/ AdminCollectionCheck(o)
    \/ \E o \in Owners, in \in DraftInputs :
          \/ AdminCreateCollection(o, in)
          \/ \E v \in 1..MaxVersion : ImportCollection(o, v, in)
    \/ \E r \in Refs : CreateArtifact(r) \/ SetArtifactFormatFile(r)

Editing ==
    \/ \E o \in Owners, a \in Actors, k \in Creds, in \in DraftInputs :
          BlindPut(o, a, k, in)
    \/ \E e \in Editors :
          \/ \E o \in Owners : GetDraftRow(e, o)
          \/ GetDraftArtifacts(e)
          \/ \E a \in Actors, k \in Creds, in \in DraftInputs :
                EditorPut(e, a, k, in)
          \/ EditorGivesUp(e)
    \/ \E o \in Owners : DeleteCollectionDraft(o)
    \/ \E o \in Owners, a \in Actors, k \in Creds, approve \in BOOLEAN :
          DecideCollectionDraft(o, a, k, approve)

Publishing ==
    \/ \E s \in Signers :
          \/ \E o \in Owners, f \in Fingerprints :
                PrepareCollectionCommit(s, o, f)
          \/ PeekRow(s)
          \/ PeekArtifacts(s)
          \/ CommitSucceeds(s)
          \/ CommitFails(s)
          \/ RetryCommit(s)
          \/ \E c \in collections, f \in Fingerprints :
                AttestCollection(s, c, f)
          \/ SubmitEvidence(s)
          \/ SignerLeaves(s)
    \/ \E o \in Owners : CancelPrepareCheck(o) \/ CancelPrepareUpdate(o)

Next == Catalogue \/ Editing \/ Publishing \/ Tick

Spec == Init /\ [][Next]_vars

-----------------------------------------------------------------------------
(* What the workflow guarantees.                                           *)

\* A decision on record was taken on the draft's current revision by a party
\* that shares neither the actor name nor the credential with the drafter
\* (DecideCollectionDraft), and every put wipes it (PutCollectionDraft).
FourEyes ==
    \A o \in Owners :
        LET d == drafts[o] IN
        d.status # "none" =>
            /\ d.revision > 0
            /\ d.decidedAtRevision = d.revision
            /\ d.decidedBy # d.draftedBy
            /\ d.decidedCred # d.credential

\* A held lock stands on an approval of the revision it locks and on the date
\* prepareCommit fixed, so the "lock held without a recorded lock date" error
\* of buildWouldBeCollectionTx cannot occur.  However often prepareCommit is
\* repeated, the lock outlives the approval by less than one lock period:
\* nobody can keep a draft locked for ever.
LockStandsOnApproval ==
    \A o \in Owners :
        LET d == drafts[o] IN
        lockHeld(d) =>
            /\ d.status = "approved"
            /\ d.decidedAtRevision = d.revision
            /\ d.lockDate \in 1..now
            /\ d.lockExpiresAt = d.lockDate + LockTTL
            /\ d.lockDate < d.approvalExpiresAt

\* CommitCollectionDraft publishes all or nothing: every collection it
\* published has its evidence, and no bundle is left over from a commit that
\* was rolled back, although a retried commit may find its fingerprint
\* registered and the admin API adds bundles of its own.
CommitAllOrNothing ==
    /\ \A c \in collections : c.origin = "commit" =>
          \E e \in evidence : e.owner = c.owner /\ e.version = c.version
    /\ \A e \in evidence : \E c \in collections :
          c.owner = e.owner /\ c.version = e.version

\* An ephemeral signing key attests to one collection only, however the
\* commits that present its certificate interleave (CreateEvidenceBundle).
FingerprintUsedOnce ==
    \A e, f \in evidence : e.fingerprint = f.fingerprint => e = f

Unlocked(d) == [d EXCEPT !.lockExpiresAt = 0, !.lockDate = 0]

\* While prepareCommit's lock is held, what was approved cannot change: the
\* draft keeps its content, its revision and its decision, or it goes away
\* (deleted, or published).
LockFreezesDraft ==
    [][\A o \in Owners : lockHeld(drafts[o]) =>
          \/ drafts'[o] = NoDraft
          \/ Unlocked(drafts'[o]) = Unlocked(drafts[o])]_vars

\* A published version is never replaced: a collection goes at most with its
\* release, and a version that the server numbers itself is newer than every
\* version of that release, whatever gaps imports have left
\* (createCollection's MAX(version) + 1).
PublishedStays ==
    [][/\ \A c \in collections \ collections' :
             releases[c.owner] = "present" /\ releases'[c.owner] # "present"
       /\ \A c \in collections' \ collections : c.origin # "import" =>
             \A d \in collections : d.owner = c.owner => d.version < c.version]_vars

\* Deleting a release takes its collections along, as DeleteProductRelease
\* and DeleteComponentRelease say of themselves.
CollectionsGoWithRelease ==
    [][\A o \in Owners :
          releases[o] = "present" /\ releases'[o] = "deleted" =>
              \A c \in collections' : c.owner # o]_vars

\* What a commit stores as evidence attests to what it publishes: the digest
\* the signer signed is the digest of the new collection as the consumer API
\* serves it.
SignedIsPublished ==
    [][\A e \in evidence' \ evidence : \A c \in collections' \ collections :
          e.digest = Representation(c)]_vars

(* The refinement mapping to MakerChecker.                                 *)

Party(actor, cred) == <<actor, cred>>

\* The proposal a draft row stands for.
Proposal(d) ==
    IF d.revision = 0 THEN NoOne
    ELSE [content |-> <<d.artifacts, d.reason>>,
          maker |-> Party(d.draftedBy, d.credential),
          checker |-> IF d.status = "approved"
                      THEN Party(d.decidedBy, d.decidedCred) ELSE NoOne]

proposal == [o \in Owners |-> Proposal(drafts[o])]

published ==
    {[owner |-> c.owner, version |-> c.version,
      content |-> <<c.artifacts, c.reason>>] :
        c \in {d \in collections : d.origin = "commit"}}

Abstract == INSTANCE MakerChecker WITH
    Contents <- {<<in.artifacts, in.reason>> : in \in DraftInputs},
    Parties <- Actors \X Creds,
    Nothing <- NoOne

\* The workflow implements MakerChecker: locks, clocks, approvals that expire,
\* retries and the two-step commit add nothing to what can be published.
MakerCheckerSpec == Abstract!Spec
=============================================================================
