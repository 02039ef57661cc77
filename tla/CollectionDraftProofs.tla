----------------------- MODULE CollectionDraftProofs -----------------------
(***************************************************************************)
(* Proofs about CollectionDraft, for any owners, callers, inputs, time     *)
(* limits and bounds.                                                      *)
(***************************************************************************)
EXTENDS CollectionDraft, SequenceTheorems, TLAPS

\* Every release has a newest version.  This is what makes MAX(version)
\* meaningful: without it, Max is an arbitrary value.
Topped ==
    \A o \in Owners : \E m \in {0} \cup Versions(o) :
        \A v \in {0} \cup Versions(o) : m >= v

TypeInv == TypeOK /\ Topped

LEMMA MaxIsLargest ==
    ASSUME NEW S \in SUBSET Nat, \E m \in S : \A v \in S : m >= v
    PROVE  Max(S) \in S /\ \A v \in S : Max(S) >= v
  BY DEF Max

LEMMA VersionsAreNat ==
    ASSUME TypeOK, NEW o \in Owners
    PROVE  Versions(o) \in SUBSET Nat
  BY DEF TypeOK, Versions, CollectionRow

LEMMA NextVersionIsNewest ==
    ASSUME TypeInv, NEW o \in Owners
    PROVE  /\ NextVersion(o) \in Nat \ {0}
           /\ \A v \in Versions(o) : v < NextVersion(o)
<1> DEFINE S == {0} \cup Versions(o)
<1>1. S \in SUBSET Nat
  BY VersionsAreNat DEF TypeInv
<1>2. \E m \in S : \A v \in S : m >= v
  BY DEF TypeInv, Topped
<1>3. Max(S) \in S /\ \A v \in S : Max(S) >= v
  BY <1>1, <1>2, MaxIsLargest
<1> QED
  BY <1>1, <1>3 DEF NextVersion

\* Adding a row keeps Topped: the new top is the old one or the new version.
LEMMA AddingRowKeepsTopped ==
    ASSUME TypeInv, NEW c \in CollectionRow,
           collections' = collections \cup {c}
    PROVE  Topped'
<1> SUFFICES ASSUME NEW o \in Owners
             PROVE  \E m \in {0} \cup Versions(o)' :
                        \A v \in {0} \cup Versions(o)' : m >= v
  BY DEF Topped
<1>1. PICK m \in {0} \cup Versions(o) : \A v \in {0} \cup Versions(o) : m >= v
  BY DEF TypeInv, Topped
<1>2. Versions(o) \in SUBSET Nat /\ m \in Nat
  BY <1>1, VersionsAreNat DEF TypeInv
<1>3. c.version \in Nat
  BY DEF CollectionRow
<1>4. CASE c.owner = o
  <2>1. Versions(o)' = Versions(o) \cup {c.version}
    BY <1>4 DEF Versions
  <2>2. CASE c.version >= m
    BY <1>1, <1>2, <1>3, <2>1, <2>2
  <2>3. CASE ~ (c.version >= m)
    BY <1>1, <1>2, <1>3, <2>1, <2>3
  <2> QED
    BY <2>2, <2>3
<1>5. CASE c.owner # o
  <2>1. Versions(o)' = Versions(o)
    BY <1>5 DEF Versions
  <2> QED
    BY <1>1, <2>1
<1> QED
  BY <1>4, <1>5

-----------------------------------------------------------------------------
(* Type correctness.                                                       *)

Input == [artifacts : Seq(Refs), reason : Reasons]

LEMMA CreateCollectionType ==
    ASSUME TypeInv, NEW o \in Owners, NEW in \in Input, NEW date \in Nat,
           NEW origin \in {"initial", "admin", "import", "commit"},
           createCollection(o, in, date, origin)
    PROVE  collections' \subseteq CollectionRow /\ Topped'
<1> DEFINE c == [owner |-> o, version |-> NextVersion(o), date |-> date,
                 artifacts |-> in.artifacts, reason |-> in.reason,
                 origin |-> origin]
<1>1. c \in CollectionRow
  BY NextVersionIsNewest DEF CollectionRow, Input
<1>2. collections' = collections \cup {c}
  BY DEF createCollection
<1>3. Topped'
  BY <1>1, <1>2, AddingRowKeepsTopped
<1> QED
  BY <1>1, <1>2, <1>3 DEF TypeInv, TypeOK

LEMMA ToppedStays ==
    ASSUME Topped, UNCHANGED collections
    PROVE  Topped'
  BY DEF Topped, Versions

LEMMA ResolveType ==
    ASSUME TypeOK, NEW refs \in Seq(Refs)
    PROVE  Resolve(refs) \in Seq(Refs \X Nat)
<1>1. Resolve(refs) \in [1..Len(refs) -> Refs \X Nat]
  BY DEF Resolve, TypeOK
<1> QED
  BY <1>1, SeqDef

LEMMA WouldBeType ==
    ASSUME TypeInv, NEW o \in Owners, NEW date \in Nat
    PROVE  buildWouldBeCollectionTx(o, date) \in Collection
<1>1. drafts[o].artifacts \in Seq(Refs) /\ drafts[o].reason \in Reasons
  BY DEF TypeInv, TypeOK, Draft
<1>2. Resolve(drafts[o].artifacts) \in Seq(Refs \X Nat)
  BY <1>1, ResolveType DEF TypeInv
<1> QED
  BY <1>1, <1>2, NextVersionIsNewest DEF buildWouldBeCollectionTx, Collection

LEMMA RepresentationType ==
    ASSUME TypeOK, NEW c \in collections
    PROVE  Representation(c) \in Collection
<1>1. c \in CollectionRow
  BY DEF TypeOK
<1>2. Resolve(c.artifacts) \in Seq(Refs \X Nat)
  BY <1>1, ResolveType DEF CollectionRow
<1> QED
  BY <1>1, <1>2 DEF Representation, Collection, CollectionRow

LEMMA NoDraftType == NoDraft \in Draft
  BY DEF NoDraft, Draft, Reasons

LEMMA LockType ==
    ASSUME NEW d \in Draft, NEW t \in Nat, NEW u \in Nat
    PROVE  [d EXCEPT !.lockExpiresAt = t, !.lockDate = u] \in Draft
  BY DEF Draft

LEMMA DecisionType ==
    ASSUME NEW d \in Draft, NEW st \in {"approved", "rejected"},
           NEW a \in Actors, NEW k \in Creds, NEW n \in Nat, NEW t \in Nat
    PROVE  [d EXCEPT !.status = st, !.decidedBy = a, !.decidedCred = k,
                     !.decidedAtRevision = n, !.approvalExpiresAt = t]
               \in Draft
  BY DEF Draft

LEMMA UpsertType ==
    ASSUME TypeOK, NEW o \in Owners, NEW actor \in Actors, NEW cred \in Creds,
           NEW in \in DraftInputs
    PROVE  Upsert(o, actor, cred, in) \in Draft
<1>1. in.artifacts \in Seq(Refs) /\ in.reason \in Reasons
  BY InputsAssumption
<1>2. drafts[o].revision + 1 \in Nat /\ now + DraftTTL \in Nat
  BY TTLAssumption DEF TypeOK, Draft
<1> QED
  BY <1>1, <1>2 DEF Upsert, NoDraft, Draft, Reasons

\* A signer that is not idle holds a digest of a collection.
LEMMA SignerHolds ==
    ASSUME TypeOK, NEW s \in Signers, signer[s].phase # "idle"
    PROVE  signer[s] \in [phase : SignerPhase, digest : Collection,
                          fingerprint : Fingerprints]
  BY DEF TypeOK, Signer, IdleSigner

LEMMA SignerMoves ==
    ASSUME TypeOK, NEW s \in Signers, signer[s].phase # "idle",
           NEW p \in SignerPhase,
           signer' = [signer EXCEPT ![s].phase = p]
    PROVE  signer' \in [Signers -> Signer]
<1>1. [signer[s] EXCEPT !.phase = p] \in Signer
  BY SignerHolds DEF Signer
<1> QED
  BY <1>1 DEF TypeOK

LEMMA InitType == Init => TypeInv
<1> SUFFICES ASSUME Init PROVE TypeInv
  OBVIOUS
<1>1. TypeOK
  BY NoDraftType DEF Init, TypeOK, Signer, Editor
<1>2. Topped
  BY DEF Init, Topped, Versions
<1> QED
  BY <1>1, <1>2 DEF TypeInv

LEMMA CatalogueType == ASSUME TypeInv, Catalogue PROVE TypeInv'
<1> USE DEF TypeInv, dbVars, callerVars
<1>1. ASSUME NEW o \in Owners, CreateRelease(o) PROVE TypeInv'
  <2>1. [artifacts |-> <<>>, reason |-> "listed"] \in Input
    BY DEF Input, Reasons
  <2>2. createCollection(o, [artifacts |-> <<>>, reason |-> "listed"], now,
                         "initial")
    BY <1>1 DEF CreateRelease
  <2>3. now \in Nat
    BY DEF TypeOK
  <2>4. collections' \subseteq CollectionRow /\ Topped'
    BY <2>1, <2>2, <2>3, CreateCollectionType
  <2> QED
    BY <1>1, <2>4 DEF CreateRelease, TypeOK
<1>2. ASSUME NEW o \in Owners, ImportRelease(o) PROVE TypeInv'
  BY <1>2, ToppedStays DEF ImportRelease, TypeOK
<1>3. ASSUME NEW o \in Owners, DeleteRelease(o) PROVE TypeInv'
  BY <1>3, ToppedStays DEF DeleteRelease, TypeOK
<1>4. ASSUME NEW o \in Owners, AdminCollectionCheck(o) PROVE TypeInv'
  BY <1>4, ToppedStays DEF AdminCollectionCheck, TypeOK
<1>5. ASSUME NEW o \in Owners, NEW in \in DraftInputs,
             AdminCreateCollection(o, in)
      PROVE  TypeInv'
  <2>1. in \in Input /\ now \in Nat
    BY InputsAssumption DEF TypeOK, Input
  <2>2. CASE createCollection(o, in, now, "admin")
    <3>1. collections' \subseteq CollectionRow /\ Topped'
      BY <2>1, <2>2, CreateCollectionType
    <3> QED
      BY <1>5, <3>1 DEF AdminCreateCollection, TypeOK
  <2>3. CASE UNCHANGED collections
    BY <1>5, <2>3, ToppedStays DEF AdminCreateCollection, TypeOK
  <2> QED
    BY <1>5, <2>2, <2>3 DEF AdminCreateCollection
<1>6. ASSUME NEW o \in Owners, NEW in \in DraftInputs,
             NEW v \in 1..MaxVersion, ImportCollection(o, v, in)
      PROVE  TypeInv'
  <2> DEFINE c == [owner |-> o, version |-> v, date |-> 1,
                   artifacts |-> in.artifacts, reason |-> in.reason,
                   origin |-> "import"]
  <2>1. c \in CollectionRow
    BY InputsAssumption, BoundsAssumption DEF CollectionRow
  <2>2. collections' = collections \cup {c}
    BY <1>6 DEF ImportCollection
  <2>3. Topped'
    BY <2>1, <2>2, AddingRowKeepsTopped
  <2> QED
    BY <1>6, <2>1, <2>2, <2>3 DEF ImportCollection, TypeOK
<1>7. ASSUME NEW r \in Refs, CreateArtifact(r) PROVE TypeInv'
  BY <1>7, ToppedStays DEF CreateArtifact, TypeOK
<1>8. ASSUME NEW r \in Refs, SetArtifactFormatFile(r) PROVE TypeInv'
  BY <1>8, ToppedStays DEF SetArtifactFormatFile, TypeOK
<1> QED
  BY <1>1, <1>2, <1>3, <1>4, <1>5, <1>6, <1>7, <1>8 DEF Catalogue

LEMMA EditingType == ASSUME TypeInv, Editing PROVE TypeInv'
<1> USE DEF TypeInv, dbVars, callerVars
<1>1. ASSUME NEW o \in Owners, NEW a \in Actors, NEW k \in Creds,
             NEW in \in DraftInputs, BlindPut(o, a, k, in)
      PROVE  TypeInv'
  BY <1>1, UpsertType, ToppedStays DEF BlindPut, PutCollectionDraft, TypeOK
<1>2. ASSUME NEW e \in Editors, NEW o \in Owners, GetDraftRow(e, o)
      PROVE  TypeInv'
  <2> DEFINE r == [phase |-> IF drafts[o].revision = 0 THEN "read" ELSE "row",
                   owner |-> o, revision |-> drafts[o].revision,
                   artifacts |-> <<>>]
  <2>1. r \in Editor
    BY DEF TypeOK, Editor, Draft
  <2> QED
    BY <1>2, <2>1, ToppedStays DEF GetDraftRow, TypeOK
<1>3. ASSUME NEW e \in Editors, GetDraftArtifacts(e) PROVE TypeInv'
  <2>1. editor[e] \in [phase : {"row", "read"}, owner : Owners,
                       revision : Nat, artifacts : Seq(Refs)]
    BY <1>3 DEF GetDraftArtifacts, TypeOK, Editor, IdleEditor
  <2>2. drafts[editor[e].owner].artifacts \in Seq(Refs)
    BY <2>1 DEF TypeOK, Draft
  <2>3. [editor[e] EXCEPT !.phase = "read",
                          !.artifacts = drafts[editor[e].owner].artifacts]
            \in Editor
    BY <2>1, <2>2 DEF Editor
  <2>4. editor' \in [Editors -> Editor]
    BY <1>3, <2>3 DEF GetDraftArtifacts, TypeOK
  <2> QED
    BY <1>3, <2>4, ToppedStays DEF GetDraftArtifacts, TypeOK
<1>4. ASSUME NEW e \in Editors, NEW a \in Actors, NEW k \in Creds,
             NEW in \in DraftInputs, EditorPut(e, a, k, in)
      PROVE  TypeInv'
  <2>1. editor[e].owner \in Owners
    BY <1>4 DEF EditorPut, TypeOK, Editor, IdleEditor
  <2>2. Upsert(editor[e].owner, a, k, in) \in Draft
    BY <2>1, UpsertType
  <2>3. drafts' \in [Owners -> Draft]
    BY <1>4, <2>2 DEF EditorPut, PutCollectionDraft, TypeOK
  <2>4. editor' \in [Editors -> Editor]
    BY <1>4 DEF EditorPut, TypeOK, Editor
  <2> QED
    BY <1>4, <2>3, <2>4, ToppedStays DEF EditorPut, TypeOK
<1>5. ASSUME NEW e \in Editors, EditorGivesUp(e) PROVE TypeInv'
  BY <1>5, ToppedStays DEF EditorGivesUp, TypeOK, Editor
<1>6. ASSUME NEW o \in Owners, DeleteCollectionDraft(o) PROVE TypeInv'
  BY <1>6, NoDraftType, ToppedStays
     DEF DeleteCollectionDraft, DropDraft, TypeOK
<1>7. ASSUME NEW o \in Owners, NEW a \in Actors, NEW k \in Creds,
             NEW approve \in BOOLEAN, DecideCollectionDraft(o, a, k, approve)
      PROVE  TypeInv'
  <2> DEFINE t == IF approve THEN now + ApprovalTTL ELSE 0
             st == IF approve THEN "approved" ELSE "rejected"
  <2>1. t \in Nat /\ st \in {"approved", "rejected"}
    BY TTLAssumption DEF TypeOK
  <2>5. drafts[o] \in Draft /\ drafts[o].revision \in Nat
    BY DEF TypeOK, Draft
  <2> HIDE DEF t, st
  <2>2. [drafts[o] EXCEPT !.status = st, !.decidedBy = a, !.decidedCred = k,
                          !.decidedAtRevision = drafts[o].revision,
                          !.approvalExpiresAt = t] \in Draft
    BY <2>1, <2>5, DecisionType
  <2>3. drafts' \in [Owners -> Draft]
    BY <1>7, <2>2 DEF DecideCollectionDraft, TypeOK, t, st
  <2> QED
    BY <1>7, <2>3, ToppedStays DEF DecideCollectionDraft, TypeOK
<1> QED
  BY <1>1, <1>2, <1>3, <1>4, <1>5, <1>6, <1>7 DEF Editing

LEMMA PublishingType == ASSUME TypeInv, Publishing PROVE TypeInv'
<1> USE DEF TypeInv, dbVars, callerVars
<1>1. ASSUME NEW s \in Signers, NEW o \in Owners, NEW f \in Fingerprints,
             PrepareCollectionCommit(s, o, f)
      PROVE  TypeInv'
  <2>1. now \in Nat /\ now + LockTTL \in Nat
    BY TTLAssumption DEF TypeOK
  <2>2. [drafts[o] EXCEPT !.lockExpiresAt = now + LockTTL, !.lockDate = now]
            \in Draft
    BY <2>1, LockType DEF TypeOK
  <2>3. drafts' \in [Owners -> Draft]
    BY <1>1, <2>2 DEF PrepareCollectionCommit, TypeOK
  <2>4. buildWouldBeCollectionTx(o, now) \in Collection
    BY <2>1, WouldBeType
  <2>5. [phase |-> "signing", digest |-> buildWouldBeCollectionTx(o, now),
         fingerprint |-> f] \in Signer
    BY <2>4 DEF Signer, SignerPhase
  <2>6. signer' \in [Signers -> Signer]
    BY <1>1, <2>5 DEF PrepareCollectionCommit, TypeOK
  <2> QED
    BY <1>1, <2>3, <2>6, ToppedStays DEF PrepareCollectionCommit, TypeOK
<1>2. ASSUME NEW s \in Signers, PeekRow(s) PROVE TypeInv'
  <2>1. PICK p \in SignerPhase : signer' = [signer EXCEPT ![s].phase = p]
    BY <1>2 DEF PeekRow, SignerPhase
  <2>2. signer' \in [Signers -> Signer]
    BY <1>2, <2>1, SignerMoves DEF PeekRow
  <2> QED
    BY <1>2, <2>2, ToppedStays DEF PeekRow, TypeOK
<1>3. ASSUME NEW s \in Signers, PeekArtifacts(s) PROVE TypeInv'
  <2>1. PICK p \in SignerPhase : signer' = [signer EXCEPT ![s].phase = p]
    BY <1>3 DEF PeekArtifacts, SignerPhase
  <2>2. signer' \in [Signers -> Signer]
    BY <1>3, <2>1, SignerMoves DEF PeekArtifacts
  <2> QED
    BY <1>3, <2>2, ToppedStays DEF PeekArtifacts, TypeOK
<1>4. ASSUME NEW s \in Signers, CommitSucceeds(s) PROVE TypeInv'
  <2> DEFINE g == signer[s].digest
             o == g.owner
             d == drafts[o]
             in == [artifacts |-> d.artifacts, reason |-> d.reason]
             e == [owner |-> o, version |-> NextVersion(o), digest |-> g,
                   fingerprint |-> signer[s].fingerprint]
  <2>1. g \in Collection /\ o \in Owners /\ signer[s].fingerprint \in Fingerprints
    BY <1>4, SignerHolds DEF CommitSucceeds, Collection
  <2>2. in \in Input /\ d.lockDate \in Nat
    BY <2>1 DEF TypeOK, Draft, Input
  <2>3. createCollection(o, in, d.lockDate, "commit")
    BY <1>4 DEF CommitSucceeds, CommitCollectionDraft, buildWouldBeCollectionTx
  <2>4. collections' \subseteq CollectionRow /\ Topped'
    <3> HIDE DEF in
    <3> QED BY <2>1, <2>2, <2>3, CreateCollectionType
  <2>5. evidence' = evidence \cup {e}
    BY <1>4 DEF CommitSucceeds, CommitCollectionDraft, CreateEvidenceBundle,
                buildWouldBeCollectionTx
  <2>6. e \in EvidenceRow
    BY <2>1, NextVersionIsNewest DEF EvidenceRow
  <2>7. drafts' \in [Owners -> Draft]
    BY <1>4, NoDraftType
       DEF CommitSucceeds, CommitCollectionDraft, DropDraft, TypeOK
  <2>8. signer' \in [Signers -> Signer]
    BY <1>4, SignerMoves DEF CommitSucceeds, SignerPhase
  <2> QED
    BY <1>4, <2>4, <2>5, <2>6, <2>7, <2>8 DEF CommitSucceeds, TypeOK
<1>5. ASSUME NEW s \in Signers, CommitFails(s) PROVE TypeInv'
  <2>1. signer' \in [Signers -> Signer]
    BY <1>5, SignerMoves DEF CommitFails, SignerPhase
  <2> QED
    BY <1>5, <2>1, ToppedStays DEF CommitFails, TypeOK
<1>6. ASSUME NEW s \in Signers, RetryCommit(s) PROVE TypeInv'
  <2>1. signer' \in [Signers -> Signer]
    BY <1>6, SignerMoves DEF RetryCommit, SignerPhase
  <2> QED
    BY <1>6, <2>1, ToppedStays DEF RetryCommit, TypeOK
<1>7. ASSUME NEW s \in Signers, SignerLeaves(s) PROVE TypeInv'
  BY <1>7, ToppedStays DEF SignerLeaves, TypeOK, Signer
<1>8. ASSUME NEW o \in Owners, CancelPrepareCheck(o) PROVE TypeInv'
  BY <1>8, ToppedStays DEF CancelPrepareCheck, TypeOK
<1>9. ASSUME NEW o \in Owners, CancelPrepareUpdate(o) PROVE TypeInv'
  <2>1. [drafts[o] EXCEPT !.lockExpiresAt = 0, !.lockDate = 0] \in Draft
    BY LockType DEF TypeOK
  <2> QED
    BY <1>9, <2>1, ToppedStays DEF CancelPrepareUpdate, TypeOK
<1>10. ASSUME NEW s \in Signers, NEW c \in collections,
              NEW f \in Fingerprints, AttestCollection(s, c, f)
       PROVE  TypeInv'
  <2>1. [phase |-> "attesting", digest |-> Representation(c),
         fingerprint |-> f] \in Signer
    BY RepresentationType DEF Signer, SignerPhase
  <2>2. signer' \in [Signers -> Signer]
    BY <1>10, <2>1 DEF AttestCollection, TypeOK
  <2> QED
    BY <1>10, <2>2, ToppedStays DEF AttestCollection, TypeOK
<1>11. ASSUME NEW s \in Signers, SubmitEvidence(s) PROVE TypeInv'
  <2> DEFINE g == signer[s].digest
             e == [owner |-> g.owner, version |-> g.version, digest |-> g,
                   fingerprint |-> signer[s].fingerprint]
  <2>1. g \in Collection /\ signer[s].fingerprint \in Fingerprints
    BY <1>11, SignerHolds DEF SubmitEvidence
  <2>2. e \in EvidenceRow
    BY <2>1 DEF EvidenceRow, Collection
  <2>3. evidence' = evidence \cup {e}
    BY <1>11 DEF SubmitEvidence, CreateEvidenceBundle
  <2>4. signer' \in [Signers -> Signer]
    BY <1>11 DEF SubmitEvidence, TypeOK, Signer
  <2> QED
    BY <1>11, <2>2, <2>3, <2>4, ToppedStays DEF SubmitEvidence, TypeOK
<1> QED
  BY <1>1, <1>2, <1>3, <1>4, <1>5, <1>6, <1>7, <1>8, <1>9, <1>10, <1>11
     DEF Publishing

LEMMA NextType == TypeInv /\ [Next]_vars => TypeInv'
<1> SUFFICES ASSUME TypeInv, [Next]_vars PROVE TypeInv'
  OBVIOUS
<1>1. CASE Tick
  BY <1>1, ToppedStays DEF Tick, TypeInv, TypeOK, dbVars, callerVars
<1>2. CASE UNCHANGED vars
  BY <1>2, ToppedStays DEF TypeInv, TypeOK, vars, dbVars, callerVars
<1> QED
  BY <1>1, <1>2, CatalogueType, EditingType, PublishingType DEF Next

\* Every reachable state is well formed: the rows the handlers write and what
\* callers hold stay within their types, for every choice of the constants.
THEOREM TypeCorrect == Spec => []TypeOK
<1>1. TypeInv => TypeOK
  BY DEF TypeInv
<1> QED
  BY <1>1, InitType, NextType, PTL DEF Spec

-----------------------------------------------------------------------------
(* How a step changes a draft row.  Everything below about drafts follows  *)
(* from these six cases.                                                   *)

Decided(d, a, k, approve) ==
    [d EXCEPT !.status = IF approve THEN "approved" ELSE "rejected",
              !.decidedBy = a,
              !.decidedCred = k,
              !.decidedAtRevision = d.revision,
              !.approvalExpiresAt = IF approve THEN now + ApprovalTTL ELSE 0]

Locked(d) == [d EXCEPT !.lockExpiresAt = now + LockTTL, !.lockDate = now]

Put(o, d) ==
    /\ ~ lockHeld(drafts[o])
    /\ \E a \in Actors, k \in Creds, in \in DraftInputs :
          d = Upsert(o, a, k, in)

Decide(o, d) ==
    /\ drafts[o].revision > 0
    /\ ~ lockHeld(drafts[o])
    /\ \E a \in Actors, k \in Creds, approve \in BOOLEAN :
          /\ ~ ErrSelfApproval(drafts[o], a, k)
          /\ d = Decided(drafts[o], a, k, approve)

Lock(o, d) ==
    /\ drafts[o].revision > 0
    /\ ApprovalCurrent(drafts[o])
    /\ d = Locked(drafts[o])

RowStep(o, d) ==
    /\ drafts' = [drafts EXCEPT ![o] = d]
    /\ now' = now
    /\ \/ Put(o, d)
       \/ Decide(o, d)
       \/ Lock(o, d)
       \/ d = Unlocked(drafts[o])
       \/ d = NoDraft /\ drafts[o].revision > 0

LEMMA DraftStep ==
    ASSUME TypeOK, [Next]_vars
    PROVE  \/ drafts' = drafts /\ now' \in {now, now + 1}
           \/ \E o \in Owners : \E d \in Draft : RowStep(o, d)
<1> USE DEF dbVars, callerVars
<1>1. CASE Catalogue
  BY <1>1 DEF Catalogue, CreateRelease, ImportRelease, DeleteRelease,
     AdminCollectionCheck, AdminCreateCollection, ImportCollection,
     CreateArtifact, SetArtifactFormatFile
<1>2. CASE Editing
  <2>1. ASSUME NEW o \in Owners, NEW a \in Actors, NEW k \in Creds,
               NEW in \in DraftInputs, NEW n \in Int,
               PutCollectionDraft(o, a, k, in, n), now' = now
        PROVE  \E d \in Draft : RowStep(o, d)
    BY <2>1, UpsertType DEF PutCollectionDraft, ErrDraftLocked, RowStep, Put
  <2>2. ASSUME NEW o \in Owners, NEW a \in Actors, NEW k \in Creds,
               NEW in \in DraftInputs, BlindPut(o, a, k, in)
        PROVE  \E d \in Draft : RowStep(o, d)
    BY <2>1, <2>2 DEF BlindPut
  <2>3. ASSUME NEW e \in Editors, NEW a \in Actors, NEW k \in Creds,
               NEW in \in DraftInputs, EditorPut(e, a, k, in)
        PROVE  \E o \in Owners : \E d \in Draft : RowStep(o, d)
    <3>1. editor[e].owner \in Owners /\ editor[e].revision \in Int
      BY <2>3 DEF EditorPut, TypeOK, Editor, IdleEditor
    <3> QED
      BY <2>1, <2>3, <3>1 DEF EditorPut
  <2>4. ASSUME NEW o \in Owners, DeleteCollectionDraft(o)
        PROVE  \E d \in Draft : RowStep(o, d)
    BY <2>4, NoDraftType DEF DeleteCollectionDraft, DropDraft, RowStep
  <2>5. ASSUME NEW o \in Owners, NEW a \in Actors, NEW k \in Creds,
               NEW approve \in BOOLEAN, DecideCollectionDraft(o, a, k, approve)
        PROVE  \E d \in Draft : RowStep(o, d)
    <3> DEFINE t == IF approve THEN now + ApprovalTTL ELSE 0
               st == IF approve THEN "approved" ELSE "rejected"
    <3>1. t \in Nat /\ st \in {"approved", "rejected"}
      BY TTLAssumption DEF TypeOK
    <3>2. drafts[o] \in Draft /\ drafts[o].revision \in Nat
      BY DEF TypeOK, Draft
    <3>3. Decided(drafts[o], a, k, approve) \in Draft
      <4> HIDE DEF t, st
      <4>1. [drafts[o] EXCEPT !.status = st, !.decidedBy = a,
                !.decidedCred = k, !.decidedAtRevision = drafts[o].revision,
                !.approvalExpiresAt = t] \in Draft
        BY <3>1, <3>2, DecisionType
      <4> QED
        BY <4>1 DEF Decided, t, st
    <3>4. drafts' = [drafts EXCEPT ![o] = Decided(drafts[o], a, k, approve)]
      BY <2>5 DEF DecideCollectionDraft, Decided, TypeOK
    <3> QED
      BY <2>5, <3>3, <3>4
         DEF DecideCollectionDraft, ErrDraftLocked, RowStep, Decide
  <2>6. ASSUME NEW e \in Editors,
               \/ \E o \in Owners : GetDraftRow(e, o)
               \/ GetDraftArtifacts(e)
               \/ EditorGivesUp(e)
        PROVE  drafts' = drafts /\ now' = now
    BY <2>6 DEF GetDraftRow, GetDraftArtifacts, EditorGivesUp
  <2> QED
    BY <1>2, <2>2, <2>3, <2>4, <2>5, <2>6 DEF Editing
<1>3. CASE Publishing
  <2>1. ASSUME NEW s \in Signers, NEW o \in Owners, NEW f \in Fingerprints,
               PrepareCollectionCommit(s, o, f)
        PROVE  \E d \in Draft : RowStep(o, d)
    <3>1. now \in Nat /\ now + LockTTL \in Nat /\ drafts[o] \in Draft
      BY TTLAssumption DEF TypeOK
    <3>2. Locked(drafts[o]) \in Draft
      BY <3>1, LockType DEF Locked
    <3>3. drafts' = [drafts EXCEPT ![o] = Locked(drafts[o])]
      BY <2>1 DEF PrepareCollectionCommit, Locked, TypeOK
    <3> QED
      BY <2>1, <3>2, <3>3 DEF PrepareCollectionCommit, RowStep, Lock
  <2>2. ASSUME NEW s \in Signers, CommitSucceeds(s)
        PROVE  \E o \in Owners : \E d \in Draft : RowStep(o, d)
    <3>1. signer[s].digest.owner \in Owners
      BY <2>2, SignerHolds DEF CommitSucceeds, Collection
    <3> QED
      BY <2>2, <3>1, NoDraftType
         DEF CommitSucceeds, CommitCollectionDraft, DropDraft, RowStep
  <2>3. ASSUME NEW o \in Owners, CancelPrepareUpdate(o)
        PROVE  \E d \in Draft : RowStep(o, d)
    <3>1. Unlocked(drafts[o]) \in Draft
      BY LockType DEF Unlocked, TypeOK
    <3>2. drafts' = [drafts EXCEPT ![o] = Unlocked(drafts[o])]
      BY <2>3 DEF CancelPrepareUpdate, Unlocked, TypeOK
    <3> QED
      BY <2>3, <3>1, <3>2 DEF CancelPrepareUpdate, RowStep
  <2>4. ASSUME NEW s \in Signers,
               \/ PeekRow(s) \/ PeekArtifacts(s) \/ CommitFails(s)
               \/ RetryCommit(s) \/ SignerLeaves(s) \/ SubmitEvidence(s)
               \/ \E c \in collections, f \in Fingerprints :
                     AttestCollection(s, c, f)
        PROVE  drafts' = drafts /\ now' = now
    BY <2>4 DEF PeekRow, PeekArtifacts, CommitFails, RetryCommit,
       SignerLeaves, SubmitEvidence, AttestCollection
  <2>5. ASSUME NEW o \in Owners, CancelPrepareCheck(o)
        PROVE  drafts' = drafts /\ now' = now
    BY <2>5 DEF CancelPrepareCheck
  <2> QED
    BY <1>3, <2>1, <2>2, <2>3, <2>4, <2>5 DEF Publishing
<1>4. CASE Tick
  BY <1>4 DEF Tick
<1>5. CASE UNCHANGED vars
  BY <1>5 DEF vars
<1> QED
  BY <1>1, <1>2, <1>3, <1>4, <1>5 DEF Next

-----------------------------------------------------------------------------
(* The maker-checker rule and the signing lock.                            *)

RowEyes(d) ==
    d.status # "none" =>
        /\ d.revision > 0
        /\ d.decidedAtRevision = d.revision
        /\ d.decidedBy # d.draftedBy
        /\ d.decidedCred # d.credential

RowLock(d) ==
    lockHeld(d) =>
        /\ d.status = "approved"
        /\ d.decidedAtRevision = d.revision
        /\ d.lockDate \in 1..now
        /\ d.lockExpiresAt = d.lockDate + LockTTL
        /\ d.lockDate < d.approvalExpiresAt

DraftInv == TypeInv /\ FourEyes /\ LockStandsOnApproval

LEMMA RowStepKeepsEyes ==
    ASSUME TypeOK, NEW o \in Owners, NEW d \in Draft, RowStep(o, d),
           RowEyes(drafts[o])
    PROVE  RowEyes(d)
<1>1. drafts[o] \in Draft /\ drafts[o].revision \in Nat
  BY DEF TypeOK, Draft
<1>2. CASE Put(o, d)
  BY <1>2 DEF Put, Upsert, NoDraft, RowEyes
<1>3. CASE Decide(o, d)
  <2>1. PICK a \in Actors, k \in Creds, approve \in BOOLEAN :
            /\ ~ ErrSelfApproval(drafts[o], a, k)
            /\ d = Decided(drafts[o], a, k, approve)
    BY <1>3 DEF Decide
  <2>2. /\ d.revision = drafts[o].revision
        /\ d.decidedAtRevision = drafts[o].revision
        /\ d.decidedBy = a
        /\ d.decidedCred = k
        /\ d.draftedBy = drafts[o].draftedBy
        /\ d.credential = drafts[o].credential
    BY <1>1, <2>1 DEF Decided, Draft
  <2> QED
    BY <1>3, <2>1, <2>2 DEF ErrSelfApproval, RowEyes, Decide
<1>4. CASE Lock(o, d)
  BY <1>1, <1>4 DEF Lock, Locked, RowEyes, Draft
<1>5. CASE d = Unlocked(drafts[o])
  BY <1>1, <1>5 DEF Unlocked, RowEyes, Draft
<1>6. CASE d = NoDraft
  BY <1>6 DEF NoDraft, RowEyes
<1> QED
  BY <1>2, <1>3, <1>4, <1>5, <1>6 DEF RowStep

LEMMA RowStepKeepsLock ==
    ASSUME TypeOK, NEW o \in Owners, NEW d \in Draft, RowStep(o, d),
           RowLock(drafts[o])
    PROVE  RowLock(d)
<1>1. drafts[o] \in Draft /\ now \in Nat \ {0} /\ LockTTL \in Nat \ {0}
  BY TTLAssumption DEF TypeOK
<1>2. CASE Put(o, d)
  BY <1>1, <1>2 DEF Put, Upsert, NoDraft, RowLock, lockHeld
<1>3. CASE Decide(o, d)
  BY <1>1, <1>3 DEF Decide, Decided, Draft, RowLock, lockHeld
<1>4. CASE Lock(o, d)
  BY <1>1, <1>4 DEF Lock, Locked, ApprovalCurrent, Draft, RowLock, lockHeld
<1>5. CASE d = Unlocked(drafts[o])
  BY <1>1, <1>5 DEF Unlocked, Draft, RowLock, lockHeld
<1>6. CASE d = NoDraft
  BY <1>1, <1>6 DEF NoDraft, RowLock, lockHeld
<1> QED
  BY <1>2, <1>3, <1>4, <1>5, <1>6 DEF RowStep

LEMMA InitDraftInv == Init => DraftInv
<1> SUFFICES ASSUME Init PROVE DraftInv
  OBVIOUS
<1>1. TypeInv
  BY InitType
<1>2. FourEyes
  BY DEF Init, FourEyes, NoDraft
<1>3. LockStandsOnApproval
  BY DEF Init, LockStandsOnApproval, NoDraft, lockHeld
<1> QED
  BY <1>1, <1>2, <1>3 DEF DraftInv

LEMMA NextDraftInv == DraftInv /\ [Next]_vars => DraftInv'
<1> SUFFICES ASSUME DraftInv, [Next]_vars PROVE DraftInv'
  OBVIOUS
<1>1. TypeInv' /\ TypeOK
  BY NextType DEF DraftInv, TypeInv
<1>2. \A o \in Owners : RowEyes(drafts[o]) /\ RowLock(drafts[o])
  BY DEF DraftInv, FourEyes, LockStandsOnApproval, RowEyes, RowLock
<1>3. ASSUME drafts' = drafts, now' \in {now, now + 1}
      PROVE  FourEyes' /\ LockStandsOnApproval'
  <2>1. FourEyes'
    BY <1>3 DEF DraftInv, FourEyes
  <2>2. now \in Nat /\ \A o \in Owners : drafts[o].lockExpiresAt \in Nat
    BY <1>1 DEF TypeOK, Draft
  <2>3. LockStandsOnApproval'
    BY <1>3, <2>2 DEF DraftInv, LockStandsOnApproval, lockHeld
  <2> QED
    BY <2>1, <2>3
<1>4. ASSUME NEW o \in Owners, NEW d \in Draft, RowStep(o, d)
      PROVE  FourEyes' /\ LockStandsOnApproval'
  <2>1. RowEyes(d) /\ RowLock(d)
    BY <1>1, <1>2, <1>4, RowStepKeepsEyes, RowStepKeepsLock
  <2>2. now' = now /\ drafts' = [drafts EXCEPT ![o] = d]
    BY <1>4 DEF RowStep
  <2>3. \A p \in Owners : drafts'[p] = IF p = o THEN d ELSE drafts[p]
    BY <1>1, <2>2 DEF TypeOK
  <2>4. \A p \in Owners : RowEyes(drafts'[p]) /\ RowLock(drafts'[p])
    BY <1>2, <2>1, <2>3
  <2>5. FourEyes'
    BY <2>4 DEF FourEyes, RowEyes
  <2>6. LockStandsOnApproval'
    BY <2>2, <2>4 DEF LockStandsOnApproval, RowLock, lockHeld
  <2> QED
    BY <2>5, <2>6
<1>5. FourEyes' /\ LockStandsOnApproval'
  BY <1>1, <1>3, <1>4, DraftStep
<1> QED
  BY <1>1, <1>5 DEF DraftInv

\* Whatever callers do, a decision on record was taken on the current revision
\* by a party that shares neither name nor credential with the drafter.
THEOREM FourEyesHolds == Spec => []FourEyes
<1>1. DraftInv => FourEyes
  BY DEF DraftInv
<1> QED
  BY <1>1, InitDraftInv, NextDraftInv, PTL DEF Spec

\* A held lock always stands on a matching approval and a recorded date, and
\* ends less than LockTTL after the approval does.
THEOREM LockStandsOnApprovalHolds == Spec => []LockStandsOnApproval
<1>1. DraftInv => LockStandsOnApproval
  BY DEF DraftInv
<1> QED
  BY <1>1, InitDraftInv, NextDraftInv, PTL DEF Spec

\* No step of any caller changes what a held lock protects.
THEOREM LockFreezesDraftHolds == Spec => LockFreezesDraft
<1> DEFINE Frozen ==
        \A o \in Owners : lockHeld(drafts[o]) =>
            \/ drafts'[o] = NoDraft
            \/ Unlocked(drafts'[o]) = Unlocked(drafts[o])
<1>1. ASSUME TypeOK, [Next]_vars PROVE Frozen
  <2> SUFFICES ASSUME NEW p \in Owners, lockHeld(drafts[p])
               PROVE  \/ drafts'[p] = NoDraft
                      \/ Unlocked(drafts'[p]) = Unlocked(drafts[p])
    OBVIOUS
  <2>1. CASE drafts' = drafts
    BY <2>1
  <2>2. ASSUME NEW o \in Owners, NEW d \in Draft, RowStep(o, d)
        PROVE  \/ drafts'[p] = NoDraft
               \/ Unlocked(drafts'[p]) = Unlocked(drafts[p])
    <3>1. drafts'[p] = IF p = o THEN d ELSE drafts[p]
      BY <1>1, <2>2 DEF RowStep, TypeOK
    <3>2. CASE p # o
      BY <3>1, <3>2
    <3>3. CASE p = o
      <4>1. drafts[o] \in Draft
        BY <1>1 DEF TypeOK
      <4>2. \/ d = Locked(drafts[o])
            \/ d = Unlocked(drafts[o])
            \/ d = NoDraft
        BY <2>2, <3>3 DEF RowStep, Put, Decide, Lock
      <4>3. Unlocked(Locked(drafts[o])) = Unlocked(drafts[o])
        BY <4>1 DEF Locked, Unlocked, Draft
      <4>4. Unlocked(Unlocked(drafts[o])) = Unlocked(drafts[o])
        BY <4>1 DEF Unlocked, Draft
      <4> QED
        BY <3>1, <3>3, <4>2, <4>3, <4>4
    <3> QED
      BY <3>2, <3>3
  <2> QED
    BY <1>1, <2>1, <2>2, DraftStep
<1>2. TypeOK /\ [Next]_vars => [Frozen]_vars
  BY <1>1
<1> QED
  BY <1>2, TypeCorrect, PTL DEF Spec, LockFreezesDraft

-----------------------------------------------------------------------------
(* How a step changes the published collections and their evidence.        *)

Newest(c) == \A v \in Versions(c.owner) : v < c.version

Insert(c) ==
    /\ collections' = collections \cup {c}
    /\ c.origin # "import" => Newest(c)

DirectStep(c) ==
    /\ Insert(c)
    /\ c.origin # "commit"
    /\ UNCHANGED <<drafts, evidence>>

CommitStep(c, e) ==
    /\ Insert(c)
    /\ c.origin = "commit"
    /\ c.version \in 1..MaxVersion
    /\ ApprovalCurrent(drafts[c.owner])
    /\ drafts[c.owner].revision > 0
    /\ drafts[c.owner].artifacts = c.artifacts
    /\ drafts[c.owner].reason = c.reason
    /\ drafts' = [drafts EXCEPT ![c.owner] = NoDraft]
    /\ CreateEvidenceBundle(e)
    /\ e.owner = c.owner
    /\ e.version = c.version

AttestStep(e) ==
    /\ CreateEvidenceBundle(e)
    /\ UNCHANGED <<drafts, collections>>

LEMMA CreateCollectionStep ==
    ASSUME TypeInv, NEW o \in Owners, NEW in \in Input, NEW date \in Nat,
           NEW origin \in {"initial", "admin", "import", "commit"},
           createCollection(o, in, date, origin)
    PROVE  \E c \in CollectionRow :
              /\ Insert(c)
              /\ c.owner = o
              /\ c.version = NextVersion(o)
              /\ c.version \in 1..MaxVersion
              /\ c.artifacts = in.artifacts
              /\ c.reason = in.reason
              /\ c.origin = origin
<1> DEFINE c == [owner |-> o, version |-> NextVersion(o), date |-> date,
                 artifacts |-> in.artifacts, reason |-> in.reason,
                 origin |-> origin]
<1>1. c \in CollectionRow
  BY NextVersionIsNewest DEF CollectionRow, Input
<1>2. collections' = collections \cup {c} /\ c.version \in 1..MaxVersion
  BY NextVersionIsNewest, BoundsAssumption DEF createCollection
<1>3. Newest(c)
  BY NextVersionIsNewest DEF Newest
<1> QED
  BY <1>1, <1>2, <1>3 DEF Insert

LEMMA HistoryStep ==
    ASSUME TypeInv, [Next]_vars
    PROVE  \/ UNCHANGED <<collections, evidence>>
           \/ \E c \in CollectionRow : DirectStep(c)
           \/ \E c \in CollectionRow, e \in EvidenceRow : CommitStep(c, e)
           \/ \E e \in EvidenceRow : AttestStep(e)
<1> USE DEF dbVars, callerVars
<1>1. CASE Catalogue
  <2>1. ASSUME NEW o \in Owners, CreateRelease(o)
        PROVE  \E c \in CollectionRow : DirectStep(c)
    <3>1. [artifacts |-> <<>>, reason |-> "listed"] \in Input /\ now \in Nat
      BY DEF Input, Reasons, TypeInv, TypeOK
    <3>2. PICK c \in CollectionRow : Insert(c) /\ c.origin = "initial"
      BY <2>1, <3>1, CreateCollectionStep DEF CreateRelease
    <3> QED
      BY <2>1, <3>2 DEF CreateRelease, DirectStep
  <2>2. ASSUME NEW o \in Owners, NEW in \in DraftInputs,
               AdminCreateCollection(o, in)
        PROVE  \/ UNCHANGED <<collections, evidence>>
               \/ \E c \in CollectionRow : DirectStep(c)
    <3>1. in \in Input /\ now \in Nat
      BY InputsAssumption DEF Input, TypeInv, TypeOK
    <3>2. CASE createCollection(o, in, now, "admin")
      <4>1. PICK c \in CollectionRow : Insert(c) /\ c.origin = "admin"
        BY <3>1, <3>2, CreateCollectionStep
      <4> QED
        BY <2>2, <4>1 DEF AdminCreateCollection, DirectStep
    <3> QED
      BY <2>2, <3>2 DEF AdminCreateCollection
  <2>3. ASSUME NEW o \in Owners, NEW in \in DraftInputs,
               NEW v \in 1..MaxVersion, ImportCollection(o, v, in)
        PROVE  \E c \in CollectionRow : DirectStep(c)
    <3> DEFINE c == [owner |-> o, version |-> v, date |-> 1,
                     artifacts |-> in.artifacts, reason |-> in.reason,
                     origin |-> "import"]
    <3>1. c \in CollectionRow
      BY InputsAssumption, BoundsAssumption DEF CollectionRow
    <3>2. DirectStep(c)
      BY <2>3 DEF ImportCollection, DirectStep, Insert
    <3> QED
      BY <3>1, <3>2
  <2>4. ASSUME NEW o \in Owners,
               ImportRelease(o) \/ DeleteRelease(o) \/ AdminCollectionCheck(o)
        PROVE  UNCHANGED <<collections, evidence>>
    BY <2>4 DEF ImportRelease, DeleteRelease, AdminCollectionCheck
  <2>5. ASSUME NEW r \in Refs, CreateArtifact(r) \/ SetArtifactFormatFile(r)
        PROVE  UNCHANGED <<collections, evidence>>
    BY <2>5 DEF CreateArtifact, SetArtifactFormatFile
  <2> QED
    BY <1>1, <2>1, <2>2, <2>3, <2>4, <2>5 DEF Catalogue
<1>2. CASE Editing
  <2>1. ASSUME NEW o \in Owners, NEW a \in Actors, NEW k \in Creds,
               \/ \E in \in DraftInputs : BlindPut(o, a, k, in)
               \/ \E b \in BOOLEAN : DecideCollectionDraft(o, a, k, b)
        PROVE  UNCHANGED <<collections, evidence>>
    BY <2>1 DEF BlindPut, DecideCollectionDraft
  <2>2. ASSUME NEW e \in Editors,
               \/ \E o \in Owners : GetDraftRow(e, o)
               \/ GetDraftArtifacts(e)
               \/ \E a \in Actors, k \in Creds, in \in DraftInputs :
                     EditorPut(e, a, k, in)
               \/ EditorGivesUp(e)
        PROVE  UNCHANGED <<collections, evidence>>
    BY <2>2 DEF GetDraftRow, GetDraftArtifacts, EditorPut, EditorGivesUp
  <2>3. ASSUME NEW o \in Owners, DeleteCollectionDraft(o)
        PROVE  UNCHANGED <<collections, evidence>>
    BY <2>3 DEF DeleteCollectionDraft
  <2> QED
    BY <1>2, <2>1, <2>2, <2>3 DEF Editing
<1>3. CASE Publishing
  <2>1. ASSUME NEW s \in Signers, CommitSucceeds(s)
        PROVE  \E c \in CollectionRow, e \in EvidenceRow : CommitStep(c, e)
    <3> DEFINE g == signer[s].digest
               o == g.owner
               d == drafts[o]
               in == [artifacts |-> d.artifacts, reason |-> d.reason]
               e == [owner |-> o, version |-> NextVersion(o), digest |-> g,
                     fingerprint |-> signer[s].fingerprint]
    <3>1. /\ g \in Collection
          /\ o \in Owners
          /\ signer[s].fingerprint \in Fingerprints
      BY <2>1, SignerHolds DEF CommitSucceeds, Collection, TypeInv
    <3>2. in \in Input /\ d.lockDate \in Nat
      BY <3>1 DEF TypeInv, TypeOK, Draft, Input
    <3>3. createCollection(o, in, d.lockDate, "commit")
      BY <2>1
         DEF CommitSucceeds, CommitCollectionDraft, buildWouldBeCollectionTx
    <3>4. PICK c \in CollectionRow :
              /\ Insert(c)
              /\ c.owner = o
              /\ c.version = NextVersion(o)
              /\ c.version \in 1..MaxVersion
              /\ c.artifacts = in.artifacts
              /\ c.reason = in.reason
              /\ c.origin = "commit"
      <4> HIDE DEF in
      <4> QED BY <3>1, <3>2, <3>3, CreateCollectionStep
    <3>5. e \in EvidenceRow
      BY <3>1, NextVersionIsNewest DEF EvidenceRow
    <3>6. CreateEvidenceBundle(e)
      BY <2>1
         DEF CommitSucceeds, CommitCollectionDraft, buildWouldBeCollectionTx
    <3>7. /\ d.revision > 0
          /\ ApprovalCurrent(d)
          /\ drafts' = [drafts EXCEPT ![o] = NoDraft]
      BY <2>1 DEF CommitSucceeds, CommitCollectionDraft, DropDraft
    <3>8. CommitStep(c, e)
      BY <3>4, <3>6, <3>7 DEF CommitStep
    <3> QED
      BY <3>5, <3>8
  <2>2. ASSUME NEW s \in Signers,
               \/ \E o \in Owners, f \in Fingerprints :
                     PrepareCollectionCommit(s, o, f)
               \/ PeekRow(s) \/ PeekArtifacts(s) \/ CommitFails(s)
               \/ RetryCommit(s) \/ SignerLeaves(s)
               \/ \E c \in collections, f \in Fingerprints :
                     AttestCollection(s, c, f)
        PROVE  UNCHANGED <<collections, evidence>>
    BY <2>2 DEF PrepareCollectionCommit, PeekRow, PeekArtifacts, CommitFails,
       RetryCommit, SignerLeaves, AttestCollection
  <2>3. ASSUME NEW o \in Owners,
               CancelPrepareCheck(o) \/ CancelPrepareUpdate(o)
        PROVE  UNCHANGED <<collections, evidence>>
    BY <2>3 DEF CancelPrepareCheck, CancelPrepareUpdate
  <2>4. ASSUME NEW s \in Signers, SubmitEvidence(s)
        PROVE  \E e \in EvidenceRow : AttestStep(e)
    <3> DEFINE g == signer[s].digest
               e == [owner |-> g.owner, version |-> g.version, digest |-> g,
                     fingerprint |-> signer[s].fingerprint]
    <3>1. g \in Collection /\ signer[s].fingerprint \in Fingerprints
      BY <2>4, SignerHolds DEF SubmitEvidence, TypeInv
    <3>2. e \in EvidenceRow
      BY <3>1 DEF EvidenceRow, Collection
    <3>3. AttestStep(e)
      BY <2>4 DEF SubmitEvidence, AttestStep
    <3> QED
      BY <3>2, <3>3
  <2> QED
    BY <1>3, <2>1, <2>2, <2>3, <2>4 DEF Publishing
<1>4. CASE Tick \/ UNCHANGED vars
  BY <1>4 DEF Tick, vars
<1> QED
  BY <1>1, <1>2, <1>3, <1>4 DEF Next

-----------------------------------------------------------------------------
(* The history and its evidence.                                           *)

\* No collection goes except with its release, and a version the server
\* numbers is newer than every other version of its release.
THEOREM PublishedStaysHolds == Spec => PublishedStays
<1> DEFINE Stays ==
        /\ \A c \in collections \ collections' :
              releases[c.owner] = "present" /\ releases'[c.owner] # "present"
        /\ \A c \in collections' \ collections : c.origin # "import" =>
              \A d \in collections : d.owner = c.owner => d.version < c.version
<1>1. ASSUME TypeInv, [Next]_vars PROVE Stays
  <2>1. ASSUME NEW c \in CollectionRow, Insert(c) PROVE Stays
    <3>1. \A d \in collections : d.owner = c.owner => d.version \in Versions(c.owner)
      BY DEF Versions
    <3> QED
      BY <2>1, <3>1 DEF Insert, Newest
  <2> QED
    BY <1>1, <2>1, HistoryStep DEF DirectStep, CommitStep, AttestStep
<1>2. TypeInv /\ [Next]_vars => [Stays]_vars
  BY <1>1
<1> QED
  BY <1>2, InitType, NextType, PTL DEF Spec, PublishedStays

EvidenceInv == TypeInv /\ CommitAllOrNothing /\ FingerprintUsedOnce

LEMMA NextEvidenceInv == EvidenceInv /\ [Next]_vars => EvidenceInv'
<1> SUFFICES ASSUME EvidenceInv, [Next]_vars PROVE EvidenceInv'
  OBVIOUS
<1>1. TypeInv /\ TypeInv'
  BY NextType DEF EvidenceInv
<1>2. CASE UNCHANGED <<collections, evidence>>
  BY <1>1, <1>2 DEF EvidenceInv, CommitAllOrNothing, FingerprintUsedOnce
<1>3. ASSUME NEW c \in CollectionRow, DirectStep(c) PROVE EvidenceInv'
  BY <1>1, <1>3 DEF EvidenceInv, CommitAllOrNothing, FingerprintUsedOnce,
     DirectStep, Insert
<1>4. ASSUME NEW c \in CollectionRow, NEW e \in EvidenceRow, CommitStep(c, e)
      PROVE  EvidenceInv'
  <2>1. /\ collections' = collections \cup {c}
        /\ evidence' = evidence \cup {e}
        /\ e.owner = c.owner
        /\ e.version = c.version
    BY <1>4 DEF CommitStep, Insert, CreateEvidenceBundle
  <2>2. CommitAllOrNothing'
    BY <2>1 DEF EvidenceInv, CommitAllOrNothing
  <2>3. FingerprintUsedOnce'
    BY <1>4 DEF EvidenceInv, FingerprintUsedOnce, CommitStep,
       CreateEvidenceBundle
  <2> QED
    BY <1>1, <2>2, <2>3 DEF EvidenceInv
<1>5. ASSUME NEW e \in EvidenceRow, AttestStep(e) PROVE EvidenceInv'
  <2>1. CommitAllOrNothing'
    BY <1>5 DEF EvidenceInv, CommitAllOrNothing, AttestStep,
       CreateEvidenceBundle
  <2>2. FingerprintUsedOnce'
    BY <1>5 DEF EvidenceInv, FingerprintUsedOnce, AttestStep,
       CreateEvidenceBundle
  <2> QED
    BY <1>1, <2>1, <2>2 DEF EvidenceInv
<1> QED
  BY <1>1, <1>2, <1>3, <1>4, <1>5, HistoryStep

LEMMA InitEvidenceInv == Init => EvidenceInv
  BY InitType DEF Init, EvidenceInv, CommitAllOrNothing, FingerprintUsedOnce

\* A commit is all or nothing: no collection published through a draft is
\* without evidence and no bundle is without its collection, however commits,
\* retries, admin submissions, imports and crashes interleave.
THEOREM CommitAllOrNothingHolds == Spec => []CommitAllOrNothing
<1>1. EvidenceInv => CommitAllOrNothing
  BY DEF EvidenceInv
<1> QED
  BY <1>1, InitEvidenceInv, NextEvidenceInv, PTL DEF Spec

\* No certificate fingerprint attests to two collections.
THEOREM FingerprintUsedOnceHolds == Spec => []FingerprintUsedOnce
<1>1. EvidenceInv => FingerprintUsedOnce
  BY DEF EvidenceInv
<1> QED
  BY <1>1, InitEvidenceInv, NextEvidenceInv, PTL DEF Spec

-----------------------------------------------------------------------------
(* The workflow implements MakerChecker.                                   *)

AnyParty == (Actors \cup {NoOne}) \X (Creds \cup {NoOne})

LEMMA OpenProposal ==
    ASSUME NEW d \in Draft, d.revision > 0
    PROVE  /\ Proposal(d) # NoOne
           /\ Proposal(d) =
                [content |-> <<d.artifacts, d.reason>>,
                 maker |-> Party(d.draftedBy, d.credential),
                 checker |-> IF d.status = "approved"
                             THEN Party(d.decidedBy, d.decidedCred) ELSE NoOne]
<1> DEFINE ck == IF d.status = "approved"
                 THEN Party(d.decidedBy, d.decidedCred) ELSE NoOne
<1>1. Proposal(d) = [content |-> <<d.artifacts, d.reason>>,
                     maker |-> Party(d.draftedBy, d.credential),
                     checker |-> ck]
  BY DEF Proposal, Draft
<1>2. ck \in {NoOne} \cup AnyParty
  BY DEF Party, Draft, AnyParty
<1>3. Party(d.draftedBy, d.credential) \in AnyParty
  BY DEF Party, Draft, AnyParty
<1>4. <<d.artifacts, d.reason>> \in Seq(Refs) \X Reasons
  BY DEF Draft
<1> HIDE DEF ck
<1>5. Proposal(d) \in [content : Seq(Refs) \X Reasons, maker : AnyParty,
                       checker : {NoOne} \cup AnyParty]
  BY <1>1, <1>2, <1>3, <1>4
<1> QED
  BY <1>1, <1>5, NoProposalAssumption DEF AnyParty, ck

LEMMA MappedRow ==
    ASSUME TypeOK, NEW o \in Owners, NEW d,
           drafts' = [drafts EXCEPT ![o] = d]
    PROVE  /\ proposal[o] = Proposal(drafts[o])
           /\ proposal' = [proposal EXCEPT ![o] = Proposal(d)]
<1>1. \A p \in Owners : drafts'[p] = IF p = o THEN d ELSE drafts[p]
  BY DEF TypeOK
<1>2. proposal' = [p \in Owners |-> Proposal(drafts'[p])]
  BY DEF proposal, Proposal, Party
<1>3. proposal = [p \in Owners |-> Proposal(drafts[p])]
  BY DEF proposal
<1> QED
  BY <1>1, <1>2, <1>3

LEMMA MappedRowStep ==
    ASSUME TypeOK, NEW o \in Owners, NEW d \in Draft, RowStep(o, d),
           UNCHANGED collections
    PROVE  [Abstract!Next]_(Abstract!vars)
<1>1. drafts[o] \in Draft /\ drafts[o].revision \in Nat
  BY DEF TypeOK, Draft
<1>2. published' = published
  BY DEF published
<1>3. /\ proposal[o] = Proposal(drafts[o])
      /\ proposal' = [proposal EXCEPT ![o] = Proposal(d)]
  BY MappedRow DEF RowStep
<1>4. ASSUME Proposal(d) = Proposal(drafts[o]) PROVE UNCHANGED Abstract!vars
  <2>1. proposal' = proposal
    BY <1>3, <1>4 DEF proposal
  <2> QED
    BY <1>2, <2>1 DEF Abstract!vars
<1>5. CASE Put(o, d)
  <2>1. PICK a \in Actors, k \in Creds, in \in DraftInputs :
            d = Upsert(o, a, k, in)
    BY <1>5 DEF Put
  <2>2. Proposal(d) = [content |-> <<in.artifacts, in.reason>>,
                       maker |-> <<a, k>>, checker |-> NoOne]
    BY <1>1, <2>1 DEF Upsert, NoDraft, Proposal, Party
  <2>3. Abstract!Propose(o)
    BY <1>2, <1>3, <2>2 DEF Abstract!Propose
  <2> QED
    BY <2>3 DEF Abstract!Next
<1>6. CASE Decide(o, d)
  <2>1. PICK a \in Actors, k \in Creds, approve \in BOOLEAN :
            /\ ~ ErrSelfApproval(drafts[o], a, k)
            /\ d = Decided(drafts[o], a, k, approve)
    BY <1>6 DEF Decide
  <2>2. /\ d.revision = drafts[o].revision
        /\ d.artifacts = drafts[o].artifacts
        /\ d.reason = drafts[o].reason
        /\ d.draftedBy = drafts[o].draftedBy
        /\ d.credential = drafts[o].credential
        /\ d.decidedBy = a
        /\ d.decidedCred = k
        /\ d.status = IF approve THEN "approved" ELSE "rejected"
    BY <1>1, <2>1 DEF Decided, Draft
  <2>3. drafts[o].revision > 0 /\ d.revision > 0
    BY <1>6, <2>2 DEF Decide
  <2>4. proposal[o] # NoOne
    BY <1>1, <1>3, <2>3, OpenProposal
  <2>5. proposal[o].maker = <<drafts[o].draftedBy, drafts[o].credential>>
    BY <1>1, <1>3, <2>3, OpenProposal DEF Party
  <2>6. CASE approve
    <3>1. Proposal(d) = [proposal[o] EXCEPT !.checker = <<a, k>>]
      BY <1>1, <1>3, <2>2, <2>3, <2>6, OpenProposal DEF Party
    <3>2. Abstract!Independent(<<a, k>>, proposal[o].maker)
      BY <2>1, <2>5 DEF Abstract!Independent, ErrSelfApproval
    <3>3. Abstract!Endorse(o)
      BY <1>2, <1>3, <2>4, <3>1, <3>2 DEF Abstract!Endorse
    <3> QED
      BY <3>3 DEF Abstract!Next
  <2>7. CASE ~ approve
    <3>1. Proposal(d) = [proposal[o] EXCEPT !.checker = NoOne]
      BY <1>1, <1>3, <2>2, <2>3, <2>7, OpenProposal
    <3>2. Abstract!Refuse(o)
      BY <1>2, <1>3, <2>4, <3>1 DEF Abstract!Refuse
    <3> QED
      BY <3>2 DEF Abstract!Next
  <2> QED
    BY <2>6, <2>7
<1>7. CASE Lock(o, d)
  <2>1. Proposal(d) = Proposal(drafts[o])
    BY <1>1, <1>7 DEF Lock, Locked, Proposal, Draft
  <2> QED
    BY <1>4, <2>1
<1>8. CASE d = Unlocked(drafts[o])
  <2>1. Proposal(d) = Proposal(drafts[o])
    BY <1>1, <1>8 DEF Unlocked, Proposal, Draft
  <2> QED
    BY <1>4, <2>1
<1>9. CASE d = NoDraft /\ drafts[o].revision > 0
  <2>1. Proposal(d) = NoOne
    BY <1>9 DEF NoDraft, Proposal
  <2>2. Abstract!Withdraw(o)
    BY <1>1, <1>2, <1>3, <1>9, <2>1, OpenProposal DEF Abstract!Withdraw
  <2> QED
    BY <2>2 DEF Abstract!Next
<1> QED
  BY <1>5, <1>6, <1>7, <1>8, <1>9 DEF RowStep

LEMMA MappedCommit ==
    ASSUME TypeInv, NEW c \in CollectionRow, NEW e \in EvidenceRow,
           CommitStep(c, e)
    PROVE  Abstract!Publish(c.owner)
<1> DEFINE o == c.owner
           q == [owner |-> o, version |-> c.version,
                 content |-> <<c.artifacts, c.reason>>]
<1>1. o \in Owners /\ drafts[o] \in Draft /\ drafts[o].revision > 0
  BY DEF CollectionRow, CommitStep, TypeInv, TypeOK
<1>2. /\ proposal[o] = Proposal(drafts[o])
      /\ proposal' = [proposal EXCEPT ![o] = Proposal(NoDraft)]
  BY <1>1, MappedRow DEF CommitStep, TypeInv
<1>3. Proposal(NoDraft) = NoOne
  BY DEF NoDraft, Proposal
<1>4. /\ proposal[o] # NoOne
      /\ proposal[o].content = <<c.artifacts, c.reason>>
      /\ proposal[o].checker = Party(drafts[o].decidedBy, drafts[o].decidedCred)
  BY <1>1, <1>2, OpenProposal DEF CommitStep, ApprovalCurrent
<1>5. published' = published \cup {q}
  BY DEF published, CommitStep, Insert
<1>6. \A p \in published : p.owner = o => p.version < c.version
  BY DEF published, CommitStep, Insert, Newest, Versions
<1>7. c.version \in 1..MaxVersion
  BY DEF CommitStep
<1>8. proposal[o].checker # NoOne
  BY <1>1, <1>4, NoProposalAssumption DEF Party, Draft
<1> QED
  BY <1>2, <1>3, <1>4, <1>5, <1>6, <1>7, <1>8 DEF Abstract!Publish

LEMMA MappedInit == Init => Abstract!Init
<1> SUFFICES ASSUME Init PROVE Abstract!Init
  OBVIOUS
<1>1. proposal = [o \in Owners |-> NoOne]
  BY DEF Init, proposal, Proposal, NoDraft
<1>2. published = {}
  BY DEF Init, published
<1> QED
  BY <1>1, <1>2 DEF Abstract!Init

LEMMA MappedNext ==
    TypeInv /\ [Next]_vars => [Abstract!Next]_(Abstract!vars)
<1> SUFFICES ASSUME TypeInv, [Next]_vars
             PROVE  [Abstract!Next]_(Abstract!vars)
  OBVIOUS
<1>1. CASE UNCHANGED <<collections, evidence>>
  <2>1. CASE drafts' = drafts
    BY <1>1, <2>1 DEF Abstract!vars, proposal, Proposal, published, Party
  <2>2. ASSUME NEW o \in Owners, NEW d \in Draft, RowStep(o, d)
        PROVE  [Abstract!Next]_(Abstract!vars)
    BY <1>1, <2>2, MappedRowStep DEF TypeInv
  <2> QED
    BY <2>1, <2>2, DraftStep DEF TypeInv
<1>2. ASSUME NEW c \in CollectionRow, DirectStep(c)
      PROVE  UNCHANGED Abstract!vars
  <2>1. published' = published
    BY <1>2 DEF DirectStep, Insert, published
  <2>2. proposal' = proposal
    BY <1>2 DEF DirectStep, proposal, Proposal, Party
  <2> QED
    BY <2>1, <2>2 DEF Abstract!vars
<1>3. ASSUME NEW c \in CollectionRow, NEW e \in EvidenceRow, CommitStep(c, e)
      PROVE  Abstract!Next
  <2>1. c.owner \in Owners
    BY DEF CollectionRow
  <2> QED
    BY <1>3, <2>1, MappedCommit DEF Abstract!Next
<1>4. ASSUME NEW e \in EvidenceRow, AttestStep(e)
      PROVE  UNCHANGED Abstract!vars
  BY <1>4 DEF AttestStep, Abstract!vars, proposal, Proposal, published, Party
<1> QED
  BY <1>1, <1>2, <1>3, <1>4, HistoryStep

\* The draft workflow implements the maker-checker rule: whatever callers,
\* clocks, locks and retries do, what a commit publishes was proposed by one
\* party and endorsed in exactly that form by an independent one.
THEOREM ImplementsMakerChecker == Spec => MakerCheckerSpec
<1> QED
  BY InitType, NextType, MappedInit, MappedNext, PTL
     DEF Spec, MakerCheckerSpec, Abstract!Spec
=============================================================================
