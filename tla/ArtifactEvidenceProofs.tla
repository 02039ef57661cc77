------------------------ MODULE ArtifactEvidenceProofs ------------------------
(***************************************************************************)
(* Proofs about ArtifactEvidence, for any artifacts, formats, files,       *)
(* handlers, clients and bounds.                                           *)
(***************************************************************************)
EXTENDS ArtifactEvidence, NaturalsInduction, WellFoundedInduction, TLAPS

-----------------------------------------------------------------------------
(* The newest version of an artifact.                                      *)

LEMMA BoundedSetHasLargest ==
    ASSUME NEW n \in Nat, NEW T \in SUBSET (1..n), T # {}
    PROVE  \E m \in T : \A v \in T : v <= m
<1> DEFINE U == {n - v : v \in T}
<1>1. U \subseteq Nat /\ U # {}
  <2>1. \A v \in T : n - v \in Nat
    OBVIOUS
  <2>2. PICK v \in T : TRUE
    OBVIOUS
  <2>3. n - v \in U
    BY <2>2
  <2> QED  BY <2>1, <2>3
<1> DEFINE less == OpToRel(<, Nat)
<1>2. IsWellFoundedOn(less, Nat)
  BY NatLessThanWellFounded
<1>3. \A x, y \in Nat : x < y => <<x, y>> \in less
  BY DEF OpToRel
<1> HIDE DEF U, less
<1>4. PICK x \in U : \A y \in U : ~(<<y, x>> \in less)
  <2>1. \E x \in U : \A y \in U : ~(<<y, x>> \in less)
    BY ONLY <1>1, <1>2, WFMin, Zenon
  <2> QED  BY <2>1
<1>5. \A y \in U : x <= y
  <2>1. \A y \in U : ~(y < x)
    BY <1>1, <1>3, <1>4, Zenon
  <2> QED  BY <1>1, <2>1
<1>6. PICK m \in T : x = n - m
  BY DEF U
<1>7. \A v \in T : x <= n - v
  BY <1>5 DEF U
<1> QED  BY <1>6, <1>7

ArtifactsTypeOK == artifact \in [Artifacts -> [Versions -> Optional(RowsOf(Nat))]]

LEMMA LatestIsNewest ==
    ASSUME ArtifactsTypeOK, NEW a \in Artifacts
    PROVE  /\ LatestArtifactVersion(a) \in {0} \cup Versions
           /\ LatestArtifactVersion(a) # 0 => artifact[a][LatestArtifactVersion(a)] # NULL
           /\ \A v \in Versions : artifact[a][v] # NULL => v <= LatestArtifactVersion(a)
<1> DEFINE T == {v \in Versions : artifact[a][v] # NULL}
           L == LatestArtifactVersion(a)
<1>1. CASE T = {}
  BY <1>1 DEF LatestArtifactVersion
<1>2. CASE T # {}
  <2>1. PICK m \in T : \A v \in T : v <= m
    BY <1>2, BoundedSetHasLargest, BoundsAssumption DEF Versions
  <2>2. /\ L \in Versions /\ artifact[a][L] # NULL
        /\ \A w \in Versions : artifact[a][w] # NULL => w <= L
    <3> DEFINE P(v) == artifact[a][v] # NULL /\ \A w \in Versions : artifact[a][w] # NULL => w <= v
    <3>1. P(m) /\ m \in Versions
      BY <2>1
    <3>2. L = CHOOSE v \in Versions : P(v)
      BY <2>1 DEF LatestArtifactVersion
    <3> HIDE DEF P, L
    <3>3. L \in Versions /\ P(L)
      BY <3>1, <3>2
    <3> QED  BY <3>3 DEF P
  <2> QED  BY <2>2
<1> QED  BY <1>1, <1>2

-----------------------------------------------------------------------------
(* Rows.                                                                   *)

\* A version stays, and its checksums change only with its revision.
RowsStep ==
    \A a \in Artifacts, v \in Versions : artifact[a][v] # NULL =>
        /\ artifact'[a][v] # NULL
        /\ artifact'[a][v].revision >= artifact[a][v].revision
        /\ artifact'[a][v].revision = artifact[a][v].revision =>
                artifact'[a][v].checksum = artifact[a][v].checksum

\* The files that rows promise are in S.
RowFilesIn(S) ==
    \A a \in Artifacts, v \in Versions : artifact[a][v] # NULL =>
        \A f \in Formats : Promised(artifact[a][v], f) \subseteq S

LEMMA RowFacts ==
    /\ NULL \notin RowsOf(Nat)
    /\ NULL \notin Contents
    /\ \A r \in RowsOf(Nat) :
        /\ r.distributionIDs \in SUBSET Distributions
        /\ r.checksum \in [Formats -> Optional(Contents)]
        /\ r.signature \in [Formats -> Optional(Contents)]
        /\ r.revision \in Nat
  BY NULLAssumption DEF RowsOf

LEMMA NewRow ==
    ASSUME NEW source \in Sources, NEW ids \in SUBSET Distributions,
           NEW sums \in [Formats -> Optional(Contents)]
    PROVE  /\ Row(source, ids, sums) \in RowsOf(Nat)
           /\ Row(source, ids, sums).checksum = sums
           /\ Row(source, ids, sums).signature = [f \in Formats |-> NULL]
           /\ Row(source, ids, sums).source = source
  BY DEF Row, RowsOf, Optional

LEMMA StoredRows ==
    ASSUME ArtifactsTypeOK, NEW a \in Artifacts, NEW v \in Versions, NEW r, Store(a, v, r)
    PROVE  \A b \in Artifacts, w \in Versions :
                artifact'[b][w] = IF b = a /\ w = v THEN r ELSE artifact[b][w]
  BY DEF Store, ArtifactsTypeOK

LEMMA StoreNew ==
    ASSUME ArtifactsTypeOK, NEW a \in Artifacts, NEW v \in Versions, NEW r \in RowsOf(Nat),
           artifact[a][v] = NULL, Store(a, v, r)
    PROVE  ArtifactsTypeOK' /\ RowsStep
<1>1. ArtifactsTypeOK'
  BY DEF Store, ArtifactsTypeOK, Optional
<1>2. \A b \in Artifacts, w \in Versions :
        artifact[b][w] # NULL => artifact[b][w] \in RowsOf(Nat) /\ artifact'[b][w] = artifact[b][w]
  BY StoredRows DEF ArtifactsTypeOK, Optional
<1> QED  BY <1>1, <1>2, RowFacts DEF RowsStep

LEMMA StoreRevised ==
    ASSUME ArtifactsTypeOK, NEW a \in Artifacts, NEW v \in Versions, NEW r \in RowsOf(Nat),
           artifact[a][v] # NULL, r.revision = artifact[a][v].revision + 1, Store(a, v, r)
    PROVE  ArtifactsTypeOK' /\ RowsStep
<1>1. ArtifactsTypeOK'
  BY DEF Store, ArtifactsTypeOK, Optional
<1>2. \A b \in Artifacts, w \in Versions :
        artifact[b][w] # NULL =>
            /\ artifact[b][w] \in RowsOf(Nat)
            /\ artifact'[b][w] = IF b = a /\ w = v THEN r ELSE artifact[b][w]
  BY StoredRows DEF ArtifactsTypeOK, Optional
<1> QED  BY <1>1, <1>2, RowFacts DEF RowsStep

LEMMA StoreFiles ==
    ASSUME ArtifactsTypeOK, NEW a \in Artifacts, NEW v \in Versions, NEW r, Store(a, v, r),
           NEW S, RowFilesIn(S),
           \A f \in Formats : Promised(r, f) \subseteq S
    PROVE  RowFilesIn(S)'
<1> SUFFICES ASSUME NEW b \in Artifacts, NEW w \in Versions, artifact'[b][w] # NULL,
                    NEW f \in Formats
             PROVE  Promised(artifact'[b][w], f) \subseteq S
  BY DEF RowFilesIn, Promised
<1>1. artifact'[b][w] = IF b = a /\ w = v THEN r ELSE artifact[b][w]
  BY StoredRows
<1> QED  BY <1>1 DEF RowFilesIn

LEMMA ReplacedRows ==
    ASSUME NEW r \in RowsOf(Nat), NEW f \in Formats, NEW file \in Contents
    PROVE  /\ ReplacedChecksum(r, f, file) \in RowsOf(Nat)
           /\ ReplacedChecksum(r, f, file).source = r.source
           /\ ReplacedSignature(r, f, file).source = r.source
           /\ ReplacedChecksum(r, f, file).revision = r.revision + 1
           /\ ReplacedChecksum(r, f, file).signature = r.signature
           /\ ReplacedChecksum(r, f, file).checksum = [r.checksum EXCEPT ![f] = file]
           /\ ReplacedSignature(r, f, file) \in RowsOf(Nat)
           /\ ReplacedSignature(r, f, file).revision = r.revision + 1
           /\ ReplacedSignature(r, f, file).checksum = r.checksum
           /\ ReplacedSignature(r, f, file).signature = [r.signature EXCEPT ![f] = file]
<1>1. /\ [r.checksum EXCEPT ![f] = file] \in [Formats -> Optional(Contents)]
      /\ [r.signature EXCEPT ![f] = file] \in [Formats -> Optional(Contents)]
      /\ r.revision + 1 \in Nat
  BY RowFacts DEF Optional
<1> QED  BY <1>1 DEF ReplacedChecksum, ReplacedSignature, RowsOf

LEMMA WithoutRows ==
    ASSUME NEW r \in RowsOf(Nat), NEW d
    PROVE  /\ Without(r, d) \in RowsOf(Nat)
           /\ Without(r, d).source = r.source
           /\ Without(r, d).checksum = r.checksum
           /\ Without(r, d).signature = r.signature
           /\ Without(r, d).revision = r.revision
  BY DEF Without, RowsOf

LEMMA DeleteDistributionRows ==
    ASSUME ArtifactsTypeOK, NEW d, DeleteDistribution(d)
    PROVE  /\ ArtifactsTypeOK' /\ RowsStep
           /\ \A S : RowFilesIn(S) => RowFilesIn(S)'
<1>1. \A a \in Artifacts, v \in Versions :
        artifact'[a][v] = IF artifact[a][v] = NULL THEN NULL ELSE Without(artifact[a][v], d)
  BY DEF DeleteDistribution
<1>2. \A a \in Artifacts, v \in Versions : artifact[a][v] # NULL =>
        /\ artifact[a][v] \in RowsOf(Nat)
        /\ artifact'[a][v] \in RowsOf(Nat)
        /\ artifact'[a][v].source = artifact[a][v].source
        /\ artifact'[a][v].checksum = artifact[a][v].checksum
        /\ artifact'[a][v].signature = artifact[a][v].signature
        /\ artifact'[a][v].revision = artifact[a][v].revision
  BY <1>1, WithoutRows DEF ArtifactsTypeOK, Optional
<1>3. \A a \in Artifacts, v \in Versions : artifact[a][v] = NULL => artifact'[a][v] = NULL
  BY <1>1
<1>4. ArtifactsTypeOK'
  BY <1>2, <1>3 DEF DeleteDistribution, ArtifactsTypeOK, Optional
<1>5. RowsStep
  BY <1>2, RowFacts DEF RowsStep
<1>6. ASSUME NEW S, RowFilesIn(S) PROVE RowFilesIn(S)'
  BY <1>2, <1>3, <1>6 DEF RowFilesIn, Promised
<1> QED  BY <1>4, <1>5, <1>6

-----------------------------------------------------------------------------
(* Handlers.  An upload has put its file in the store, and then in the     *)
(* blob table, before it changes the row.                                  *)

UploadCalls ==
    [op : {"upload"}, step : {"checked", "stored", "booked"},
     what : {"checksum", "signature"}, artifact : Artifacts, version : Versions,
     format : Formats, file : Contents]

EvidenceCalls ==
    [op : {"evidence"}, step : {"reading"}, artifact : Artifacts, version : Versions,
     fingerprint : Fingerprints, next : 0..NumFormats + 1, form : Forms]

Prepared(x) ==
    /\ Exists(x.artifact, x.version)
    /\ x.op = "upload" /\ x.step # "checked" => x.file \in files
    /\ x.op = "upload" /\ x.step = "booked" => x.file \in blob

StoreInv ==
    /\ ArtifactsTypeOK
    /\ handler \in [Handlers -> Optional(Calls)]
    /\ \A h \in Handlers : handler[h] # NULL => Prepared(handler[h])
    /\ RowFilesIn(files \cap blob)

LEMMA CallKinds ==
    /\ Calls = UploadCalls \cup EvidenceCalls
    /\ \A x \in UploadCalls :
        /\ x.op = "upload" /\ x.artifact \in Artifacts /\ x.version \in Versions
        /\ x.format \in Formats /\ x.file \in Contents
    /\ \A x \in EvidenceCalls :
        /\ x.op = "evidence" /\ x.artifact \in Artifacts /\ x.version \in Versions
        /\ x.next \in 0..NumFormats + 1 /\ x.form \in Forms
  BY DEF Calls, UploadCalls, EvidenceCalls

LEMMA UnreadIsForm == Unread \in Forms
  BY DEF Unread, Forms, Optional

LEMMA PartType ==
    ASSUME NEW r \in RowsOf(Nat), NEW i \in Parts
    PROVE  Part(r, i) \in (SUBSET Distributions) \cup Optional(Contents)
<1>1. CASE i = 0
  BY <1>1, RowFacts DEF Part
<1>2. CASE i # 0
  <2>1. i \in Formats
    BY <1>2, BoundsAssumption DEF Parts, Formats
  <2> QED  BY <1>2, <2>1, RowFacts DEF Part
<1> QED  BY <1>1, <1>2

\* The rows stay, and only files are added.
LEMMA PreparedStays ==
    ASSUME RowsStep, files \subseteq files', blob \subseteq blob',
           NEW x \in Calls, Prepared(x)
    PROVE  Prepared(x)'
<1>1. x.artifact \in Artifacts /\ x.version \in Versions
  BY CallKinds
<1> QED  BY <1>1 DEF Prepared, RowsStep, Exists

LEMMA HandlersStay ==
    ASSUME StoreInv, RowsStep, files \subseteq files', blob \subseteq blob',
           UNCHANGED handler
    PROVE  /\ handler' \in [Handlers -> Optional(Calls)]
           /\ \A h \in Handlers : handler'[h] # NULL => Prepared(handler[h])'
<1> SUFFICES ASSUME NEW h \in Handlers, handler[h] # NULL
             PROVE  Prepared(handler[h])'
  BY DEF StoreInv
<1>1. PICK x \in Calls : x = handler[h]
  BY DEF StoreInv, Optional
<1>2. Prepared(x)'
  BY <1>1, PreparedStays DEF StoreInv
<1> QED  BY <1>1, <1>2

LEMMA HandlerMoves ==
    ASSUME StoreInv, RowsStep, files \subseteq files', blob \subseteq blob',
           NEW h \in Handlers, NEW x \in Optional(Calls), x # NULL => Prepared(x)',
           handler' = [handler EXCEPT ![h] = x]
    PROVE  /\ handler' \in [Handlers -> Optional(Calls)]
           /\ \A g \in Handlers : handler'[g] # NULL => Prepared(handler[g])'
<1>1. handler' \in [Handlers -> Optional(Calls)]
  BY DEF StoreInv
<1>2. ASSUME NEW g \in Handlers, handler'[g] # NULL
      PROVE  Prepared(handler[g])'
  <2>1. CASE g = h
    <3>1. handler'[g] = x
      BY <2>1 DEF StoreInv
    <3> QED  BY <1>2, <3>1
  <2>2. CASE g # h
    <3>1. PICK y \in Calls : y = handler[g] /\ y = handler'[g]
      BY <1>2, <2>2 DEF StoreInv, Optional
    <3>2. y # NULL
      BY <1>2, <3>1
    <3>3. Prepared(y)'
      BY <3>1, <3>2, PreparedStays DEF StoreInv
    <3> QED  BY <3>1, <3>3
  <2> QED  BY <2>1, <2>2
<1> QED  BY <1>1, <1>2

LEMMA UnchangedRows ==
    ASSUME ArtifactsTypeOK, UNCHANGED artifact
    PROVE  /\ ArtifactsTypeOK' /\ RowsStep
           /\ \A S : RowFilesIn(S) => RowFilesIn(S)'
<1>1. \A a \in Artifacts, v \in Versions : artifact[a][v] # NULL => artifact[a][v].revision \in Nat
  BY RowFacts DEF ArtifactsTypeOK, Optional
<1>2. ArtifactsTypeOK' /\ RowsStep
  BY <1>1 DEF ArtifactsTypeOK, RowsStep
<1>3. ASSUME NEW S, RowFilesIn(S) PROVE RowFilesIn(S)'
  BY <1>3 DEF RowFilesIn, Promised
<1> QED  BY <1>2, <1>3

LEMMA MoreFiles ==
    ASSUME NEW S, NEW T, S \subseteq T, RowFilesIn(S)
    PROVE  RowFilesIn(T)
  BY DEF RowFilesIn

\* A step that adds files and leaves the handlers alone.
LEMMA StoreInvStays ==
    ASSUME StoreInv, ArtifactsTypeOK', RowsStep, files \subseteq files', blob \subseteq blob',
           UNCHANGED handler, NEW S, S = files' \cap blob', RowFilesIn(S)'
    PROVE  StoreInv'
<1>1. RowFilesIn(files \cap blob)'
  BY DEF RowFilesIn, Promised
<1> QED  BY <1>1, HandlersStay DEF StoreInv

\* A step of one handler.
LEMMA StoreInvMoves ==
    ASSUME StoreInv, ArtifactsTypeOK', RowsStep, files \subseteq files', blob \subseteq blob',
           NEW h \in Handlers, NEW x \in Optional(Calls), x # NULL => Prepared(x)',
           handler' = [handler EXCEPT ![h] = x],
           NEW S, S = files' \cap blob', RowFilesIn(S)'
    PROVE  StoreInv'
<1>1. RowFilesIn(files \cap blob)'
  BY DEF RowFilesIn, Promised
<1> QED  BY <1>1, HandlerMoves DEF StoreInv

LEMMA VersionStored ==
    ASSUME StoreInv, distribution \subseteq Distributions, NextVersion
    PROVE  StoreInv' /\ RowsStep
<1> DEFINE none == [f \in Formats |-> NULL]
<1>0. none \in [Formats -> Optional(Contents)]
  BY DEF Optional
<1>1. ASSUME NEW a \in Artifacts, NEW v \in Versions, NEW ids \in SUBSET Distributions,
             artifact[a][v] = NULL, Store(a, v, Row("created", ids, none)),
             UNCHANGED <<files, blob, handler>>
      PROVE  StoreInv' /\ RowsStep
  <2>1. /\ Row("created", ids, none) \in RowsOf(Nat)
        /\ Row("created", ids, none).checksum = none
        /\ Row("created", ids, none).signature = none
        /\ \A f \in Formats : Promised(Row("created", ids, none), f) = {}
    BY <1>0, NewRow DEF Sources, Promised
  <2>2. ArtifactsTypeOK' /\ RowsStep
    BY <1>1, <2>1, StoreNew DEF StoreInv
  <2>3. PICK S : S = files \cap blob
    OBVIOUS
  <2>4. RowFilesIn(S)'
    BY <1>1, <2>1, <2>3, StoreFiles DEF StoreInv
  <2> QED  BY <1>1, <2>2, <2>3, <2>4, StoreInvStays
<1>2. ASSUME NEW a \in Artifacts, NEW ids \in SUBSET Distributions, CreateArtifact(a, ids)
      PROVE  StoreInv' /\ RowsStep
  <2>1. 1 \in Versions /\ artifact[a][1] = NULL
    <3>1. LatestArtifactVersion(a) = 0 /\ 1 \in Versions
      BY <1>2 DEF CreateArtifact
    <3>2. ~(1 <= 0)
      OBVIOUS
    <3> QED  BY <3>1, <3>2, LatestIsNewest DEF StoreInv
  <2> QED  BY <1>1, <1>2, <2>1 DEF CreateArtifact
<1>3. ASSUME NEW a \in Artifacts, NEW ids \in SUBSET Distributions, NEW p,
             CreateArtifactVersion(a, p, ids)
      PROVE  StoreInv' /\ RowsStep
  <2> DEFINE v == LatestArtifactVersion(a) + 1
  <2>1. v \in Versions /\ artifact[a][v] = NULL
    <3>1. v \in Versions
      BY <1>3 DEF CreateArtifactVersion
    <3>2. LatestArtifactVersion(a) \in Nat
      BY LatestIsNewest DEF StoreInv, Versions
    <3>3. ~(v <= LatestArtifactVersion(a))
      BY <3>2
    <3> QED  BY <3>1, <3>3, LatestIsNewest DEF StoreInv
  <2> QED  BY <1>1, <1>3, <2>1 DEF CreateArtifactVersion
<1>4. ASSUME NEW a \in Artifacts, NEW v \in Versions, NEW source \in ImportSources,
             NEW ids \in SUBSET Distributions, NEW file \in Contents,
             ImportArtifact(a, v, source, ids, file)
      PROVE  StoreInv' /\ RowsStep
  <2>1. /\ UNCHANGED handler
        /\ files' = files \cup Embedded(source, file)
        /\ blob' = blob \cup Embedded(source, file)
    BY <1>4 DEF ImportArtifact
  <2>2. PICK S : S = files' \cap blob'
    OBVIOUS
  <2>3. RowFilesIn(S)
    <3>1. files \cap blob \subseteq S
      BY <2>1, <2>2
    <3> QED  BY <3>1, MoreFiles DEF StoreInv
  <2>4. CASE artifact[a][v] # NULL
    <3>1. UNCHANGED artifact
      BY <1>4, <2>4 DEF ImportArtifact
    <3> QED  BY <2>1, <2>2, <2>3, <3>1, UnchangedRows, StoreInvStays DEF StoreInv
  <2>5. CASE artifact[a][v] = NULL
    <3> DEFINE sums == [f \in Formats |-> IF source = "external" THEN NULL ELSE file]
    <3>1. Store(a, v, Row(source, ids, sums))
      BY <1>4, <2>5 DEF ImportArtifact, Imported
    <3>2. sums \in [Formats -> Optional(Contents)] /\ source \in Sources
      BY ImportSourcesAssumption DEF Optional
    <3>3. \A f \in Formats : source # "referenced" => {sums[f]} \ {NULL} \subseteq S
      BY <2>1, <2>2, <3>2, ImportSourcesAssumption DEF Embedded, Sources
    <3> HIDE DEF sums
    <3>4. /\ Row(source, ids, sums) \in RowsOf(Nat)
          /\ Row(source, ids, sums).checksum = sums
          /\ Row(source, ids, sums).signature = none
          /\ Row(source, ids, sums).source = source
      BY <3>2, NewRow
    <3>7. \A f \in Formats : Promised(Row(source, ids, sums), f) \subseteq S
      BY <3>3, <3>4 DEF Promised
    <3>5. ArtifactsTypeOK' /\ RowsStep
      BY <2>5, <3>1, <3>4, StoreNew DEF StoreInv
    <3>6. RowFilesIn(S)'
      BY <2>3, <3>1, <3>7, StoreFiles DEF StoreInv
    <3> QED  BY <2>1, <2>2, <3>5, <3>6, StoreInvStays
  <2> QED  BY <2>4, <2>5
<1> QED  BY <1>2, <1>3, <1>4 DEF NextVersion

LEMMA UploadStored ==
    ASSUME StoreInv, NEW h \in Handlers, NextUpload(h)
    PROVE  StoreInv' /\ RowsStep
<1>0. PICK c : c = handler[h]
  OBVIOUS
<1>1. PICK S : S = files \cap blob
  OBVIOUS
<1>2. RowFilesIn(S)
  BY <1>1 DEF StoreInv
<1>3. ASSUME NEW step, At(h, "upload", step)
      PROVE  c \in UploadCalls /\ c.step = step /\ Prepared(c)
  BY <1>0, <1>3, CallKinds DEF StoreInv, At, Optional
<1>4. ASSUME NEW api, NEW what \in {"checksum", "signature"}, NEW a \in Artifacts,
             NEW v \in Versions, NEW f \in Formats, NEW file \in Contents,
             UploadFile(h, api, what, a, v, f, file)
      PROVE  StoreInv' /\ RowsStep
  <2> DEFINE x == [op |-> "upload", step |-> "checked", what |-> what, artifact |-> a,
                   version |-> v, format |-> f, file |-> file]
  <2>1. handler' = [handler EXCEPT ![h] = x] /\ UNCHANGED <<artifact, files, blob>>
    BY <1>4 DEF UploadFile, Goto
  <2>2. x \in Optional(Calls)
    BY CallKinds DEF UploadCalls, Optional
  <2>3. Prepared(x)'
    BY <1>4 DEF UploadFile, Prepared, Exists
  <2> HIDE DEF x
  <2>4. ArtifactsTypeOK' /\ RowsStep /\ RowFilesIn(S)'
    BY <1>2, <2>1, UnchangedRows DEF StoreInv
  <2> QED  BY <1>1, <2>1, <2>2, <2>3, <2>4, StoreInvMoves
<1>5. CASE Put(h)
  <2>0. PICK x : x = [c EXCEPT !.step = "stored"]
    OBVIOUS
  <2>1. /\ handler' = [handler EXCEPT ![h] = x] /\ UNCHANGED <<artifact, blob>>
        /\ files' = files \cup {c.file} /\ At(h, "upload", "checked")
    BY <1>0, <1>5, <2>0 DEF Put, Goto
  <2>2. c \in UploadCalls /\ Prepared(c)
    BY <1>3, <2>1
  <2>3. /\ x \in UploadCalls /\ x.artifact = c.artifact /\ x.version = c.version
        /\ x.file = c.file /\ x.step = "stored"
    BY <2>0, <2>2 DEF UploadCalls
  <2>4. ArtifactsTypeOK' /\ RowsStep /\ \A T : RowFilesIn(T) => RowFilesIn(T)'
    BY <2>1, UnchangedRows DEF StoreInv
  <2>5. x \in Optional(Calls) /\ Prepared(x)'
    <3>1. Exists(c.artifact, c.version)'
      BY <2>1, <2>2 DEF Prepared, Exists
    <3> QED  BY <2>1, <2>3, <3>1, CallKinds DEF Prepared, Optional, Exists
  <2>6. PICK T : T = files' \cap blob'
    OBVIOUS
  <2>7. RowFilesIn(T)'
    <3>1. S \subseteq T
      BY <1>1, <2>1, <2>6
    <3>2. RowFilesIn(T)
      BY <1>2, <3>1, MoreFiles
    <3> QED  BY <2>4, <3>2
  <2> QED  BY <2>1, <2>4, <2>5, <2>6, <2>7, StoreInvMoves
<1>6. CASE UpsertBlob(h)
  <2>0. PICK x : x = [c EXCEPT !.step = "booked"]
    OBVIOUS
  <2>1. /\ handler' = [handler EXCEPT ![h] = x] /\ UNCHANGED <<artifact, files>>
        /\ blob' = blob \cup {c.file} /\ At(h, "upload", "stored")
    BY <1>0, <1>6, <2>0 DEF UpsertBlob, Goto
  <2>2. c \in UploadCalls /\ Prepared(c) /\ c.step = "stored"
    BY <1>3, <2>1
  <2>3. /\ x \in UploadCalls /\ x.artifact = c.artifact /\ x.version = c.version
        /\ x.file = c.file /\ x.step = "booked"
    BY <2>0, <2>2 DEF UploadCalls
  <2>4. ArtifactsTypeOK' /\ RowsStep /\ \A T : RowFilesIn(T) => RowFilesIn(T)'
    BY <2>1, UnchangedRows DEF StoreInv
  <2>5. x \in Optional(Calls) /\ Prepared(x)'
    <3>1. Exists(c.artifact, c.version)' /\ c.file \in files
      BY <2>1, <2>2, CallKinds DEF Prepared, Exists
    <3> QED  BY <2>1, <2>3, <3>1, CallKinds DEF Prepared, Optional, Exists
  <2>6. PICK T : T = files' \cap blob'
    OBVIOUS
  <2>7. RowFilesIn(T)'
    <3>1. S \subseteq T
      BY <1>1, <2>1, <2>6
    <3>2. RowFilesIn(T)
      BY <1>2, <3>1, MoreFiles
    <3> QED  BY <2>4, <3>2
  <2> QED  BY <2>1, <2>4, <2>5, <2>6, <2>7, StoreInvMoves
<1>7. CASE SetArtifactFormatFile(h) \/ SetArtifactFormatSignatureFile(h)
  <2> DEFINE r == artifact[c.artifact][c.version]
  <2>1. /\ handler' = [handler EXCEPT ![h] = NULL] /\ UNCHANGED <<files, blob>>
        /\ At(h, "upload", "booked")
        /\ \/ Store(c.artifact, c.version, ReplacedChecksum(r, c.format, c.file))
           \/ Store(c.artifact, c.version, ReplacedSignature(r, c.format, c.file))
    BY <1>0, <1>7 DEF SetArtifactFormatFile, SetArtifactFormatSignatureFile, Done
  <2>2. c \in UploadCalls /\ Prepared(c) /\ c.step = "booked"
    BY <1>3, <2>1
  <2>3. /\ c.artifact \in Artifacts /\ c.version \in Versions /\ c.format \in Formats
        /\ c.file \in Contents /\ c.file \in S /\ r # NULL
    BY <1>1, <2>2, CallKinds DEF Prepared, Exists
  <2>4. r \in RowsOf(Nat)
    BY <2>3 DEF StoreInv, ArtifactsTypeOK, Optional
  <2> DEFINE r1 == ReplacedChecksum(r, c.format, c.file)
             r2 == ReplacedSignature(r, c.format, c.file)
  <2>5. /\ r1.source = r.source /\ r2.source = r.source
        /\ r1 \in RowsOf(Nat) /\ r1.revision = r.revision + 1 /\ r1.signature = r.signature
        /\ r1.checksum = [r.checksum EXCEPT ![c.format] = c.file]
        /\ r2 \in RowsOf(Nat) /\ r2.revision = r.revision + 1 /\ r2.checksum = r.checksum
        /\ r2.signature = [r.signature EXCEPT ![c.format] = c.file]
    BY <2>3, <2>4, ReplacedRows
  <2>6. \A f \in Formats : Promised(r, f) \subseteq S
    BY <1>2, <2>3 DEF RowFilesIn
  <2> HIDE DEF r, r1, r2
  <2>7. \A f \in Formats : Promised(r1, f) \subseteq S /\ Promised(r2, f) \subseteq S
    <3> SUFFICES ASSUME NEW f \in Formats
                 PROVE  Promised(r1, f) \subseteq S /\ Promised(r2, f) \subseteq S
      OBVIOUS
    <3>1. /\ r1.checksum[f] \in {r.checksum[f], c.file}
          /\ r2.signature[f] \in {r.signature[f], c.file}
      BY <2>3, <2>4, <2>5, RowFacts
    <3> QED  BY <2>3, <2>5, <2>6, <3>1 DEF Promised
  <2> USE DEF r
  <2>8. ArtifactsTypeOK' /\ RowsStep
    BY <2>1, <2>3, <2>5, StoreRevised DEF StoreInv, r1, r2
  <2>9. RowFilesIn(S)'
    BY <1>2, <2>1, <2>3, <2>7, StoreFiles DEF StoreInv, r1, r2
  <2> QED  BY <1>1, <2>1, <2>8, <2>9, StoreInvMoves DEF Optional
<1> QED  BY <1>4, <1>5, <1>6, <1>7 DEF NextUpload

\* The row that a handler reads, part by part.
LEMMA PartReadType ==
    ASSUME StoreInv, NEW x \in EvidenceCalls, x.next \in Parts, Prepared(x)
    PROVE  /\ PartRead(x) \in EvidenceCalls
           /\ PartRead(x).artifact = x.artifact /\ PartRead(x).version = x.version
<1> DEFINE r == artifact[x.artifact][x.version]
           p == Part(r, x.next)
<1>1. r \in RowsOf(Nat)
  BY CallKinds DEF StoreInv, ArtifactsTypeOK, Optional, Prepared, Exists
<1>2. p \in (SUBSET Distributions) \cup Optional(Contents)
  BY <1>1, PartType
<1>3. PartRead(x) = [x EXCEPT !.form[x.next] = p, !.next = @ + 1]
  BY DEF PartRead
<1> HIDE DEF p, r
<1>4. [x.form EXCEPT ![x.next] = p] \in Forms
  BY <1>2, CallKinds DEF Forms
<1>5. x.next + 1 \in 0..NumFormats + 1
  BY BoundsAssumption DEF Parts
<1> QED  BY <1>3, <1>4, <1>5 DEF EvidenceCalls

LEMMA EvidenceStored ==
    ASSUME StoreInv, NEW h \in Handlers, NextEvidence(h) \/ Abandon(h)
    PROVE  StoreInv' /\ RowsStep
<1>1. PICK S : S = files \cap blob
  OBVIOUS
<1>2. UNCHANGED <<artifact, files, blob>>
  BY DEF NextEvidence, SubmitArtifactEvidence, ReadPart, CreateEvidenceBundle, Abandon
<1>3. ArtifactsTypeOK' /\ RowsStep /\ RowFilesIn(S)'
  BY <1>1, <1>2, UnchangedRows DEF StoreInv
<1>4. ASSUME NEW a \in Artifacts, NEW v \in Versions, NEW fp \in Fingerprints,
             SubmitArtifactEvidence(h, a, v, fp)
      PROVE  StoreInv'
  <2> DEFINE x == [op |-> "evidence", step |-> "reading", artifact |-> a, version |-> v,
                   fingerprint |-> fp, next |-> 0, form |-> Unread]
  <2>1. handler' = [handler EXCEPT ![h] = x]
    BY <1>4 DEF SubmitArtifactEvidence, Goto
  <2>2. 0 \in 0..NumFormats + 1
    BY BoundsAssumption
  <2>3. x \in Optional(Calls)
    BY <2>2, CallKinds, UnreadIsForm DEF EvidenceCalls, Optional
  <2>4. Prepared(x)'
    BY <1>2, <1>4 DEF SubmitArtifactEvidence, Prepared, Exists
  <2> HIDE DEF x
  <2> QED  BY <1>1, <1>2, <1>3, <2>1, <2>3, <2>4, StoreInvMoves
<1>5. CASE ReadPart(h)
  <2>1. PICK c : c = handler[h]
    OBVIOUS
  <2>2. PICK x : x = PartRead(c)
    OBVIOUS
  <2>3. c \in EvidenceCalls /\ c.next \in Parts /\ Prepared(c)
    BY <1>5, <2>1, CallKinds DEF ReadPart, At, StoreInv, Optional
  <2>4. x \in EvidenceCalls /\ x.artifact = c.artifact /\ x.version = c.version
    BY <2>2, <2>3, PartReadType
  <2>5. handler' = [handler EXCEPT ![h] = x]
    BY <1>5, <2>1, <2>2 DEF ReadPart, Goto
  <2>6. x \in Optional(Calls) /\ Prepared(x)'
    BY <1>2, <2>3, <2>4, CallKinds DEF Prepared, Exists, Optional
  <2> QED  BY <1>1, <1>2, <1>3, <2>5, <2>6, StoreInvMoves
<1>6. CASE CreateEvidenceBundle(h) \/ Abandon(h)
  <2>1. handler' = [handler EXCEPT ![h] = NULL]
    BY <1>6 DEF CreateEvidenceBundle, Abandon, Done
  <2> QED  BY <1>1, <1>2, <1>3, <2>1, StoreInvMoves DEF Optional
<1> QED  BY <1>3, <1>4, <1>5, <1>6 DEF NextEvidence

LEMMA ReadChangesNothing ==
    ASSUME NEW c \in Clients, NextRead(c)
    PROVE  UNCHANGED <<artifact, distribution, files, blob, evidence, handler, accepted>>
  BY DEF NextRead, Get, NotModified, Conditional, GetArtifact, ReadOn, WriteJSON, Keep,
         GetArtifactFormatForDownload, StreamBlob, GiveUp

LEMMA NextStored ==
    ASSUME StoreInv, distribution \subseteq Distributions, [Next]_vars
    PROVE  /\ StoreInv' /\ RowsStep
           /\ distribution' \subseteq Distributions
           /\ UNCHANGED <<request, copy>> \/ \E c \in Clients : NextRead(c)
<1>1. PICK S : S = files' \cap blob'
  OBVIOUS
<1>2. CASE NextVersion
  <2>1. UNCHANGED <<distribution, request, copy>>
    BY <1>2 DEF NextVersion, CreateArtifact, CreateArtifactVersion, ImportArtifact
  <2> QED  BY <1>2, <2>1, VersionStored
<1>3. CASE \E file \in Contents : ImportRolledBack(file)
  <2>1. /\ UNCHANGED <<artifact, distribution, blob, handler, request, copy>>
        /\ files \subseteq files'
    BY <1>3 DEF ImportRolledBack
  <2>2. RowFilesIn(S)
    <3>1. files \cap blob \subseteq S
      BY <1>1, <2>1
    <3> QED  BY <3>1, MoreFiles DEF StoreInv
  <2> QED  BY <1>1, <2>1, <2>2, UnchangedRows, StoreInvStays DEF StoreInv
<1>4. CASE \E d \in Distributions : DeleteDistribution(d)
  <2>1. /\ UNCHANGED <<files, blob, handler, request, copy>>
        /\ distribution' \subseteq Distributions
    BY <1>4 DEF DeleteDistribution
  <2>2. ArtifactsTypeOK' /\ RowsStep /\ RowFilesIn(S)'
    BY <1>1, <1>4, <2>1, DeleteDistributionRows DEF StoreInv
  <2> QED  BY <1>1, <2>1, <2>2, StoreInvStays
<1>5. ASSUME NEW h \in Handlers, NextUpload(h) \/ NextEvidence(h) \/ Abandon(h)
      PROVE  /\ StoreInv' /\ RowsStep
             /\ distribution' \subseteq Distributions
             /\ UNCHANGED <<request, copy>>
  <2>1. UNCHANGED <<distribution, request, copy>>
    BY <1>5 DEF NextUpload, NextEvidence, Abandon, UploadFile, Put, UpsertBlob,
                SetArtifactFormatFile, SetArtifactFormatSignatureFile,
                SubmitArtifactEvidence, ReadPart, CreateEvidenceBundle
  <2> QED  BY <1>5, <2>1, UploadStored, EvidenceStored
<1>6. CASE UNCHANGED vars \/ \E c \in Clients : NextRead(c)
  <2>1. UNCHANGED <<artifact, distribution, files, blob, handler>>
    BY <1>6, ReadChangesNothing DEF vars
  <2>2. UNCHANGED <<request, copy>> \/ \E c \in Clients : NextRead(c)
    BY <1>6 DEF vars
  <2> QED  BY <1>1, <2>1, <2>2, UnchangedRows, StoreInvStays DEF StoreInv
<1> QED  BY <1>2, <1>3, <1>4, <1>5, <1>6 DEF Next

-----------------------------------------------------------------------------
(* Clients.  The ETag is made of the version that the URL stood for and of *)
(* its revision, before the body is read: neither is ever ahead of what    *)
(* they are now, and if both are what they are now, so is the body.        *)

Named(u, v) ==
    /\ v \in Versions
    /\ artifact[u.artifact][v] # NULL
    /\ v <= Resolve(u)
    /\ u.version # 0 => v = u.version

Tagged(u, e) ==
    /\ e \in Versions \X Nat
    /\ Named(u, e[1])
    /\ e[2] <= artifact[u.artifact][e[1]].revision

Current(u, e, v, form, n) ==
    e = ETag(u.artifact, Resolve(u)) =>
        /\ v = Resolve(u)
        /\ \A f \in Formats :
            f < n => form[f] = artifact[u.artifact][Resolve(u)].checksum[f]

ReadInv(x) ==
    /\ x.artifact = x.url.artifact
    /\ Named(x.url, x.version)
    /\ x.url.kind = "artifact" => x.form \in Forms
    /\ x.step \in {"resolved", "located", "tagged"} => x.next = 0
    /\ x.url.kind = "artifact" /\ x.step \in {"tagged", "reading"} => Tagged(x.url, x.etag)
    /\ x.step = "reading" =>
        x.url.kind = "artifact" /\ Current(x.url, x.etag, x.version, x.form, x.next)

CopyInv(k) ==
    /\ k.url \in Reads
    /\ k.url.kind = "artifact" =>
        Tagged(k.url, k.etag) /\ Current(k.url, k.etag, k.version, k.body, NumFormats + 1)

ReadRequests ==
    [step : {"resolved", "located", "tagged", "reading"}, url : Reads,
     artifact : Artifacts, version : Versions, etag : Optional(Versions \X Nat),
     next : 0..NumFormats + 1, form : Forms \cup Contents]

ClientsInv ==
    /\ request \in [Clients -> Optional(ReadRequests)]
    /\ DOMAIN copy = Clients
    /\ \A c \in Clients : request[c] # NULL => ReadInv(request[c])
    /\ \A c \in Clients : copy[c] # NULL => CopyInv(copy[c])

\* As a formula, which holds of the next state as well.
LEMMA LatestIsAlwaysNewest ==
    ArtifactsTypeOK => \A a \in Artifacts :
            /\ LatestArtifactVersion(a) \in {0} \cup Versions
            /\ \A v \in Versions : artifact[a][v] # NULL => v <= LatestArtifactVersion(a)
  BY LatestIsNewest

LEMMA ReadURL ==
    ASSUME NEW u \in Reads
    PROVE  u.artifact \in Artifacts /\ u.version \in {0} \cup Versions /\ u.format \in Formats
  BY ReadsAssumption DEF URLs

\* A URL of the latest version moves on to newer versions only.
LEMMA ResolveGrows ==
    ASSUME ArtifactsTypeOK, ArtifactsTypeOK', RowsStep, NEW u \in Reads
    PROVE  /\ Resolve(u) \in Nat /\ Resolve(u)' \in Nat
           /\ Resolve(u) <= Resolve(u)'
           /\ u.version # 0 => Resolve(u) = u.version
<1>1. u.artifact \in Artifacts /\ u.version \in {0} \cup Versions
  BY ReadURL
<1>2. CASE u.version # 0
  BY <1>1, <1>2 DEF Resolve, Versions
<1>3. CASE u.version = 0
  <2> DEFINE L == LatestArtifactVersion(u.artifact)
  <2>1. /\ L \in {0} \cup Versions
        /\ L # 0 => artifact[u.artifact][L] # NULL
    BY <1>1, LatestIsNewest
  <2>2. ArtifactsTypeOK' => (\A a \in Artifacts :
            /\ LatestArtifactVersion(a) \in {0} \cup Versions
            /\ \A v \in Versions : artifact[a][v] # NULL => v <= LatestArtifactVersion(a))'
    BY LatestIsAlwaysNewest, PTL
  <2>3. /\ L' \in {0} \cup Versions
        /\ \A v \in Versions : artifact'[u.artifact][v] # NULL => v <= L'
    BY <1>1, <2>2
  <2>4. L <= L'
    <3>1. CASE L = 0
      BY <2>3, <3>1 DEF Versions
    <3>2. CASE L # 0
      <4>1. artifact'[u.artifact][L] # NULL /\ L \in Versions
        BY <1>1, <2>1, <3>2 DEF RowsStep
      <4> QED  BY <2>3, <4>1
    <3> QED  BY <3>1, <3>2
  <2>5. Resolve(u) = L /\ Resolve(u)' = L'
    BY <1>3 DEF Resolve
  <2> QED  BY <1>3, <2>1, <2>3, <2>4, <2>5 DEF Versions
<1> QED  BY <1>2, <1>3

LEMMA RowAt ==
    ASSUME ArtifactsTypeOK, NEW u \in Reads, NEW v, Named(u, v)
    PROVE  artifact[u.artifact][v] \in RowsOf(Nat) /\ artifact[u.artifact][v].revision \in Nat
  BY ReadURL, RowFacts DEF Named, ArtifactsTypeOK, Optional

LEMMA NamedStays ==
    ASSUME ArtifactsTypeOK, ArtifactsTypeOK', RowsStep, NEW u \in Reads, NEW v, Named(u, v)
    PROVE  Named(u, v)'
<1>1. Resolve(u) \in Nat /\ Resolve(u)' \in Nat /\ Resolve(u) <= Resolve(u)'
  BY ResolveGrows
<1>2. v \in Nat /\ v <= Resolve(u)'
  BY <1>1 DEF Named, Versions
<1>3. artifact'[u.artifact][v] # NULL
  BY ReadURL DEF Named, RowsStep
<1> QED  BY <1>2, <1>3 DEF Named

LEMMA TaggedStays ==
    ASSUME ArtifactsTypeOK, ArtifactsTypeOK', RowsStep, NEW u \in Reads, NEW e, Tagged(u, e)
    PROVE  Tagged(u, e)'
<1>1. Named(u, e[1])' /\ Named(u, e[1]) /\ e[1] \in Versions /\ e[2] \in Nat
  BY NamedStays DEF Tagged
<1>2. PICK v : v = e[1]
  OBVIOUS
<1>3. /\ artifact[u.artifact][v].revision \in Nat
      /\ artifact'[u.artifact][v].revision >= artifact[u.artifact][v].revision
      /\ artifact'[u.artifact][v].revision \in Nat
  <2>1. u.artifact \in Artifacts /\ v \in Versions /\ artifact[u.artifact][v] # NULL
    BY <1>1, <1>2, ReadURL DEF Named
  <2>2. artifact'[u.artifact][v] # NULL
    BY <2>1 DEF RowsStep
  <2>3. artifact[u.artifact][v] \in RowsOf(Nat) /\ artifact'[u.artifact][v] \in RowsOf(Nat)
    BY <2>1, <2>2 DEF ArtifactsTypeOK, Optional
  <2> QED  BY <2>1, <2>3, RowFacts DEF RowsStep
<1>4. e[2] <= artifact'[u.artifact][v].revision
  BY <1>1, <1>2, <1>3 DEF Tagged
<1> QED  BY <1>1, <1>2, <1>4 DEF Tagged

LEMMA CurrentStays ==
    ASSUME ArtifactsTypeOK, ArtifactsTypeOK', RowsStep, NEW u \in Reads, NEW e, Tagged(u, e),
           NEW v, NEW form, NEW n, Current(u, e, v, form, n)
    PROVE  Current(u, e, v, form, n)'
<1> SUFFICES ASSUME e = ETag(u.artifact, Resolve(u))'
             PROVE  /\ v = Resolve(u)'
                    /\ \A f \in Formats :
                        f < n => form[f] = artifact'[u.artifact][Resolve(u)'].checksum[f]
  BY DEF Current
<1>1. PICK w : w = e[1]
  OBVIOUS
<1>2. w = Resolve(u)' /\ e[2] = artifact'[u.artifact][w].revision
  BY <1>1 DEF ETag
<1>3. /\ w \in Versions /\ w \in Nat /\ w <= Resolve(u) /\ artifact[u.artifact][w] # NULL
      /\ e[2] \in Nat /\ e[2] <= artifact[u.artifact][w].revision /\ Named(u, w)
  BY <1>1 DEF Tagged, Named, Versions
<1>4. w = Resolve(u)
  BY <1>2, <1>3, ResolveGrows
<1>5. artifact[u.artifact][w].revision \in Nat
  BY <1>3, RowAt
<1>6. artifact'[u.artifact][w].revision >= artifact[u.artifact][w].revision
  BY <1>3, ReadURL DEF RowsStep
<1>7. artifact'[u.artifact][w].revision = artifact[u.artifact][w].revision
  BY <1>2, <1>3, <1>5, <1>6
<1>8. artifact'[u.artifact][w].checksum = artifact[u.artifact][w].checksum
  BY <1>3, <1>7, ReadURL DEF RowsStep
<1>9. e = ETag(u.artifact, Resolve(u))
  <2>1. e = <<e[1], e[2]>>
    BY DEF Tagged
  <2> QED  BY <1>1, <1>2, <1>4, <1>7, <2>1 DEF ETag
<1> QED  BY <1>2, <1>4, <1>8, <1>9 DEF Current

LEMMA ReadInvStays ==
    ASSUME ArtifactsTypeOK, ArtifactsTypeOK', RowsStep, NEW x \in ReadRequests, ReadInv(x)
    PROVE  ReadInv(x)'
<1>1. x.url \in Reads
  BY DEF ReadRequests
<1>2. Named(x.url, x.version)'
  BY <1>1, NamedStays DEF ReadInv
<1>3. x.url.kind = "artifact" /\ x.step \in {"tagged", "reading"} => Tagged(x.url, x.etag)'
  BY <1>1, TaggedStays DEF ReadInv
<1>4. x.step = "reading" => Current(x.url, x.etag, x.version, x.form, x.next)'
  BY <1>1, CurrentStays DEF ReadInv
<1> QED  BY <1>2, <1>3, <1>4 DEF ReadInv

LEMMA CopyInvStays ==
    ASSUME ArtifactsTypeOK, ArtifactsTypeOK', RowsStep, NEW k, CopyInv(k)
    PROVE  CopyInv(k)'
<1>1. k.url.kind = "artifact" => Tagged(k.url, k.etag)'
  BY TaggedStays DEF CopyInv
<1>2. k.url.kind = "artifact" =>
        Current(k.url, k.etag, k.version, k.body, NumFormats + 1)'
  BY CurrentStays DEF CopyInv
<1> QED  BY <1>1, <1>2 DEF CopyInv

LEMMA ClientsStay ==
    ASSUME ArtifactsTypeOK, ArtifactsTypeOK', RowsStep, ClientsInv, UNCHANGED <<request, copy>>
    PROVE  ClientsInv'
<1>1. ASSUME NEW c \in Clients, request'[c] # NULL PROVE ReadInv(request[c])'
  <2>1. PICK x \in ReadRequests : x = request[c] /\ x = request'[c]
    BY <1>1 DEF ClientsInv, Optional
  <2>2. ReadInv(x)
    BY <1>1, <2>1 DEF ClientsInv
  <2>3. ReadInv(x)'
    BY <2>2, ReadInvStays
  <2> QED  BY <2>1, <2>3
<1>2. ASSUME NEW c \in Clients, copy'[c] # NULL PROVE CopyInv(copy[c])'
  <2>1. PICK k : k = copy[c] /\ k = copy'[c]
    OBVIOUS
  <2>2. CopyInv(k)
    BY <1>2, <2>1 DEF ClientsInv
  <2>3. CopyInv(k)'
    BY <2>2, CopyInvStays
  <2> QED  BY <2>1, <2>3
<1> QED  BY <1>1, <1>2 DEF ClientsInv

\* A step of the read of client c, which changes no row.
LEMMA ReadMoves ==
    ASSUME ArtifactsTypeOK, ClientsInv, UNCHANGED artifact, NEW c \in Clients,
           NEW x \in Optional(ReadRequests), x # NULL => ReadInv(x),
           request' = [request EXCEPT ![c] = x],
           \/ UNCHANGED copy
           \/ \E k : copy' = [copy EXCEPT ![c] = k] /\ CopyInv(k)
    PROVE  ClientsInv'
<1>1. ArtifactsTypeOK' /\ RowsStep
  BY UnchangedRows
<1>2. request' \in [Clients -> Optional(ReadRequests)] /\ DOMAIN copy' = Clients
  BY DEF ClientsInv
<1>3. ASSUME NEW d \in Clients, request'[d] # NULL PROVE ReadInv(request[d])'
  <2>1. PICK y \in ReadRequests : y = request'[d]
    BY <1>2, <1>3 DEF Optional
  <2>2. ReadInv(y)
    BY <1>3, <2>1 DEF ClientsInv
  <2>3. ReadInv(y)'
    BY <1>1, <2>2, ReadInvStays
  <2> QED  BY <2>1, <2>3
<1>4. ASSUME NEW d \in Clients, copy'[d] # NULL PROVE CopyInv(copy[d])'
  <2>1. PICK k : k = copy'[d]
    OBVIOUS
  <2>2. CopyInv(k)
    BY <1>4, <2>1 DEF ClientsInv
  <2>3. CopyInv(k)'
    BY <1>1, <2>2, CopyInvStays
  <2> QED  BY <2>1, <2>3
<1> QED  BY <1>2, <1>3, <1>4 DEF ClientsInv

LEMMA RequestFacts ==
    ASSUME NEW x \in ReadRequests
    PROVE  /\ x.url \in Reads /\ x.artifact \in Artifacts /\ x.version \in Versions
           /\ x.next \in 0..NumFormats + 1
           /\ \A step \in {"resolved", "located", "tagged", "reading"},
                 etag \in Optional(Versions \X Nat), v \in Versions, form \in Forms \cup Contents,
                 n \in 0..NumFormats + 1 :
                [step |-> step, url |-> x.url, artifact |-> x.artifact, version |-> v,
                 etag |-> etag, next |-> n, form |-> form] \in ReadRequests
           /\ x = [step |-> x.step, url |-> x.url, artifact |-> x.artifact,
                   version |-> x.version, etag |-> x.etag, next |-> x.next, form |-> x.form]
  BY DEF ReadRequests

\* What a request in progress is.
LEMMA InProgress ==
    ASSUME ClientsInv, NEW c \in Clients, request[c] # NULL
    PROVE  request[c] \in ReadRequests /\ ReadInv(request[c])
  BY DEF ClientsInv, Optional

LEMMA ETagType ==
    ASSUME ArtifactsTypeOK, NEW u \in Reads, NEW v, Named(u, v)
    PROVE  /\ ETag(u.artifact, v) \in Versions \X Nat
           /\ Tagged(u, ETag(u.artifact, v))
<1>1. artifact[u.artifact][v].revision \in Nat /\ v \in Versions
  BY RowAt DEF Named
<1>2. ETag(u.artifact, v) = <<v, artifact[u.artifact][v].revision>>
  BY DEF ETag
<1> QED  BY <1>1, <1>2 DEF Tagged

\* A version that a URL stands for exists when the client has found one before.
LEMMA ResolvedIsNamed ==
    ASSUME ArtifactsTypeOK, NEW u \in Reads, Exists(u.artifact, Resolve(u))
    PROVE  Named(u, Resolve(u)) /\ Resolve(u) \in Versions
<1>1. Resolve(u) \in Versions /\ artifact[u.artifact][Resolve(u)] # NULL
  BY DEF Exists
<1>2. Resolve(u) \in Nat
  BY <1>1 DEF Versions
<1> QED  BY <1>1, <1>2 DEF Named, Resolve

LEMMA StillResolves ==
    ASSUME ArtifactsTypeOK, NEW u \in Reads, NEW v, Named(u, v)
    PROVE  Exists(u.artifact, Resolve(u))
<1>1. CASE u.version # 0
  BY <1>1 DEF Named, Resolve, Exists
<1>2. CASE u.version = 0
  <2>1. Resolve(u) = LatestArtifactVersion(u.artifact) /\ u.artifact \in Artifacts
    BY <1>2, ReadURL DEF Resolve
  <2>2. Resolve(u) # 0
    BY <2>1, LatestIsNewest DEF Named, Versions
  <2> QED  BY <2>1, <2>2, LatestIsNewest DEF Exists
<1> QED  BY <1>1, <1>2

LEMMA ReadStepKeeps ==
    ASSUME ArtifactsTypeOK, ClientsInv, NEW c \in Clients, NextRead(c)
    PROVE  ClientsInv'
<1> DEFINE x == request[c]
<1>0. UNCHANGED artifact
  BY ReadChangesNothing
<1>1. ASSUME NEW u \in Reads, Get(c, u) PROVE ClientsInv'
  <2> DEFINE y == [step |-> "resolved", url |-> u, artifact |-> u.artifact,
                   version |-> Resolve(u), etag |-> NULL, next |-> 0, form |-> Unread]
  <2>1. request' = [request EXCEPT ![c] = y] /\ UNCHANGED copy
        /\ Exists(u.artifact, Resolve(u))
    BY <1>1 DEF Get, Continue
  <2>2. Named(u, Resolve(u)) /\ Resolve(u) \in Versions /\ u.artifact \in Artifacts
    BY <2>1, ResolvedIsNamed, ReadURL
  <2>3. 0 \in 0..NumFormats + 1
    BY BoundsAssumption
  <2>4. y \in Optional(ReadRequests)
    BY <2>2, <2>3, UnreadIsForm DEF ReadRequests, Optional
  <2>5. ReadInv(y)
    BY <2>2, UnreadIsForm DEF ReadInv
  <2> HIDE DEF y
  <2> QED  BY <1>0, <2>1, <2>4, <2>5, ReadMoves
<1>2. CASE NotModified(c) \/ GiveUp(c)
  <2>1. request' = [request EXCEPT ![c] = NULL] /\ UNCHANGED copy
    BY <1>2 DEF NotModified, GiveUp, Answered
  <2> QED  BY <1>0, <2>1, ReadMoves DEF Optional
<1>3. CASE Conditional(c)
  <2> DEFINE e == ETag(x.artifact, x.version)
             y == [x EXCEPT !.etag = e, !.step = "tagged"]
  <2>1. /\ request' = [request EXCEPT ![c] = y] /\ UNCHANGED copy /\ x # NULL
        /\ x.step = ETagStep(x.url)
    BY <1>3 DEF Conditional, Continue
  <2>2. x \in ReadRequests /\ ReadInv(x)
    BY <2>1, InProgress
  <2>3. e \in Versions \X Nat /\ Tagged(x.url, e)
    BY <2>2, ETagType DEF ReadInv, ReadRequests
  <2> HIDE DEF e
  <2>4. /\ y \in ReadRequests /\ y.url = x.url /\ y.artifact = x.artifact
        /\ y.version = x.version /\ y.etag = e /\ y.step = "tagged" /\ y.form = x.form
        /\ y.next = x.next
    BY <2>2, <2>3 DEF ReadRequests, Optional
  <2>5. ReadInv(y)
    BY <2>1, <2>2, <2>3, <2>4 DEF ReadInv, ETagStep
  <2> QED  BY <1>0, <2>1, <2>4, <2>5, ReadMoves DEF Optional
<1>4. CASE GetArtifact(c)
  <2> DEFINE y == [x EXCEPT !.version = Resolve(x.url), !.step = "reading"]
  <2>1. /\ request' = [request EXCEPT ![c] = y] /\ UNCHANGED copy /\ x # NULL
        /\ x.step = "tagged" /\ x.url.kind = "artifact"
    BY <1>4 DEF GetArtifact, Continue, Reading
  <2>2. x \in ReadRequests /\ ReadInv(x) /\ x.url \in Reads
    BY <2>1, InProgress DEF ReadRequests
  <2>3. Named(x.url, Resolve(x.url)) /\ Resolve(x.url) \in Versions
    BY <2>2, StillResolves, ResolvedIsNamed DEF ReadInv
  <2>4. /\ y \in ReadRequests /\ y.url = x.url /\ y.artifact = x.artifact
        /\ y.version = Resolve(x.url) /\ y.etag = x.etag /\ y.step = "reading"
        /\ y.form = x.form /\ y.next = x.next
    BY <2>2, <2>3 DEF ReadRequests
  <2>5. Current(x.url, x.etag, Resolve(x.url), x.form, 0)
    <3>1. \A f \in Formats : ~(f < 0)
      BY DEF Formats
    <3> QED  BY <3>1 DEF Current
  <2>6. ReadInv(y)
    BY <2>1, <2>2, <2>3, <2>4, <2>5 DEF ReadInv
  <2> QED  BY <1>0, <2>1, <2>4, <2>6, ReadMoves DEF Optional
<1>5. CASE ReadOn(c)
  <2> DEFINE r == artifact[x.artifact][x.version]
             p == Part(r, x.next)
             form == [x.form EXCEPT ![x.next] = p]
             y == PartRead(x)
  <2>1. /\ request' = [request EXCEPT ![c] = y] /\ UNCHANGED copy /\ x # NULL
        /\ x.step = "reading" /\ x.next \in Parts
    BY <1>5 DEF ReadOn, Continue, Reading
  <2>2. x \in ReadRequests /\ ReadInv(x) /\ x.url \in Reads
    BY <2>1, InProgress DEF ReadRequests
  <2>3. /\ x.url.kind = "artifact" /\ x.form \in Forms /\ x.artifact = x.url.artifact
        /\ Named(x.url, x.version) /\ Tagged(x.url, x.etag)
        /\ Current(x.url, x.etag, x.version, x.form, x.next)
    BY <2>1, <2>2 DEF ReadInv
  <2>4. r \in RowsOf(Nat)
    BY <2>2, <2>3, RowAt
  <2>5. p \in (SUBSET Distributions) \cup Optional(Contents)
    BY <2>1, <2>4, PartType
  <2>6. y = [x EXCEPT !.form[x.next] = p, !.next = @ + 1]
    BY DEF PartRead
  <2> HIDE DEF p
  <2>7. form \in Forms
    BY <2>3, <2>5 DEF Forms
  <2>8. x.next + 1 \in 0..NumFormats + 1
    BY <2>1, BoundsAssumption DEF Parts
  <2>9. /\ y \in ReadRequests /\ y.url = x.url /\ y.artifact = x.artifact
        /\ y.version = x.version /\ y.etag = x.etag /\ y.step = "reading"
        /\ y.form = form /\ y.next = x.next + 1
    BY <2>1, <2>2, <2>6, <2>7, <2>8 DEF ReadRequests
  <2>10. Current(x.url, x.etag, x.version, form, x.next + 1)
    <3> SUFFICES ASSUME x.etag = ETag(x.url.artifact, Resolve(x.url))
                 PROVE  /\ x.version = Resolve(x.url)
                        /\ \A f \in Formats : f < x.next + 1 =>
                            form[f] = artifact[x.url.artifact][Resolve(x.url)].checksum[f]
      BY DEF Current
    <3>1. /\ x.version = Resolve(x.url)
          /\ \A f \in Formats : f < x.next =>
                x.form[f] = artifact[x.url.artifact][Resolve(x.url)].checksum[f]
      BY <2>3 DEF Current
    <3>2. ASSUME NEW f \in Formats, f < x.next + 1
          PROVE  form[f] = r.checksum[f]
      <4>1. f \in Parts /\ f # 0 /\ f \in Int /\ x.next \in Int
        BY <2>1, BoundsAssumption DEF Formats, Parts
      <4>2. CASE f = x.next
        BY <2>3, <4>1, <4>2 DEF Forms, Part, p
      <4>3. CASE f # x.next
        <5>1. f < x.next
          BY <3>2, <4>1, <4>3
        <5>2. form[f] = x.form[f]
          BY <2>3, <4>1, <4>3 DEF Forms
        <5> QED  BY <2>3, <3>1, <5>1, <5>2
      <4> QED  BY <4>2, <4>3
    <3> QED  BY <2>3, <3>1, <3>2
  <2> HIDE DEF form, y
  <2>11. ReadInv(y)
    BY <2>3, <2>7, <2>9, <2>10 DEF ReadInv
  <2> QED  BY <1>0, <2>1, <2>9, <2>11, ReadMoves DEF Optional
<1>6. CASE WriteJSON(c) \/ StreamBlob(c)
  <2> DEFINE k == [url |-> x.url, etag |-> x.etag, version |-> x.version, body |-> x.form]
  <2>1. /\ request' = [request EXCEPT ![c] = NULL] /\ copy' = [copy EXCEPT ![c] = k]
        /\ x # NULL
        /\ x.url.kind = "artifact" => x.step = "reading" /\ x.next \notin Parts
    BY <1>6 DEF WriteJSON, StreamBlob, Keep, Answered, Reading
  <2>2. x \in ReadRequests /\ ReadInv(x) /\ x.url \in Reads
    BY <2>1, InProgress DEF ReadRequests
  <2>3. x.url.kind = "artifact" => x.next = NumFormats + 1
    BY <2>1, <2>2, BoundsAssumption DEF ReadRequests, Parts
  <2>4. x.url.kind = "artifact" =>
            /\ Tagged(x.url, x.etag)
            /\ Current(x.url, x.etag, x.version, x.form, NumFormats + 1)
    BY <2>1, <2>2, <2>3 DEF ReadInv
  <2>5. CopyInv(k)
    BY <2>2, <2>4 DEF CopyInv
  <2> QED  BY <1>0, <2>1, <2>5, ReadMoves DEF Optional
<1>7. CASE GetArtifactFormatForDownload(c)
  <2> DEFINE r == artifact[x.artifact][x.version]
             file == Located(x.url.kind, r, x.url.format)
             y == [x EXCEPT !.form = file, !.step = "located"]
  <2>1. /\ request' = [request EXCEPT ![c] = y] /\ UNCHANGED copy /\ x # NULL
        /\ x.url.kind # "artifact" /\ file # NULL /\ x.step = "resolved"
    BY <1>7 DEF GetArtifactFormatForDownload, Continue, Reading
  <2>2. x \in ReadRequests /\ ReadInv(x) /\ x.url \in Reads
    BY <2>1, InProgress DEF ReadRequests
  <2>3. r \in RowsOf(Nat)
    BY <2>2, RowAt DEF ReadInv
  <2>4. file \in Contents
    BY <2>1, <2>2, <2>3, RowFacts, ReadURL DEF Located, Optional
  <2> HIDE DEF file
  <2>5. /\ y \in ReadRequests /\ y.url = x.url /\ y.artifact = x.artifact
        /\ y.version = x.version /\ y.step = "located" /\ y.next = x.next
    BY <2>2, <2>4 DEF ReadRequests
  <2>6. ReadInv(y)
    BY <2>1, <2>2, <2>5 DEF ReadInv
  <2> QED  BY <1>0, <2>1, <2>5, <2>6, ReadMoves DEF Optional
<1> QED  BY <1>1, <1>2, <1>3, <1>4, <1>5, <1>6, <1>7 DEF NextRead

-----------------------------------------------------------------------------
(* The theorems.                                                           *)

ArtifactEvidenceInv ==
    /\ distribution \subseteq Distributions
    /\ StoreInv
    /\ ClientsInv
    /\ AcceptedOncePerFingerprint

LEMMA InitArtifactEvidenceInv ==
    ASSUME Init
    PROVE  ArtifactEvidenceInv
<1>1. StoreInv
  BY DEF Init, StoreInv, ArtifactsTypeOK, RowFilesIn, Optional
<1>2. ClientsInv
  BY DEF Init, ClientsInv, Optional
<1>3. AcceptedOncePerFingerprint
  BY DEF Init, AcceptedOncePerFingerprint
<1> QED  BY <1>1, <1>2, <1>3 DEF ArtifactEvidenceInv, Init

LEMMA AcceptedOnceStays ==
    ASSUME AcceptedOncePerFingerprint, [Next]_vars
    PROVE  AcceptedOncePerFingerprint'
<1>1. ASSUME NEW h \in Handlers, CreateEvidenceBundle(h)
      PROVE  AcceptedOncePerFingerprint'
  <2>1. PICK b : b = Bundle(handler[h])
    OBVIOUS
  <2>2. /\ (\E e \in evidence : e.fingerprint = b.fingerprint) => b \in evidence
        /\ accepted' = accepted \cup {b}
        /\ evidence' = IF \E e \in evidence : e.fingerprint = b.fingerprint
                       THEN evidence ELSE evidence \cup {b}
    BY <1>1, <2>1 DEF CreateEvidenceBundle, IdenticalEvidenceBundleByFingerprint
  <2>3. CASE \E e \in evidence : e.fingerprint = b.fingerprint
    BY <2>2, <2>3 DEF AcceptedOncePerFingerprint
  <2>4. CASE ~\E e \in evidence : e.fingerprint = b.fingerprint
    BY <2>2, <2>4 DEF AcceptedOncePerFingerprint
  <2> QED  BY <2>3, <2>4
<1>2. CASE UNCHANGED <<evidence, accepted>>
  BY <1>2 DEF AcceptedOncePerFingerprint
<1>3. ASSUME NextVersion \/ (\E file \in Contents : ImportRolledBack(file))
             \/ (\E d \in Distributions : DeleteDistribution(d)) \/ UNCHANGED vars
      PROVE  UNCHANGED <<evidence, accepted>>
  BY <1>3 DEF NextVersion, CreateArtifact, CreateArtifactVersion, ImportArtifact,
              ImportRolledBack, DeleteDistribution, vars
<1>4. ASSUME NEW h \in Handlers, NextUpload(h) \/ NextEvidence(h) \/ Abandon(h)
      PROVE  UNCHANGED <<evidence, accepted>> \/ CreateEvidenceBundle(h)
  BY <1>4 DEF NextUpload, NextEvidence, Abandon, UploadFile, Put, UpsertBlob,
              SetArtifactFormatFile, SetArtifactFormatSignatureFile,
              SubmitArtifactEvidence, ReadPart
<1> QED  BY <1>1, <1>2, <1>3, <1>4, ReadChangesNothing DEF Next

LEMMA NextArtifactEvidenceInv ==
    ASSUME ArtifactEvidenceInv, [Next]_vars
    PROVE  ArtifactEvidenceInv'
<1>1. /\ StoreInv' /\ RowsStep /\ distribution' \subseteq Distributions
      /\ UNCHANGED <<request, copy>> \/ \E c \in Clients : NextRead(c)
  BY NextStored DEF ArtifactEvidenceInv
<1>2. ClientsInv'
  BY <1>1, ClientsStay, ReadStepKeeps DEF ArtifactEvidenceInv, StoreInv
<1>3. AcceptedOncePerFingerprint'
  BY AcceptedOnceStays DEF ArtifactEvidenceInv
<1> QED  BY <1>1, <1>2, <1>3 DEF ArtifactEvidenceInv

(* The inductive invariant: the types of rows, handlers and requests, that *)
(* an upload's file is in the store and then in the blob table before the  *)
(* row names it, and what ETags and bodies of answers and of answers in    *)
(* the making say of the rows now.                                         *)
THEOREM ArtifactEvidenceInvariant == Spec => []ArtifactEvidenceInv
  BY InitArtifactEvidenceInv, NextArtifactEvidenceInv, PTL DEF Spec

(* Whatever content and signatures were uploaded, or came with a bundle,   *)
(* can be served, for any uploads and imports, cut short at any step       *)
(* (receiveUploadedFile before SetArtifactFormatFile, importBlobs first).  *)
THEOREM UploadedIsStoredHolds == Spec => []UploadedIsStored
<1>1. ArtifactEvidenceInv => UploadedIsStored
  BY DEF ArtifactEvidenceInv, StoreInv, RowFilesIn, UploadedIsStored
<1> QED  BY <1>1, ArtifactEvidenceInvariant, PTL

(* A submission is answered with 201 only if its very bundle is stored, and *)
(* one certificate never vouches for two (CreateEvidenceBundle).           *)
THEOREM AcceptedOncePerFingerprintHolds == Spec => []AcceptedOncePerFingerprint
<1>1. ArtifactEvidenceInv => AcceptedOncePerFingerprint
  BY DEF ArtifactEvidenceInv
<1> QED  BY <1>1, ArtifactEvidenceInvariant, PTL

(* A client that would be told 304 for an artifact has the checksums that  *)
(* the version its URL stands for has now, for any number of formats read  *)
(* one by one between uploads, imports and new versions.                   *)
THEOREM MatchingValidatorIsCurrentHolds == Spec => []MatchingValidatorIsCurrent
<1>1. ASSUME ArtifactEvidenceInv PROVE MatchingValidatorIsCurrent
  <2> SUFFICES ASSUME NEW c \in Clients, copy[c] # NULL, copy[c].url.kind = "artifact",
                      copy[c].etag = ETag(copy[c].url.artifact, Resolve(copy[c].url))
               PROVE  /\ copy[c].version = Resolve(copy[c].url)
                      /\ \A f \in Formats : copy[c].body[f] =
                            artifact[copy[c].url.artifact][Resolve(copy[c].url)].checksum[f]
    BY DEF MatchingValidatorIsCurrent
  <2>1. Current(copy[c].url, copy[c].etag, copy[c].version, copy[c].body, NumFormats + 1)
    BY <1>1 DEF ArtifactEvidenceInv, ClientsInv, CopyInv
  <2>2. \A f \in Formats : f < NumFormats + 1
    BY BoundsAssumption DEF Formats
  <2> QED  BY <2>1, <2>2 DEF Current
<1> QED  BY <1>1, ArtifactEvidenceInvariant, PTL
=============================================================================
