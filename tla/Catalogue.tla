------------------------------ MODULE Catalogue ------------------------------
(***************************************************************************)
(* The catalogue: products, components, their releases, the links between  *)
(* them, distributions, identifiers, lifecycle (CLE) data, and the counters *)
(* behind the ETags with which consumers revalidate what they cached.      *)
(*                                                                         *)
(* An owner is a pair <<owner type, uuid>>, as in the tables identifier,   *)
(* cle_event, cle_support_definition and cle_revision, which refer to rows *)
(* of every table and so have no foreign key.  The other references are    *)
(* foreign keys, and deletions cascade along them.                         *)
(*                                                                         *)
(* A repository method runs in one transaction and is one step, except the *)
(* creation of a release, which looks its parent up first.  An import is   *)
(* one entity at a time: a bundle imports several in one transaction.      *)
(* A name, a version with its dates, a description or an event's fields    *)
(* are a member of Contents; identifiers and checksums are sets (imports   *)
(* compare them as sets).                                                  *)
(***************************************************************************)
EXTENDS Integers

CONSTANTS
    Products, Components,  \* UUIDs
    Releases,              \* UUIDs of releases, product and component releases alike
    Distributions,         \* distribution ids
    Contents,              \* what rows and events say
    Identifiers,           \* (id_type, id_value) pairs
    IdentifierSets,        \* the identifiers that rows are created with
    Files,                 \* SHA-256 digests of uploaded files
    SupportIds,            \* ids of support definitions
    Creators,              \* release creations in progress
    Clients,               \* consumers; each keeps one response
    Anonymous,             \* the consumers that do not log in
    Grants,                \* the sets of resources that a consumer may be let read
    MaxSuffix,             \* bound on the entitlement revisions in an ETag
    CLEOwners,             \* the owners whose CLE data is written
    MaxEvent,              \* bound on the ids of the CLE events of an owner
    ReadURLs,              \* the URLs that are read
    MaxCount,              \* bound on the revisions
    MaxWrites,             \* bound on the writes of rows
    NULL                   \* an empty column, an absent row, an idle client

Product(u) == <<"PRODUCT", u>>
Component(u) == <<"COMPONENT", u>>
ProductRelease(u) == <<"PRODUCT_RELEASE", u>>
ComponentRelease(u) == <<"COMPONENT_RELEASE", u>>
Distribution(u) == <<"DISTRIBUTION", u>>

ProductOwners == {Product(u) : u \in Products}
ComponentOwners == {Component(u) : u \in Components}
ProductReleaseOwners == {ProductRelease(u) : u \in Releases}
ComponentReleaseOwners == {ComponentRelease(u) : u \in Releases}
DistributionOwners == {Distribution(u) : u \in Distributions}
Tops == ProductOwners \cup ComponentOwners
ReleaseOwners == ProductReleaseOwners \cup ComponentReleaseOwners
Owners == Tops \cup ReleaseOwners \cup DistributionOwners

\* The resource families that have a watermark.
Families == {"products", "productReleases", "components", "componentReleases",
             "collections"}

Family(o) ==
    CASE o \in ProductOwners -> "products"
      [] o \in ComponentOwners -> "components"
      [] o \in ProductReleaseOwners -> "productReleases"
      [] OTHER -> "componentReleases"

Events == 1..MaxEvent

ASSUME BoundsAssumption ==
    MaxEvent \in Nat /\ MaxCount \in Nat \ {0} /\ MaxWrites \in Nat
ASSUME IdentifierSetsAssumption == IdentifierSets \subseteq SUBSET Identifiers
ASSUME CLEOwnersAssumption == CLEOwners \subseteq Tops \cup ReleaseOwners
ASSUME ConsumersAssumption == Anonymous \subseteq Clients /\ MaxSuffix \in Nat

VARIABLES
    row,          \* row[o]: the row of owner o, or NULL
    identifier,   \* identifier[o]: the identifier rows of o
    checksum,     \* checksum[o]: the checksum rows of distribution o
    link,         \* the rows of product_release_component
    collection,   \* the releases that have a collection
    event,        \* event[o][i]: what CLE event i of o says, or NULL
    support,      \* support[o][s]: what support definition s of o says, or NULL
    cleRevision,  \* cleRevision[o]: the row of cle_revision, 0 when there is none
    watermark,    \* watermark[f]: the row of dataset_watermark, 0 when there is none
    creator,      \* creator[h]: the parent that was looked up, or NULL
    granted,      \* granted[c]: the capabilities that Decide allows consumer c
    suffix,       \* suffix[c]: what authzCacheSuffix says of consumer c
    request,      \* request[c]: the URL and ETag of a response to write, or NULL
    copy          \* copy[c]: the response that client c keeps, or NULL

tables == <<row, identifier, checksum, link, collection>>
cle == <<event, support, cleRevision>>
views == <<granted, suffix>>
readers == <<views, request, copy>>
vars == <<tables, cle, watermark, creator, readers>>

Row == [parent : Owners \cup {NULL}, content : Contents, revision : Nat \ {0}]
Link == [release : ProductReleaseOwners, component : ComponentOwners,
         pin : ComponentReleaseOwners \cup {NULL}]

ASSUME NULLAssumption == NULL \notin Contents \cup Owners \cup Row

Exists(o) == row[o] # NULL

NoEvents == [i \in Events |-> NULL]
NoSupport == [s \in SupportIds |-> NULL]

Init ==
    /\ row = [o \in Owners |-> NULL]
    /\ identifier = [o \in Owners |-> {}]
    /\ checksum = [o \in Owners |-> {}]
    /\ link = {}
    /\ collection = {}
    /\ event = [o \in Owners |-> NoEvents]
    /\ support = [o \in Owners |-> NoSupport]
    /\ cleRevision = [o \in Owners |-> 0]
    /\ watermark = [f \in Families |-> 0]
    /\ creator = [h \in Creators |-> NULL]
    /\ granted = [c \in Clients |-> {}]
    /\ suffix = [c \in Clients |-> 0]
    /\ request = [c \in Clients |-> NULL]
    /\ copy = [c \in Clients |-> NULL]

-----------------------------------------------------------------------------
(* The counters.  Every write of rows raises the watermark of one of the   *)
(* four families of rows, and MaxWrites bounds their sum.                  *)

Writes == watermark["products"] + watermark["productReleases"]
          + watermark["components"] + watermark["componentReleases"]

bumpWatermark(f) ==
    /\ Writes < MaxWrites
    /\ watermark' = [watermark EXCEPT ![f] = @ + 1]

bumpCLERevision(o) ==
    /\ cleRevision[o] < MaxCount
    /\ cleRevision' = [cleRevision EXCEPT ![o] = @ + 1]

\* The rows with the revision of o, if o exists, one higher.
Revised(rows, o) ==
    IF rows[o] = NULL THEN rows
    ELSE [rows EXCEPT ![o].revision = @ + 1]

MayRevise(o) == Exists(o) => row[o].revision < MaxCount

-----------------------------------------------------------------------------
(* Products, components and releases.                                      *)

NewRow(parent, content) == [parent |-> parent, content |-> content, revision |-> 1]

\* The row goes in with its identifiers; identifier rows that are left from an
\* earlier row of the same owner are still there.
Insert(o, parent, content, ids) ==
    /\ row' = [row EXCEPT ![o] = NewRow(parent, content)]
    /\ identifier' = [identifier EXCEPT ![o] = @ \cup ids]

CreateProduct(u, content, ids) ==
    LET o == Product(u) IN
    /\ ~Exists(o)
    /\ Insert(o, NULL, content, ids)
    /\ bumpWatermark("products")
    /\ UNCHANGED <<checksum, link, collection, cle, creator, readers>>

\* A component is not created with an identifier that another one has.
componentIdentifierConflict(ids) == \E o \in ComponentOwners : identifier[o] \cap ids # {}

CreateComponent(u, content, ids) ==
    LET o == Component(u) IN
    /\ ~Exists(o)
    /\ ~componentIdentifierConflict(ids)
    /\ Insert(o, NULL, content, ids)
    /\ bumpWatermark("components")
    /\ UNCHANGED <<checksum, link, collection, cle, creator, readers>>

\* An import of what is there already changes nothing, and fails when it is there
\* with something else: only a row that is not there is inserted.
ImportProduct(u, content, ids) ==
    /\ ~Exists(Product(u))
    /\ Insert(Product(u), NULL, content, ids)
    /\ bumpWatermark("products")
    /\ UNCHANGED <<checksum, link, collection, cle, creator, readers>>

ImportComponent(u, content, ids) ==
    /\ ~Exists(Component(u))
    /\ Insert(Component(u), NULL, content, ids)
    /\ bumpWatermark("components")
    /\ UNCHANGED <<checksum, link, collection, cle, creator, readers>>

\* CreateProductRelease and CreateComponentRelease first read the parent's name.
LookUpParent(h, parent) ==
    /\ creator[h] = NULL
    /\ Exists(parent)
    /\ creator' = [creator EXCEPT ![h] = parent]
    /\ UNCHANGED <<tables, cle, watermark, readers>>

\* The transaction then inserts the release and its first, empty, collection.
\* The foreign key refuses a parent that has gone.  A fresh UUID is nobody's.
Fresh(u) == ~Exists(ProductRelease(u)) /\ ~Exists(ComponentRelease(u))

InsertRelease(h, o, content, ids) ==
    /\ Exists(creator[h])
    /\ Insert(o, creator[h], content, ids)
    /\ collection' = collection \cup {o}
    /\ Writes < MaxWrites
    /\ watermark' = [watermark EXCEPT !["collections"] = @ + 1, ![Family(o)] = @ + 1]
    /\ creator' = [creator EXCEPT ![h] = NULL]
    /\ UNCHANGED <<checksum, link, cle, readers>>

CreateProductRelease(h, u, content, ids) ==
    /\ creator[h] \in ProductOwners
    /\ Fresh(u)
    /\ InsertRelease(h, ProductRelease(u), content, ids)

CreateComponentRelease(h, u, content, ids) ==
    /\ creator[h] \in ComponentOwners
    /\ Fresh(u)
    /\ InsertRelease(h, ComponentRelease(u), content, ids)

CreateReleaseFails(h) ==
    /\ creator[h] # NULL
    /\ ~Exists(creator[h])
    /\ creator' = [creator EXCEPT ![h] = NULL]
    /\ UNCHANGED <<tables, cle, watermark, readers>>

\* An imported release brings its UUID, and its collections separately.
\* Mutant: the other type of release is not looked up.
ImportableAnyType(o, other, parent) == ~Exists(o) /\ Exists(parent)

Importable(o, other, parent) == ~Exists(o) /\ ~Exists(other) /\ Exists(parent)

ImportProductRelease(u, parent, content, ids) ==
    /\ Importable(ProductRelease(u), ComponentRelease(u), parent)
    /\ Insert(ProductRelease(u), parent, content, ids)
    /\ bumpWatermark("productReleases")
    /\ UNCHANGED <<checksum, link, collection, cle, creator, readers>>

ImportComponentRelease(u, parent, content, ids) ==
    /\ Importable(ComponentRelease(u), ProductRelease(u), parent)
    /\ Insert(ComponentRelease(u), parent, content, ids)
    /\ bumpWatermark("componentReleases")
    /\ UNCHANGED <<checksum, link, collection, cle, creator, readers>>

-----------------------------------------------------------------------------
(* Links and distributions change a release, so they raise its revision.   *)

Linkable(l) ==
    /\ Exists(l.release)
    /\ Exists(l.component)
    /\ l.pin # NULL => Exists(l.pin)

SameKey(l, m) == l.release = m.release /\ l.component = m.component

\* The link replaces the one of the same release and component.
LinkComponent(l) ==
    /\ Linkable(l)
    /\ MayRevise(l.release)
    /\ link' = {m \in link : ~SameKey(l, m)} \cup {l}
    /\ row' = Revised(row, l.release)
    /\ bumpWatermark("productReleases")
    /\ UNCHANGED <<identifier, checksum, collection, cle, creator, readers>>

\* A link that is there is left as it is, or a conflict if its pin is another.
ImportComponentLink(l) ==
    /\ Linkable(l)
    /\ ~\E m \in link : SameKey(l, m)
    /\ MayRevise(l.release)
    /\ link' = link \cup {l}
    /\ row' = Revised(row, l.release)
    /\ bumpWatermark("productReleases")
    /\ UNCHANGED <<identifier, checksum, collection, cle, creator, readers>>

\* A distribution row goes in and its release is revised.
InsertDistribution(o, release, content) ==
    [Revised(row, release) EXCEPT ![o] = NewRow(release, content)]

CreateDistribution(u, release, content) ==
    LET o == Distribution(u) IN
    /\ ~Exists(o)
    /\ Exists(release)
    /\ MayRevise(release)
    /\ row' = InsertDistribution(o, release, content)
    /\ bumpWatermark("componentReleases")
    /\ UNCHANGED <<identifier, checksum, link, collection, cle, creator, readers>>

ImportDistribution(u, release, content, ids, sums) ==
    LET o == Distribution(u) IN
    /\ ~Exists(o)
    /\ Exists(release)
    /\ MayRevise(release)
    /\ row' = InsertDistribution(o, release, content)
    /\ identifier' = [identifier EXCEPT ![o] = @ \cup ids]
    /\ checksum' = [checksum EXCEPT ![o] = @ \cup sums]
    /\ bumpWatermark("componentReleases")
    /\ UNCHANGED <<link, collection, cle, creator, readers>>

\* The digest of the file is added to the checksums of the distribution.
\* Mutant: the release is not revised.
SetDistributionFileOnly(u, file) ==
    LET o == Distribution(u) IN
    /\ Exists(o)
    /\ checksum' = [checksum EXCEPT ![o] = @ \cup {file}]
    /\ bumpWatermark("componentReleases")
    /\ UNCHANGED <<row, identifier, link, collection, cle, creator, readers>>

SetDistributionFile(u, file) ==
    LET o == Distribution(u) IN
    /\ Exists(o)
    /\ MayRevise(row[o].parent)
    /\ checksum' = [checksum EXCEPT ![o] = @ \cup {file}]
    /\ row' = Revised(row, row[o].parent)
    /\ bumpWatermark("componentReleases")
    /\ UNCHANGED <<identifier, link, collection, cle, creator, readers>>

-----------------------------------------------------------------------------
(* Lifecycle data.  Nothing checks that the owner exists.                  *)

LatestEvent(o) ==
    IF event[o] = NoEvents THEN 0
    ELSE CHOOSE i \in Events :
            event[o][i] # NULL /\ \A j \in Events : event[o][j] # NULL => j <= i

AddEvent(o, i, content) ==
    /\ i \in Events
    /\ event' = [event EXCEPT ![o] = [@ EXCEPT ![i] = content]]
    /\ bumpCLERevision(o)
    /\ UNCHANGED <<tables, support, watermark, creator, readers>>

AddSupport(o, s, content) ==
    /\ support[o][s] = NULL
    /\ support' = [support EXCEPT ![o] = [@ EXCEPT ![s] = content]]
    /\ bumpCLERevision(o)
    /\ UNCHANGED <<tables, event, watermark, creator, readers>>

CreateCLEEvent(o, content) == AddEvent(o, LatestEvent(o) + 1, content)

ImportCLEEvent(o, i, content) == event[o][i] = NULL /\ AddEvent(o, i, content)

CreateCLESupportDefinition(o, s, content) == AddSupport(o, s, content)

\* A definition that exists with the same content is left as it is.
ImportCLESupportDefinition(o, s, content) == AddSupport(o, s, content)

-----------------------------------------------------------------------------
(* Deletion.                                                               *)

\* The rows that the foreign keys delete with o: its releases, and the
\* distributions of a component release.
Children(P) == {x \in Owners : row[x] # NULL /\ row[x].parent \in P}

Cascade(o) == {o} \cup Children({o}) \cup Children(Children({o}))

\* The links of deleted rows go; a pin of a deleted component release is set NULL.
LinksAfter(D) ==
    {[l EXCEPT !.pin = IF @ \in D THEN NULL ELSE @] :
        l \in {l \in link : l.release \notin D /\ l.component \notin D}}

\* Mutant: the revision of the lifecycle data is left as it is.
deleteOwnerScopedSilently(o) ==
    /\ identifier' = [identifier EXCEPT ![o] = {}]
    /\ event' = [event EXCEPT ![o] = NoEvents]
    /\ support' = [support EXCEPT ![o] = NoSupport]
    /\ UNCHANGED cleRevision

\* Mutant: the identifier rows stay.
deleteOwnerScopedIdentifiersStay(o) ==
    /\ event' = [event EXCEPT ![o] = NoEvents]
    /\ support' = [support EXCEPT ![o] = NoSupport]
    /\ bumpCLERevision(o)
    /\ UNCHANGED identifier

\* The rows without a foreign key, of o itself only.
deleteOwnerScoped(o) ==
    /\ identifier' = [identifier EXCEPT ![o] = {}]
    /\ event' = [event EXCEPT ![o] = NoEvents]
    /\ support' = [support EXCEPT ![o] = NoSupport]
    /\ bumpCLERevision(o)

Delete(o) ==
    /\ Exists(o)
    /\ row' = [x \in Owners |-> IF x \in Cascade(o) THEN NULL ELSE row[x]]
    /\ link' = LinksAfter(Cascade(o))
    /\ deleteOwnerScoped(o)
    /\ bumpWatermark(Family(o))
    /\ UNCHANGED <<checksum, collection, creator, readers>>

DeleteProduct(u) == Delete(Product(u))
DeleteComponent(u) == Delete(Component(u))
DeleteProductRelease(u) == Delete(ProductRelease(u))
DeleteComponentRelease(u) == Delete(ComponentRelease(u))

-----------------------------------------------------------------------------
(* Conditional requests.  A URL is the CLE data of an owner or the list of *)
(* a family.  The ETag is made first, of a counter and of the consumer's   *)
(* suffix, and the body read afterwards.  A capability is the right to     *)
(* read an entity or, independently, the lifecycle data of an owner.       *)

Capabilities == {"read", "lifecycle"} \X (Tops \cup ReleaseOwners)

ASSUME GrantsAssumption == Grants \subseteq SUBSET Capabilities

CLEURLs == {"cle"} \X CLEOwners
Lists(F) == {"list"} \X F
ListedFamilies == Families \ {"collections"}
URLs == CLEURLs \cup Lists(ListedFamilies)

ASSUME ReadURLsAssumption == ReadURLs \subseteq URLs

\* What a row looks like to a consumer, with what is embedded in it.
Distributed(o) ==
    {[id |-> d, content |-> row[d].content, identifiers |-> identifier[d],
      checksums |-> checksum[d]] : d \in Children({o}) \cap DistributionOwners}

Entity(o) ==
    [uuid |-> o, content |-> row[o].content, parent |-> row[o].parent,
     identifiers |-> identifier[o],
     components |-> {<<l.component, l.pin>> : l \in {l \in link : l.release = o}},
     distributions |-> Distributed(o)]

\* The list of a family holds the entities that the consumer may read.
CLE(o) == <<event[o], support[o]>>
Listed(f, G) ==
    {o \in Tops \cup ReleaseOwners : Exists(o) /\ Family(o) = f /\ <<"read", o>> \in G}
List(f, G) == {Entity(o) : o \in Listed(f, G)}

Counter(url) == IF url[1] = "cle" THEN cleRevision[url[2]] ELSE watermark[url[2]]
ETag(c, url) == [counter |-> Counter(url), suffix |-> suffix[c]]
Body(url, G) == IF url[1] = "cle" THEN CLE(url[2]) ELSE List(url[2], G)

\* The owner of CLE data must exist (404 otherwise) and the consumer be let read
\* its history.  A copy with the ETag is answered with 304 and kept.
Authorised(c, url) ==
    url[1] = "cle" => Exists(url[2]) /\ <<"lifecycle", url[2]>> \in granted[c]
NotModified(c, url) == copy[c] # NULL /\ copy[c].url = url /\ copy[c].etag = ETag(c, url)

Request(c, url) ==
    /\ request[c] = NULL
    /\ Authorised(c, url)
    /\ ~NotModified(c, url)
    /\ request' = [request EXCEPT ![c] = [url |-> url, etag |-> ETag(c, url)]]
    /\ UNCHANGED <<tables, cle, watermark, creator, views, copy>>

\* The copy remembers, for the properties, what the consumer was let read.
Respond(c) ==
    /\ request[c] # NULL
    /\ copy' = [copy EXCEPT ![c] =
                   [url |-> request[c].url, etag |-> request[c].etag,
                    granted |-> granted[c],
                    body |-> Body(request[c].url, granted[c])]]
    /\ request' = [request EXCEPT ![c] = NULL]
    /\ UNCHANGED <<tables, cle, watermark, creator, views>>

\* An administrator, or the clock, changes what a consumer may read (module
\* Authorisation has the rules).  The suffix is "anon" for anonymous consumers,
\* and for the others the highest revision of an entitlement that applies to
\* them: it may rise, fall or stay.
ChangeEntitlements(c, G, s) ==
    /\ c \in Anonymous => s = suffix[c]
    /\ granted' = [granted EXCEPT ![c] = G]
    /\ suffix' = [suffix EXCEPT ![c] = s]
    /\ UNCHANGED <<tables, cle, watermark, creator, request, copy>>

-----------------------------------------------------------------------------
CreateOrImport(content, ids) ==
    \/ \E u \in Products : CreateProduct(u, content, ids) \/ ImportProduct(u, content, ids)
    \/ \E u \in Components : CreateComponent(u, content, ids) \/ ImportComponent(u, content, ids)
    \/ \E u \in Releases :
        \/ \E h \in Creators : CreateProductRelease(h, u, content, ids)
                               \/ CreateComponentRelease(h, u, content, ids)
        \/ \E p \in ProductOwners : ImportProductRelease(u, p, content, ids)
        \/ \E p \in ComponentOwners : ImportComponentRelease(u, p, content, ids)
    \/ \E u \in Distributions, r \in ComponentReleaseOwners :
        \/ CreateDistribution(u, r, content)
        \/ \E sums \in SUBSET Files : ImportDistribution(u, r, content, ids, sums)

WriteCLE(o, content) ==
    \/ CreateCLEEvent(o, content)
    \/ \E i \in Events : ImportCLEEvent(o, i, content)
    \/ \E s \in SupportIds : CreateCLESupportDefinition(o, s, content)
                             \/ ImportCLESupportDefinition(o, s, content)

Next ==
    \/ \E content \in Contents, ids \in IdentifierSets : CreateOrImport(content, ids)
    \/ \E h \in Creators : CreateReleaseFails(h) \/ \E p \in Tops : LookUpParent(h, p)
    \/ \E l \in Link : LinkComponent(l) \/ ImportComponentLink(l)
    \/ \E u \in Distributions, file \in Files : SetDistributionFile(u, file)
    \/ \E o \in CLEOwners, content \in Contents : WriteCLE(o, content)
    \/ \E u \in Products : DeleteProduct(u)
    \/ \E u \in Components : DeleteComponent(u)
    \/ \E u \in Releases : DeleteProductRelease(u) \/ DeleteComponentRelease(u)
    \/ \E c \in Clients :
        \/ Respond(c)
        \/ \E url \in ReadURLs : Request(c, url)
        \/ \E G \in Grants, s \in 0..MaxSuffix : ChangeEntitlements(c, G, s)

Spec == Init /\ [][Next]_vars

-----------------------------------------------------------------------------
ETags == [counter : Nat, suffix : Nat]
Requests == [url : URLs, etag : ETags]

(* The type invariant of the tables, the counters and the clients.         *)
TypeOK ==
    /\ row \in [Owners -> Row \cup {NULL}]
    /\ identifier \in [Owners -> SUBSET Identifiers]
    /\ checksum \in [Owners -> SUBSET Files]
    /\ link \subseteq Link
    /\ collection \subseteq ReleaseOwners
    /\ event \in [Owners -> [Events -> Contents \cup {NULL}]]
    /\ support \in [Owners -> [SupportIds -> Contents \cup {NULL}]]
    /\ cleRevision \in [Owners -> Nat]
    /\ watermark \in [Families -> Nat]
    /\ creator \in [Creators -> Tops \cup {NULL}]
    /\ granted \in [Clients -> SUBSET Capabilities]
    /\ suffix \in [Clients -> 0..MaxSuffix]
    /\ request \in [Clients -> Requests \cup {NULL}]
    /\ \A c \in Clients :
        copy[c] # NULL => copy[c].url \in URLs /\ copy[c].etag \in ETags

(* Every reference resolves, whatever was created, imported, linked and   *)
(* deleted in whichever order: a release has its parent, a distribution    *)
(* its component release, and a link both ends and its pin; a release has  *)
(* at most one link to a component; and the identifier rows of a component *)
(* (which no foreign key guards) belong to one that exists, so that        *)
(* CreateComponent can load the component it answers a conflict with.      *)
ReferencesResolve ==
    /\ \A o \in Owners : Exists(o) /\ row[o].parent # NULL => Exists(row[o].parent)
    /\ \A l \in link : Linkable(l)
    /\ \A l, m \in link : SameKey(l, m) => l = m
    /\ \A o \in Tops : identifier[o] # {} => Exists(o)

(* No UUID is a product release and a component release, which would share *)
(* their collections: creations take fresh UUIDs and imports look the      *)
(* other table up (ErrCrossTypeUUIDReuse).                                 *)
ReleaseUUIDsDisjoint ==
    \A u \in Releases : ~(Exists(ProductRelease(u)) /\ Exists(ComponentRelease(u)))

\* What a consumer holds under the present ETag is what there is now, of what the
\* consumer was let read when the response was made.
CachedIsCurrent(U) ==
    \A c \in Clients :
        copy[c] # NULL /\ copy[c].url \in U /\ copy[c].etag = ETag(c, copy[c].url) =>
            copy[c].body = Body(copy[c].url, copy[c].granted)

(* A consumer that holds CLE data, or a list of products or components,    *)
(* with the current ETag, and so is answered with 304, holds the current   *)
(* data: writes between the two reads of writeCLE, deletions of the owner  *)
(* and its return under the same UUID included.  A list is current in the  *)
(* entities that the consumer could read when the list was read: nothing   *)
(* is said of entitlements that changed since, which the ETag of an        *)
(* anonymous consumer never shows and that of another one not always.      *)
ValidatorIsCurrent == CachedIsCurrent(CLEURLs \cup Lists({"products", "components"}))

(* A component release whose response changes, through its distributions   *)
(* and their files, has a higher revision and so another ETag.             *)
RevisionCoversDistributions ==
    [][\A o \in ComponentReleaseOwners :
        Exists(o) /\ Exists(o)' /\ Entity(o)' # Entity(o) =>
            row'[o].revision > row[o].revision]_vars

(* Lists of releases, as the lists of products: watermark.go has a         *)
(* watermark "bumped on any write that could change that family's list     *)
(* membership or listed content".                                          *)
ReleaseListValidatorIsCurrent ==
    CachedIsCurrent(Lists({"productReleases", "componentReleases"}))
=============================================================================
