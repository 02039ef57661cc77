--------------------------- MODULE CatalogueProofs ---------------------------
(***************************************************************************)
(* Proofs about Catalogue, for any catalogue, any number of concurrent     *)
(* creations and of clients, and any bounds.                               *)
(***************************************************************************)
EXTENDS Catalogue, TLAPS

-----------------------------------------------------------------------------
(* Owners.                                                                 *)

LEMMA OwnerKinds ==
    /\ ProductOwners \cap ComponentOwners = {}
    /\ ProductOwners \cap ProductReleaseOwners = {}
    /\ ProductOwners \cap ComponentReleaseOwners = {}
    /\ ProductOwners \cap DistributionOwners = {}
    /\ ComponentOwners \cap ProductReleaseOwners = {}
    /\ ComponentOwners \cap ComponentReleaseOwners = {}
    /\ ComponentOwners \cap DistributionOwners = {}
    /\ ProductReleaseOwners \cap ComponentReleaseOwners = {}
    /\ ProductReleaseOwners \cap DistributionOwners = {}
    /\ ComponentReleaseOwners \cap DistributionOwners = {}
  BY DEF ProductOwners, ComponentOwners, ProductReleaseOwners, ComponentReleaseOwners,
         DistributionOwners, Product, Component, ProductRelease, ComponentRelease,
         Distribution

LEMMA OwnerUnions ==
    /\ Tops = ProductOwners \cup ComponentOwners
    /\ ReleaseOwners = ProductReleaseOwners \cup ComponentReleaseOwners
    /\ Owners = ProductOwners \cup ComponentOwners \cup ProductReleaseOwners
                \cup ComponentReleaseOwners \cup DistributionOwners
    /\ NULL \notin Owners
  BY NULLAssumption DEF Tops, ReleaseOwners, Owners

\* The release of the other type with the same UUID.
LEMMA ReleaseUUIDs ==
    /\ \A u \in Releases : ProductRelease(u) \in ProductReleaseOwners
                           /\ ComponentRelease(u) \in ComponentReleaseOwners
    /\ \A u, v : ProductRelease(u) = ProductRelease(v) => u = v
    /\ \A u, v : ComponentRelease(u) = ComponentRelease(v) => u = v
  BY DEF ProductReleaseOwners, ComponentReleaseOwners, ProductRelease, ComponentRelease

LEMMA OwnersOf ==
    /\ \A u \in Products : Product(u) \in ProductOwners
    /\ \A u \in Components : Component(u) \in ComponentOwners
    /\ \A u \in Distributions : Distribution(u) \in DistributionOwners
  BY DEF ProductOwners, ComponentOwners, DistributionOwners

LEMMA Families5 ==
    /\ \A o : Family(o) \in Families
    /\ \A o \in ProductOwners : Family(o) = "products"
    /\ \A o \in ComponentOwners : Family(o) = "components"
    /\ \A o \in ReleaseOwners : Family(o) \in {"productReleases", "componentReleases"}
  BY OwnerKinds DEF Family, Families, ReleaseOwners

-----------------------------------------------------------------------------
(* The invariant of the tables.                                            *)

\* The parent that the foreign key of a table refers to.
ParentFits(o, p) ==
    /\ o \in Tops => p = NULL
    /\ o \in ProductReleaseOwners => p \in ProductOwners
    /\ o \in ComponentReleaseOwners => p \in ComponentOwners
    /\ o \in DistributionOwners => p \in ComponentReleaseOwners

ParentsFit == \A o \in Owners : Exists(o) => ParentFits(o, row[o].parent)

TablesTypeOK ==
    /\ row \in [Owners -> Row \cup {NULL}]
    /\ identifier \in [Owners -> SUBSET Identifiers]
    /\ checksum \in [Owners -> SUBSET Files]
    /\ link \subseteq Link

TablesInv ==
    /\ TablesTypeOK
    /\ ParentsFit
    /\ ReferencesResolve
    /\ ReleaseUUIDsDisjoint

LEMMA NewRowType ==
    ASSUME NEW parent \in Owners \cup {NULL}, NEW content \in Contents
    PROVE  /\ NewRow(parent, content) \in Row
           /\ NewRow(parent, content) # NULL
           /\ NewRow(parent, content).parent = parent
           /\ NewRow(parent, content).content = content
           /\ NewRow(parent, content).revision = 1
<1>1. NewRow(parent, content) \in Row
  BY DEF NewRow, Row
<1> QED  BY <1>1, NULLAssumption DEF NewRow

-----------------------------------------------------------------------------
(* A row is inserted.                                                      *)

LEMMA InsertKeeps ==
    ASSUME TablesInv, NEW o \in Tops \cup ReleaseOwners, NEW parent,
           NEW content \in Contents, NEW ids \in SUBSET Identifiers,
           ~Exists(o), ParentFits(o, parent), parent # NULL => Exists(parent),
           \A u \in Releases :
              /\ o = ProductRelease(u) => ~Exists(ComponentRelease(u))
              /\ o = ComponentRelease(u) => ~Exists(ProductRelease(u)),
           Insert(o, parent, content, ids), UNCHANGED <<checksum, link>>
    PROVE  TablesInv'
<1>1. o \in Owners /\ parent \in Owners \cup {NULL}
  BY OwnerUnions DEF ParentFits
<1>2. /\ NewRow(parent, content) \in Row /\ NewRow(parent, content) # NULL
      /\ NewRow(parent, content).parent = parent
  BY <1>1, NewRowType
<1>3. \A x \in Owners : row'[x] = IF x = o THEN NewRow(parent, content) ELSE row[x]
  BY DEF Insert, TablesInv, TablesTypeOK
<1>4. \A x \in Owners : identifier'[x] = IF x = o THEN identifier[o] \cup ids ELSE identifier[x]
  BY DEF Insert, TablesInv, TablesTypeOK
<1>5. TablesTypeOK'
  BY <1>1, <1>2 DEF Insert, TablesInv, TablesTypeOK
<1>6. \A x \in Owners : Exists(x)' <=> (x = o \/ Exists(x))
  BY <1>2, <1>3 DEF Exists
<1>7. ParentsFit'
  BY <1>2, <1>3 DEF TablesInv, ParentsFit, ParentFits, Exists
<1>8. ReferencesResolve'
  <2>1. \A x \in Owners : Exists(x)' /\ row'[x].parent # NULL =>
            row'[x].parent \in Owners /\ Exists(row[x].parent)'
    <3> SUFFICES ASSUME NEW x \in Owners, Exists(x)', row'[x].parent # NULL
                 PROVE  row'[x].parent \in Owners /\ Exists(row[x].parent)'
      OBVIOUS
    <3>1. CASE x = o
      BY <1>1, <1>2, <1>3, <1>6, <3>1
    <3>2. CASE x # o
      <4>1. Exists(x) /\ row'[x] = row[x]
        BY <1>3, <1>6, <3>2
      <4>2. row[x].parent \in Owners
        BY <4>1 DEF TablesInv, TablesTypeOK, Exists, Row
      <4> QED  BY <1>6, <4>1, <4>2 DEF TablesInv, ReferencesResolve
    <3> QED  BY <3>1, <3>2
  <2>2. \A l \in link : l.release \in Owners /\ l.component \in Owners
                        /\ (l.pin # NULL => l.pin \in Owners)
    BY OwnerUnions DEF TablesInv, TablesTypeOK, Link
  <2>3. \A l \in link : Linkable(l)'
    BY <1>6, <2>2 DEF TablesInv, ReferencesResolve, Linkable
  <2>4. \A x \in Tops : identifier'[x] # {} => Exists(x)'
    BY <1>4, <1>6, OwnerUnions DEF TablesInv, ReferencesResolve
  <2> QED  BY <2>1, <2>3, <2>4 DEF TablesInv, ReferencesResolve, SameKey
<1>9. ReleaseUUIDsDisjoint'
  <2> SUFFICES ASSUME NEW u \in Releases, Exists(ProductRelease(u))',
                      Exists(ComponentRelease(u))'
               PROVE  FALSE
    BY DEF ReleaseUUIDsDisjoint
  <2>1. ProductRelease(u) \in Owners /\ ComponentRelease(u) \in Owners
    BY ReleaseUUIDs, OwnerUnions
  <2>2. ProductRelease(u) # ComponentRelease(u)
    BY ReleaseUUIDs, OwnerKinds
  <2> QED  BY <1>6, <2>1, <2>2 DEF TablesInv, ReleaseUUIDsDisjoint
<1> QED  BY <1>5, <1>7, <1>8, <1>9 DEF TablesInv

-----------------------------------------------------------------------------
(* Rows are revised, and distributions added to a release.                 *)

LEMMA RevisedRows ==
    ASSUME TablesTypeOK, NEW o \in Owners
    PROVE  /\ Revised(row, o) \in [Owners -> Row \cup {NULL}]
           /\ \A x \in Owners :
                /\ Revised(row, o)[x] = NULL <=> row[x] = NULL
                /\ x # o => Revised(row, o)[x] = row[x]
                /\ row[x] # NULL =>
                    /\ Revised(row, o)[x].parent = row[x].parent
                    /\ Revised(row, o)[x].content = row[x].content
           /\ row[o] # NULL => Revised(row, o)[o].revision = row[o].revision + 1
<1>1. CASE row[o] = NULL
  BY <1>1 DEF Revised, TablesTypeOK
<1>2. CASE row[o] # NULL
  <2> DEFINE r == [row[o] EXCEPT !.revision = @ + 1]
  <2>1. row[o] \in Row
    BY <1>2 DEF TablesTypeOK
  <2>2. /\ r \in Row /\ r.parent = row[o].parent /\ r.content = row[o].content
        /\ r.revision = row[o].revision + 1
    BY <2>1 DEF Row
  <2>3. r # NULL
    BY <2>2, NULLAssumption
  <2>4. Revised(row, o) = [row EXCEPT ![o] = r]
    BY <1>2 DEF Revised
  <2> HIDE DEF r
  <2> QED  BY <1>2, <2>2, <2>3, <2>4 DEF TablesTypeOK
<1> QED  BY <1>1, <1>2

\* Rows stay what they are but for their revisions, distributions D are new.
SameRows(D) ==
    \A x \in Owners \ D :
        /\ row'[x] = NULL <=> row[x] = NULL
        /\ row[x] # NULL =>
            row'[x].parent = row[x].parent /\ row'[x].content = row[x].content

NewDistributions(D) ==
    \A x \in D : /\ ~Exists(x) /\ Exists(x)'
                 /\ row'[x].parent \in ComponentReleaseOwners
                 /\ row'[x].parent \notin D
                 /\ Exists(row'[x].parent)

LEMMA RevisionKeeps ==
    ASSUME TablesInv, NEW D \in SUBSET DistributionOwners, TablesTypeOK',
           SameRows(D), NewDistributions(D),
           \A x \in Tops : identifier'[x] = identifier[x],
           \A l \in link' : Linkable(l),
           \A l, m \in link' : SameKey(l, m) => l = m
    PROVE  TablesInv'
<1>1. D \subseteq Owners
  BY OwnerUnions
<1>2. \A x \in Owners : Exists(x)' <=> (x \in D \/ Exists(x))
  BY <1>1 DEF SameRows, NewDistributions, Exists
<1>3. ParentsFit'
  <2> SUFFICES ASSUME NEW x \in Owners, Exists(x)'
               PROVE  ParentFits(x, row'[x].parent)
    BY DEF ParentsFit, ParentFits
  <2>1. CASE x \in D
    BY <2>1, OwnerKinds, OwnerUnions DEF NewDistributions, ParentFits
  <2>2. CASE x \notin D
    BY <1>2, <2>2 DEF SameRows, TablesInv, ParentsFit, Exists
  <2> QED  BY <2>1, <2>2
<1>4. ReferencesResolve'
  <2>1. \A x \in Owners : Exists(x)' /\ row'[x].parent # NULL => Exists(row[x].parent)'
    <3> SUFFICES ASSUME NEW x \in Owners, Exists(x)', row'[x].parent # NULL
                 PROVE  Exists(row[x].parent)'
      OBVIOUS
    <3>1. CASE x \in D
      BY <1>2, <3>1, OwnerUnions DEF NewDistributions
    <3>2. CASE x \notin D
      <4>1. Exists(x) /\ row'[x].parent = row[x].parent
        BY <1>2, <3>2 DEF SameRows, Exists
      <4>2. row[x].parent \in Owners
        BY <4>1 DEF TablesInv, TablesTypeOK, Exists, Row
      <4> QED  BY <1>2, <4>1, <4>2 DEF TablesInv, ReferencesResolve
    <3> QED  BY <3>1, <3>2
  <2>2. \A l \in link' : l.release \in Owners /\ l.component \in Owners
                         /\ (l.pin # NULL => l.pin \in Owners)
    BY OwnerUnions DEF TablesTypeOK, Link
  <2>3. \A l \in link' : Linkable(l)'
    BY <1>2, <2>2 DEF Linkable
  <2>4. \A x \in Tops : identifier'[x] # {} => Exists(x)'
    BY <1>2, OwnerUnions DEF TablesInv, ReferencesResolve
  <2> QED  BY <2>1, <2>3, <2>4 DEF ReferencesResolve, SameKey
<1>5. ReleaseUUIDsDisjoint'
  <2>1. \A u \in Releases : /\ ProductRelease(u) \in Owners \ D
                            /\ ComponentRelease(u) \in Owners \ D
    BY ReleaseUUIDs, OwnerUnions, OwnerKinds
  <2> QED  BY <1>2, <2>1 DEF TablesInv, ReleaseUUIDsDisjoint
<1> QED  BY <1>3, <1>4, <1>5 DEF TablesInv

\* What LinkComponent and ImportComponentLink have in common.
LEMMA LinkKeeps ==
    ASSUME TablesInv, NEW l \in Link, Linkable(l), NEW L \in SUBSET link,
           \A m \in L : ~SameKey(l, m),
           link' = L \cup {l}, row' = Revised(row, l.release),
           UNCHANGED <<identifier, checksum>>
    PROVE  TablesInv' /\ SameRows({}) /\ NewDistributions({})
<1>1. l.release \in Owners
  BY OwnerUnions DEF Link
<1>2. SameRows({}) /\ NewDistributions({}) /\ row' \in [Owners -> Row \cup {NULL}]
  BY <1>1, RevisedRows DEF SameRows, NewDistributions, TablesInv
<1>3. TablesTypeOK'
  BY <1>2 DEF TablesInv, TablesTypeOK
<1>4. \A m \in link' : Linkable(m)
  BY DEF TablesInv, ReferencesResolve
<1>5. \A m, n \in link' : SameKey(m, n) => m = n
  BY DEF TablesInv, ReferencesResolve, SameKey
<1> QED  BY <1>2, <1>3, <1>4, <1>5, RevisionKeeps

LEMMA DistributionKeeps ==
    ASSUME TablesInv, NEW o \in DistributionOwners, NEW release \in ComponentReleaseOwners,
           NEW content \in Contents, ~Exists(o), Exists(release),
           row' = InsertDistribution(o, release, content),
           identifier' \in [Owners -> SUBSET Identifiers],
           \A x \in Owners : x # o => identifier'[x] = identifier[x],
           checksum' \in [Owners -> SUBSET Files], UNCHANGED link
    PROVE  /\ TablesInv' /\ SameRows({o}) /\ NewDistributions({o})
           /\ row'[o].parent = release
           /\ row'[release].revision = row[release].revision + 1
<1>1. o \in Owners /\ release \in Owners /\ o # release
  BY OwnerUnions, OwnerKinds
<1>2. /\ NewRow(release, content) \in Row /\ NewRow(release, content) # NULL
      /\ NewRow(release, content).parent = release
  BY <1>1, NewRowType
<1>3. \A x \in Owners :
        row'[x] = IF x = o THEN NewRow(release, content) ELSE Revised(row, release)[x]
  BY <1>1, RevisedRows DEF InsertDistribution, TablesInv
<1>4. SameRows({o}) /\ NewDistributions({o})
  BY <1>1, <1>2, <1>3, RevisedRows DEF SameRows, NewDistributions, TablesInv, Exists
<1>5. TablesTypeOK'
  BY <1>1, <1>2, RevisedRows DEF InsertDistribution, TablesInv, TablesTypeOK
<1>6. \A x \in Tops : identifier'[x] = identifier[x]
  BY OwnerUnions, OwnerKinds
<1>7. \A m \in link' : Linkable(m)
  BY DEF TablesInv, ReferencesResolve
<1>8. \A m, n \in link' : SameKey(m, n) => m = n
  BY DEF TablesInv, ReferencesResolve
<1>9. TablesInv'
  BY <1>4, <1>5, <1>6, <1>7, <1>8, RevisionKeeps
<1> QED  BY <1>1, <1>2, <1>3, <1>4, <1>9, RevisedRows DEF TablesInv, Exists

LEMMA FileKeeps ==
    ASSUME TablesInv, NEW o \in DistributionOwners, NEW file \in Files, Exists(o),
           checksum' = [checksum EXCEPT ![o] = @ \cup {file}],
           row' = Revised(row, row[o].parent),
           UNCHANGED <<identifier, link>>
    PROVE  /\ TablesInv' /\ SameRows({}) /\ NewDistributions({})
           /\ row[o].parent \in ComponentReleaseOwners
           /\ row'[row[o].parent].revision = row[row[o].parent].revision + 1
<1>1. o \in Owners
  BY OwnerUnions
<1>2. row[o].parent \in ComponentReleaseOwners /\ row[o].parent \in Owners
      /\ row[row[o].parent] # NULL
  BY <1>1, OwnerUnions, OwnerKinds
     DEF TablesInv, ParentsFit, ParentFits, ReferencesResolve, Exists
<1>3. SameRows({}) /\ NewDistributions({}) /\ row' \in [Owners -> Row \cup {NULL}]
  BY <1>2, RevisedRows DEF SameRows, NewDistributions, TablesInv
<1>4. checksum[o] \cup {file} \in SUBSET Files
  BY <1>1 DEF TablesInv, TablesTypeOK
<1>5. TablesTypeOK'
  BY <1>3, <1>4 DEF TablesInv, TablesTypeOK
<1>6. \A m \in link' : Linkable(m)
  BY DEF TablesInv, ReferencesResolve
<1>7. \A m, n \in link' : SameKey(m, n) => m = n
  BY DEF TablesInv, ReferencesResolve
<1> QED  BY <1>2, <1>3, <1>5, <1>6, <1>7, RevisionKeeps, RevisedRows DEF TablesInv

-----------------------------------------------------------------------------
(* Deletion.                                                               *)

\* Nothing hangs below a row that the second step of the cascade deletes.
LEMMA CascadeIsClosed ==
    ASSUME TablesInv, NEW o \in Owners, NEW x \in Owners, Exists(x),
           row[x].parent \in Cascade(o)
    PROVE  x \in Cascade(o)
<1>1. CASE row[x].parent \in {o} \cup Children({o})
  BY <1>1 DEF Cascade, Children, Exists
<1>2. CASE row[x].parent \in Children(Children({o}))
  <2>1. PICK y \in Owners : /\ y = row[x].parent /\ row[y] # NULL
                            /\ row[y].parent \in Children({o})
    BY <1>2 DEF Children
  <2>2. PICK z \in Owners : z = row[y].parent /\ row[z] # NULL /\ row[z].parent = o
    BY <2>1 DEF Children
  <2>3. z \in ReleaseOwners
    BY <2>1, <2>2, OwnerUnions, OwnerKinds DEF TablesInv, ParentsFit, ParentFits, Exists
  <2>4. y \in DistributionOwners
    BY <2>1, <2>2, <2>3, OwnerUnions, OwnerKinds
       DEF TablesInv, ParentsFit, ParentFits, Exists
  <2>5. FALSE
    BY <2>1, <2>4, OwnerUnions, OwnerKinds DEF TablesInv, ParentsFit, ParentFits, Exists
  <2> QED  BY <2>5
<1> QED  BY <1>1, <1>2 DEF Cascade

\* A product or component is deleted only by itself, and a distribution only
\* with its release.
LEMMA CascadeKinds ==
    ASSUME TablesInv, NEW o \in Owners
    PROVE  /\ Cascade(o) \subseteq Owners
           /\ o \in Cascade(o)
           /\ \A x \in Tops : x \in Cascade(o) => x = o
           /\ o \notin DistributionOwners =>
                \A x \in DistributionOwners :
                    x \in Cascade(o) => Exists(x) /\ row[x].parent \in Cascade(o)
<1>1. Cascade(o) \subseteq Owners /\ o \in Cascade(o)
  BY DEF Cascade, Children
<1>2. \A x \in Cascade(o) : x # o => Exists(x) /\ row[x].parent \in Cascade(o)
                                     /\ row[x].parent # NULL
  <2>1. Children({o}) \subseteq Owners
    BY DEF Children
  <2> QED  BY <2>1, OwnerUnions DEF Cascade, Children, Exists
<1>3. \A x \in Tops : x \in Cascade(o) => x = o
  BY <1>2, OwnerUnions DEF TablesInv, ParentsFit, ParentFits
<1> QED  BY <1>1, <1>2, <1>3

LEMMA LinksAfterFacts ==
    ASSUME TablesInv, NEW D \in SUBSET Owners
    PROVE  /\ LinksAfter(D) \subseteq Link
           /\ \A m \in LinksAfter(D) :
                /\ m.release \notin D /\ m.component \notin D /\ m.pin \notin D
                /\ Linkable(m)
                /\ \E l \in link : SameKey(l, m) /\ m.pin = IF l.pin \in D THEN NULL ELSE l.pin
<1> DEFINE After(l) == [l EXCEPT !.pin = IF @ \in D THEN NULL ELSE @]
<1>1. \A l \in Link : /\ After(l) \in Link
                      /\ After(l).release = l.release /\ After(l).component = l.component
                      /\ After(l).pin = IF l.pin \in D THEN NULL ELSE l.pin
  BY DEF Link
<1>2. LinksAfter(D) = {After(l) : l \in {l \in link : l.release \notin D /\ l.component \notin D}}
  BY DEF LinksAfter
<1> HIDE DEF After
<1>3. link \subseteq Link /\ \A l \in link : Linkable(l)
  BY DEF TablesInv, TablesTypeOK, ReferencesResolve
<1> SUFFICES ASSUME NEW m \in LinksAfter(D)
             PROVE  /\ m \in Link
                    /\ m.release \notin D /\ m.component \notin D /\ m.pin \notin D
                    /\ Linkable(m)
                    /\ \E l \in link : /\ SameKey(l, m)
                                       /\ m.pin = IF l.pin \in D THEN NULL ELSE l.pin
  OBVIOUS
<1>4. PICK l \in link : m = After(l) /\ l.release \notin D /\ l.component \notin D
  BY <1>2
<1>5. m \in Link /\ SameKey(l, m) /\ m.pin = IF l.pin \in D THEN NULL ELSE l.pin
  BY <1>1, <1>3, <1>4 DEF SameKey
<1>6. m.release = l.release /\ m.component = l.component
  BY <1>1, <1>3, <1>4
<1>7. m.pin \notin D
  BY <1>5, OwnerUnions
<1>8. Linkable(m)
  BY <1>3, <1>4, <1>5, <1>6 DEF Linkable
<1> QED  BY <1>4, <1>5, <1>6, <1>7, <1>8

LEMMA DeleteKeeps ==
    ASSUME TablesInv, NEW o \in Tops \cup ReleaseOwners, Delete(o)
    PROVE  TablesInv'
<1>1. o \in Owners
  BY OwnerUnions
<1>2. \A x \in Owners : row'[x] = IF x \in Cascade(o) THEN NULL ELSE row[x]
  BY DEF Delete
<1>3. \A x \in Owners : Exists(x)' <=> Exists(x) /\ x \notin Cascade(o)
  BY <1>2 DEF Exists
<1>4. \A x \in Owners : identifier'[x] = IF x = o THEN {} ELSE identifier[x]
  BY <1>1 DEF Delete, deleteOwnerScoped, TablesInv, TablesTypeOK
<1>5. link' = LinksAfter(Cascade(o)) /\ Cascade(o) \in SUBSET Owners
  BY <1>1, CascadeKinds DEF Delete
<1>6. TablesTypeOK'
  BY <1>1, <1>5, LinksAfterFacts DEF Delete, deleteOwnerScoped, TablesInv, TablesTypeOK
<1>7. ParentsFit'
  BY <1>2, <1>3 DEF TablesInv, ParentsFit, ParentFits
<1>8. ReferencesResolve'
  <2>1. \A x \in Owners : Exists(x)' /\ row'[x].parent # NULL => Exists(row[x].parent)'
    <3> SUFFICES ASSUME NEW x \in Owners, Exists(x)', row'[x].parent # NULL
                 PROVE  Exists(row[x].parent)'
      OBVIOUS
    <3>1. Exists(x) /\ x \notin Cascade(o) /\ row'[x] = row[x]
      BY <1>2, <1>3
    <3>2. row[x].parent \in Owners /\ Exists(row[x].parent)
      BY <3>1 DEF TablesInv, TablesTypeOK, ReferencesResolve, Exists, Row
    <3>3. row[x].parent \notin Cascade(o)
      BY <1>1, <3>1, CascadeIsClosed
    <3> QED  BY <1>3, <3>1, <3>2, <3>3
  <2>2. \A l \in link' : Linkable(l)'
    <3> SUFFICES ASSUME NEW l \in link'
                 PROVE  Linkable(l)'
      OBVIOUS
    <3>1. /\ l.release \in Owners /\ l.component \in Owners
          /\ l.pin # NULL => l.pin \in Owners
      BY <1>6, OwnerUnions DEF TablesTypeOK, Link
    <3>2. l.release \notin Cascade(o) /\ l.component \notin Cascade(o)
          /\ l.pin \notin Cascade(o) /\ Linkable(l)
      BY <1>5, LinksAfterFacts
    <3> QED  BY <1>3, <3>1, <3>2 DEF Linkable
  <2>3. \A l, m \in link' : SameKey(l, m) => l = m
    <3> SUFFICES ASSUME NEW l \in link', NEW m \in link', SameKey(l, m)
                 PROVE  l = m
      OBVIOUS
    <3>1. PICK l0 \in link : /\ SameKey(l0, l)
                             /\ l.pin = IF l0.pin \in Cascade(o) THEN NULL ELSE l0.pin
      BY <1>5, LinksAfterFacts
    <3>2. PICK m0 \in link : /\ SameKey(m0, m)
                             /\ m.pin = IF m0.pin \in Cascade(o) THEN NULL ELSE m0.pin
      BY <1>5, LinksAfterFacts
    <3>3. l0 = m0
      BY <3>1, <3>2 DEF TablesInv, ReferencesResolve, SameKey
    <3>4. l \in Link /\ m \in Link
      BY <1>6 DEF TablesTypeOK
    <3> QED  BY <3>1, <3>2, <3>3, <3>4 DEF SameKey, Link
  <2>4. \A x \in Tops : identifier'[x] # {} => Exists(x)'
    BY <1>1, <1>3, <1>4, CascadeKinds, OwnerUnions DEF TablesInv, ReferencesResolve
  <2> QED  BY <2>1, <2>2, <2>3, <2>4 DEF ReferencesResolve, SameKey
<1>9. ReleaseUUIDsDisjoint'
  BY <1>3, ReleaseUUIDs, OwnerUnions DEF TablesInv, ReleaseUUIDsDisjoint
<1> QED  BY <1>6, <1>7, <1>8, <1>9 DEF TablesInv

-----------------------------------------------------------------------------
(* What a step leaves of the lists of products and of components, and of   *)
(* the component releases.                                                 *)

\* The consumer sees the same of product or component o.
SameTop(o) ==
    /\ row'[o] = NULL <=> row[o] = NULL
    /\ row[o] # NULL =>
        row'[o].parent = row[o].parent /\ row'[o].content = row[o].content
    /\ identifier'[o] = identifier[o]

\* The consumer sees the same of distribution d of component release o.
SameDistribution(o, d) ==
    /\ row'[d] # NULL /\ row'[d].parent = o <=> row[d] # NULL /\ row[d].parent = o
    /\ row[d] # NULL /\ row[d].parent = o =>
        /\ row'[d].content = row[d].content
        /\ identifier'[d] = identifier[d]
        /\ checksum'[d] = checksum[d]

ListStep(f) ==
    \/ watermark'[f] > watermark[f]
    \/ \A o \in Tops : Family(o) = f => SameTop(o)

ReleaseStep(o) ==
    Exists(o) /\ Exists(o)' =>
        \/ row'[o].revision > row[o].revision
        \/ SameTop(o) /\ \A d \in DistributionOwners : SameDistribution(o, d)

RowsStep ==
    /\ \A f \in {"products", "components"} : ListStep(f)
    /\ \A o \in ComponentReleaseOwners : ReleaseStep(o)

\* A product or component embeds nothing.
LEMMA TopEntities ==
    TablesInv =>
        \A o \in Tops : Entity(o) = [uuid |-> o, content |-> row[o].content,
                                     parent |-> row[o].parent,
                                     identifiers |-> identifier[o],
                                     components |-> {}, distributions |-> {}]
<1> SUFFICES ASSUME TablesInv, NEW o \in Tops
             PROVE  /\ {<<l.component, l.pin>> : l \in {l \in link : l.release = o}} = {}
                    /\ Distributed(o) = {}
  BY DEF Entity
<1>1. \A l \in link : l.release # o
  BY OwnerUnions, OwnerKinds DEF TablesInv, TablesTypeOK, Link
<1>2. Children({o}) \cap DistributionOwners = {}
  BY OwnerUnions, OwnerKinds DEF Children, TablesInv, ParentsFit, ParentFits, Exists
<1> QED  BY <1>1, <1>2 DEF Distributed

LEMMA ListIsSame ==
    ASSUME TablesInv, TablesInv', NEW CONSTANT f, NEW CONSTANT G,
           \A o \in Tops : Family(o) = f => SameTop(o), f \in {"products", "components"}
    PROVE  List(f, G)' = List(f, G)
<1> DEFINE E(o) == [uuid |-> o, content |-> row[o].content, parent |-> row[o].parent,
                    identifiers |-> identifier[o], components |-> {}, distributions |-> {}]
           S == Listed(f, G)
<1>1. \A o \in S : o \in Tops
  BY Families5 DEF Listed
<1>2. \A o \in Tops : Entity(o) = E(o)
  BY TopEntities
<1>3. TablesInv' => (\A o \in Tops : Entity(o) = E(o))'
  BY TopEntities, PTL
<1>4. \A o \in Tops : Entity(o)' = E(o)'
  BY <1>3
<1>5. S' = S
  BY Families5 DEF SameTop, Exists, Listed
<1>6. \A o \in S : E(o)' = E(o)
  BY <1>1 DEF SameTop, Exists, Listed
<1> HIDE DEF E
<1>7. \A o \in S : Entity(o)' = Entity(o)
  BY <1>1, <1>2, <1>4, <1>6
<1> QED  BY <1>5, <1>7 DEF List

\* A component release is never the release of a link.
LEMMA EntityIsSame ==
    ASSUME TablesInv, TablesInv', NEW o \in ComponentReleaseOwners, Exists(o), SameTop(o),
           \A d \in DistributionOwners : SameDistribution(o, d)
    PROVE  Entity(o)' = Entity(o)
<1> DEFINE Di(d) == [id |-> d, content |-> row[d].content, identifiers |-> identifier[d],
                     checksums |-> checksum[d]]
           S == Children({o}) \cap DistributionOwners
           C == {<<l.component, l.pin>> : l \in {l \in link : l.release = o}}
<1>1. \A l \in link \cup link' : l.release # o
  BY OwnerKinds DEF TablesInv, TablesTypeOK, Link
<1>2. C = {}
  BY <1>1
<1>3. C' = {}
  BY <1>1
<1>4. S' = S
  BY DEF SameDistribution, Children
<1>5. \A d \in S : Di(d)' = Di(d)
  BY DEF SameDistribution, Children
<1>6. Distributed(o)' = Distributed(o)
  <2> HIDE DEF Di
  <2>1. Distributed(o) = {Di(d) : d \in S} /\ Distributed(o)' = {Di(d)' : d \in S'}
    BY DEF Distributed, Di
  <2> HIDE DEF S
  <2> QED  BY <1>4, <1>5, <2>1
<1> HIDE DEF C
<1>7. Entity(o) = [uuid |-> o, content |-> row[o].content, parent |-> row[o].parent,
                   identifiers |-> identifier[o], components |-> C,
                   distributions |-> Distributed(o)]
  BY DEF Entity, C
<1>8. Entity(o)' = [uuid |-> o, content |-> row'[o].content, parent |-> row'[o].parent,
                    identifiers |-> identifier'[o], components |-> C',
                    distributions |-> Distributed(o)']
  BY DEF Entity, C
<1> QED  BY <1>2, <1>3, <1>6, <1>7, <1>8 DEF SameTop, Exists

-----------------------------------------------------------------------------
(* The steps of the rows.                                                  *)

LEMMA UnchangedRowsStep ==
    ASSUME UNCHANGED <<row, identifier, checksum>>
    PROVE  RowsStep
  BY DEF RowsStep, ListStep, ReleaseStep, SameTop, SameDistribution

LEMMA InsertRowsStep ==
    ASSUME TablesInv, NEW o \in Tops \cup ReleaseOwners, NEW parent, NEW content, NEW ids,
           ~Exists(o), Insert(o, parent, content, ids), UNCHANGED checksum,
           o \in Tops => watermark'[Family(o)] > watermark[Family(o)]
    PROVE  RowsStep
<1>1. \A x \in Owners : x # o => row'[x] = row[x] /\ identifier'[x] = identifier[x]
  BY OwnerUnions DEF Insert, TablesInv, TablesTypeOK
<1>2. \A x \in Owners : x # o => SameTop(x)
  BY <1>1 DEF SameTop
<1>3. \A f \in {"products", "components"} : ListStep(f)
  <2> SUFFICES ASSUME NEW f, ~(\A x \in Tops : Family(x) = f => SameTop(x))
               PROVE  watermark'[f] > watermark[f]
    BY DEF ListStep
  <2>1. PICK x \in Tops : Family(x) = f /\ ~SameTop(x)
    OBVIOUS
  <2>2. x = o
    BY <1>2, <2>1, OwnerUnions
  <2> QED  BY <2>1, <2>2
<1>4. \A x \in ComponentReleaseOwners : ReleaseStep(x)
  BY <1>1, <1>2, OwnerUnions, OwnerKinds DEF ReleaseStep, SameDistribution, Exists
<1> QED  BY <1>3, <1>4 DEF RowsStep

LEMMA LinkRowsStep ==
    ASSUME TablesInv, NEW o \in ProductReleaseOwners, row' = Revised(row, o),
           UNCHANGED <<identifier, checksum>>
    PROVE  RowsStep
<1>1. \A x \in Owners : x # o => row'[x] = row[x]
  BY OwnerUnions, RevisedRows DEF TablesInv
<1> QED
  BY <1>1, OwnerUnions, OwnerKinds
     DEF RowsStep, ListStep, ReleaseStep, SameTop, SameDistribution

LEMMA DistributionRowsStep ==
    ASSUME TablesInv, NEW o \in DistributionOwners, NEW release \in ComponentReleaseOwners,
           NEW content \in Contents, ~Exists(o), Exists(release),
           row' = InsertDistribution(o, release, content),
           \A x \in Owners : x # o => identifier'[x] = identifier[x]
                                      /\ checksum'[x] = checksum[x]
    PROVE  RowsStep
<1>1. o \in Owners /\ release \in Owners /\ o # release
  BY OwnerUnions, OwnerKinds
<1>2. \A x \in Owners :
        row'[x] = IF x = o THEN NewRow(release, content) ELSE Revised(row, release)[x]
  BY <1>1, RevisedRows DEF InsertDistribution, TablesInv
<1>3. \A x \in Owners : x # o /\ x # release => row'[x] = row[x]
  BY <1>1, <1>2, RevisedRows DEF TablesInv
<1>4. row[release] \in Row /\ row[release].revision \in Nat
  BY <1>1 DEF TablesInv, TablesTypeOK, Exists, Row
<1>5. row'[release].revision > row[release].revision
  BY <1>1, <1>2, <1>4, RevisedRows DEF TablesInv, Exists
<1>6. row'[o].parent = release
  BY <1>1, <1>2, NewRowType
<1>7. \A f \in {"products", "components"} : ListStep(f)
  BY <1>3, OwnerUnions, OwnerKinds DEF ListStep, SameTop
<1>8. \A x \in ComponentReleaseOwners : ReleaseStep(x)
  <2> SUFFICES ASSUME NEW x \in ComponentReleaseOwners, x # release
               PROVE  SameTop(x) /\ \A d \in DistributionOwners : SameDistribution(x, d)
    BY <1>5 DEF ReleaseStep
  <2>1. SameTop(x)
    BY <1>3, OwnerUnions, OwnerKinds DEF SameTop
  <2>2. ASSUME NEW d \in DistributionOwners PROVE SameDistribution(x, d)
    <3>1. CASE d = o
      BY <1>6, <3>1 DEF SameDistribution, Exists
    <3>2. CASE d # o
      BY <1>3, <3>2, OwnerUnions, OwnerKinds DEF SameDistribution
    <3> QED  BY <3>1, <3>2
  <2> QED  BY <2>1, <2>2
<1> QED  BY <1>7, <1>8 DEF RowsStep

LEMMA FileRowsStep ==
    ASSUME TablesInv, NEW o \in DistributionOwners, NEW file \in Files, Exists(o),
           checksum' = [checksum EXCEPT ![o] = @ \cup {file}],
           row' = Revised(row, row[o].parent),
           UNCHANGED identifier
    PROVE  RowsStep
<1> DEFINE release == row[o].parent
<1>1. o \in Owners
  BY OwnerUnions
<1>2. release \in ComponentReleaseOwners /\ release \in Owners /\ row[release] # NULL
  BY <1>1, OwnerUnions, OwnerKinds
     DEF TablesInv, ParentsFit, ParentFits, ReferencesResolve, Exists
<1>3. row[release] \in Row /\ row[release].revision \in Nat
  BY <1>2 DEF TablesInv, TablesTypeOK, Row
<1>4. row'[release].revision > row[release].revision
  BY <1>2, <1>3, RevisedRows DEF TablesInv
<1>5. \A x \in Owners : x # release => row'[x] = row[x]
  BY <1>2, RevisedRows DEF TablesInv
<1>6. \A x \in Owners : x # o => checksum'[x] = checksum[x]
  BY DEF TablesInv, TablesTypeOK
<1>7. \A f \in {"products", "components"} : ListStep(f)
  BY <1>2, <1>5, OwnerUnions, OwnerKinds DEF ListStep, SameTop
<1>8. \A x \in ComponentReleaseOwners : ReleaseStep(x)
  <2> SUFFICES ASSUME NEW x \in ComponentReleaseOwners, x # release
               PROVE  SameTop(x) /\ \A d \in DistributionOwners : SameDistribution(x, d)
    BY <1>4 DEF ReleaseStep
  <2>1. SameTop(x)
    BY <1>5, OwnerUnions, OwnerKinds DEF SameTop
  <2>2. \A d \in DistributionOwners : SameDistribution(x, d)
    BY <1>2, <1>5, <1>6, OwnerUnions, OwnerKinds DEF SameDistribution
  <2> QED  BY <2>1, <2>2
<1> QED  BY <1>7, <1>8 DEF RowsStep

LEMMA DeleteRowsStep ==
    ASSUME TablesInv, NEW o \in Tops \cup ReleaseOwners, Delete(o),
           watermark'[Family(o)] > watermark[Family(o)]
    PROVE  RowsStep
<1>1. o \in Owners /\ o \notin DistributionOwners
  BY OwnerUnions, OwnerKinds
<1>2. \A x \in Owners : row'[x] = IF x \in Cascade(o) THEN NULL ELSE row[x]
  BY DEF Delete
<1>3. \A x \in Owners : x # o => identifier'[x] = identifier[x]
  BY <1>1 DEF Delete, deleteOwnerScoped, TablesInv, TablesTypeOK
<1>4. \A f \in {"products", "components"} : ListStep(f)
  <2> SUFFICES ASSUME NEW f, ~(\A x \in Tops : Family(x) = f => SameTop(x))
               PROVE  watermark'[f] > watermark[f]
    BY DEF ListStep
  <2>1. PICK x \in Tops : Family(x) = f /\ ~SameTop(x)
    OBVIOUS
  <2>2. x = o
    BY <1>1, <1>2, <1>3, <2>1, CascadeKinds, OwnerUnions DEF SameTop
  <2> QED  BY <2>1, <2>2
<1>5. \A x \in ComponentReleaseOwners : ReleaseStep(x)
  <2> SUFFICES ASSUME NEW x \in ComponentReleaseOwners, Exists(x), Exists(x)'
               PROVE  SameTop(x) /\ \A d \in DistributionOwners : SameDistribution(x, d)
    BY DEF ReleaseStep
  <2>1. x \in Owners /\ x \notin Cascade(o) /\ x # o
    BY <1>1, <1>2, OwnerUnions, CascadeKinds DEF Exists
  <2>2. SameTop(x)
    BY <1>2, <1>3, <2>1 DEF SameTop
  <2>3. ASSUME NEW d \in DistributionOwners PROVE SameDistribution(x, d)
    <3>1. d \in Owners /\ d # o
      BY <1>1, OwnerUnions
    <3>2. checksum'[d] = checksum[d] /\ identifier'[d] = identifier[d]
      BY <1>3, <3>1 DEF Delete
    <3>3. CASE d \in Cascade(o)
      <4>1. row[d].parent # x
        BY <1>1, <2>1, <3>3, CascadeKinds
      <4> QED  BY <1>2, <3>1, <3>3, <4>1 DEF SameDistribution
    <3>4. CASE d \notin Cascade(o)
      BY <1>2, <3>1, <3>2, <3>4 DEF SameDistribution
    <3> QED  BY <3>3, <3>4
  <2> QED  BY <2>2, <2>3
<1> QED  BY <1>4, <1>5 DEF RowsStep

-----------------------------------------------------------------------------
(* The counters.                                                           *)

CountersTypeOK ==
    /\ collection \subseteq ReleaseOwners
    /\ event \in [Owners -> [Events -> Contents \cup {NULL}]]
    /\ support \in [Owners -> [SupportIds -> Contents \cup {NULL}]]
    /\ cleRevision \in [Owners -> Nat]
    /\ watermark \in [Families -> Nat]
    /\ creator \in [Creators -> Tops \cup {NULL}]

WatermarksGrow == \A f \in Families : watermark'[f] >= watermark[f]

\* CLE data changes only with its revision.
CLEStep ==
    \A o \in Owners :
        \/ cleRevision'[o] > cleRevision[o]
        \/ cleRevision'[o] = cleRevision[o] /\ CLE(o)' = CLE(o)

LEMMA Bumped ==
    ASSUME CountersTypeOK, NEW f \in Families, bumpWatermark(f)
    PROVE  /\ watermark' \in [Families -> Nat]
           /\ WatermarksGrow
           /\ watermark'[f] > watermark[f]
  BY DEF CountersTypeOK, bumpWatermark, WatermarksGrow

LEMMA BumpedTwice ==
    ASSUME CountersTypeOK, NEW f \in Families,
           watermark' = [watermark EXCEPT !["collections"] = @ + 1, ![f] = @ + 1]
    PROVE  watermark' \in [Families -> Nat] /\ WatermarksGrow
  BY DEF CountersTypeOK, WatermarksGrow, Families

LEMMA UnchangedCLE ==
    ASSUME UNCHANGED cle
    PROVE  CLEStep
  BY DEF CLEStep, CLE, cle

LEMMA RevisedCLE ==
    ASSUME CountersTypeOK, NEW o \in Owners, bumpCLERevision(o),
           \A x \in Owners : x # o => event'[x] = event[x] /\ support'[x] = support[x]
    PROVE  CLEStep /\ cleRevision' \in [Owners -> Nat]
  BY DEF CountersTypeOK, CLEStep, CLE, bumpCLERevision

LEMMA UnchangedTables ==
    ASSUME TablesInv, UNCHANGED <<row, identifier, checksum, link>>
    PROVE  TablesInv'
  BY DEF TablesInv, TablesTypeOK, ParentsFit, ParentFits, ReferencesResolve, Linkable,
         SameKey, ReleaseUUIDsDisjoint, Exists

-----------------------------------------------------------------------------
(* What every step does.                                                   *)

WriteStep ==
    /\ TablesInv'
    /\ CountersTypeOK'
    /\ RowsStep
    /\ WatermarksGrow
    /\ CLEStep

LEMMA InsertTopWrites ==
    ASSUME TablesInv, CountersTypeOK, NEW o \in Tops, NEW content \in Contents,
           NEW ids \in SUBSET Identifiers, ~Exists(o), Insert(o, NULL, content, ids),
           bumpWatermark(Family(o)), UNCHANGED <<checksum, link, collection, cle, creator>>
    PROVE  WriteStep
<1>1. watermark' \in [Families -> Nat] /\ WatermarksGrow
      /\ watermark'[Family(o)] > watermark[Family(o)]
  BY Bumped, Families5
<1>2. TablesInv'
  <2>1. ParentFits(o, NULL)
    BY OwnerUnions, OwnerKinds DEF ParentFits
  <2>2. \A u \in Releases : o # ProductRelease(u) /\ o # ComponentRelease(u)
    BY OwnerUnions, OwnerKinds, ReleaseUUIDs
  <2> QED  BY <2>1, <2>2, InsertKeeps
<1>3. RowsStep
  BY <1>1, InsertRowsStep
<1>4. CountersTypeOK'
  BY <1>1 DEF CountersTypeOK, cle
<1>5. CLEStep
  BY UnchangedCLE
<1> QED  BY <1>1, <1>2, <1>3, <1>4, <1>5 DEF WriteStep

LEMMA InsertReleaseWrites ==
    ASSUME TablesInv, CountersTypeOK, NEW u \in Releases, NEW o, NEW parent,
           \/ o = ProductRelease(u) /\ parent \in ProductOwners
           \/ o = ComponentRelease(u) /\ parent \in ComponentOwners,
           NEW content \in Contents, NEW ids \in SUBSET Identifiers,
           Fresh(u), Exists(parent), Insert(o, parent, content, ids),
           watermark' \in [Families -> Nat], WatermarksGrow,
           collection' \subseteq ReleaseOwners, creator' \in [Creators -> Tops \cup {NULL}],
           UNCHANGED <<checksum, link, cle>>
    PROVE  WriteStep
<1>1. o \in ReleaseOwners /\ o \notin Tops
  BY ReleaseUUIDs, OwnerUnions, OwnerKinds
<1>2. ~Exists(o)
  BY DEF Fresh
<1>3. ParentFits(o, parent)
  BY ReleaseUUIDs, OwnerUnions, OwnerKinds DEF ParentFits
<1>4. \A v \in Releases : /\ o = ProductRelease(v) => ~Exists(ComponentRelease(v))
                          /\ o = ComponentRelease(v) => ~Exists(ProductRelease(v))
  <2>1. \A v \in Releases : ProductRelease(u) # ComponentRelease(v)
                            /\ ProductRelease(v) # ComponentRelease(u)
    BY ReleaseUUIDs, OwnerKinds
  <2> QED  BY <2>1, ReleaseUUIDs DEF Fresh
<1>5. TablesInv'
  BY <1>1, <1>2, <1>3, <1>4, InsertKeeps
<1>6. RowsStep
  BY <1>1, <1>2, InsertRowsStep
<1>7. CountersTypeOK'
  BY DEF CountersTypeOK, cle
<1>8. CLEStep
  BY UnchangedCLE
<1> QED  BY <1>5, <1>6, <1>7, <1>8 DEF WriteStep

LEMMA CreateOrImportWrites ==
    ASSUME TablesInv, CountersTypeOK, NEW content \in Contents, NEW ids \in IdentifierSets,
           CreateOrImport(content, ids)
    PROVE  WriteStep /\ UNCHANGED readers
<1>1. ids \in SUBSET Identifiers
  BY IdentifierSetsAssumption
<1>2. ASSUME NEW u \in Products, CreateProduct(u, content, ids) \/ ImportProduct(u, content, ids)
      PROVE  WriteStep /\ UNCHANGED readers
  <2>1. Product(u) \in Tops /\ Family(Product(u)) = "products"
    BY OwnersOf, OwnerUnions, Families5
  <2> QED  BY <1>1, <1>2, <2>1, InsertTopWrites DEF CreateProduct, ImportProduct
<1>3. ASSUME NEW u \in Components,
             CreateComponent(u, content, ids) \/ ImportComponent(u, content, ids)
      PROVE  WriteStep /\ UNCHANGED readers
  <2>1. Component(u) \in Tops /\ Family(Component(u)) = "components"
    BY OwnersOf, OwnerUnions, Families5
  <2> QED  BY <1>1, <1>3, <2>1, InsertTopWrites DEF CreateComponent, ImportComponent
<1>4. ASSUME NEW u \in Releases, NEW h \in Creators, NEW o,
             \/ o = ProductRelease(u) /\ creator[h] \in ProductOwners
             \/ o = ComponentRelease(u) /\ creator[h] \in ComponentOwners,
             Fresh(u), InsertRelease(h, o, content, ids)
      PROVE  WriteStep /\ UNCHANGED readers
  <2>1. o \in ReleaseOwners
    BY <1>4, ReleaseUUIDs, OwnerUnions
  <2>2. watermark' \in [Families -> Nat] /\ WatermarksGrow
    BY <1>4, BumpedTwice, Families5 DEF InsertRelease
  <2>3. collection' \subseteq ReleaseOwners /\ creator' \in [Creators -> Tops \cup {NULL}]
    BY <1>4, <2>1 DEF InsertRelease, CountersTypeOK
  <2> QED  BY <1>1, <1>4, <2>2, <2>3, InsertReleaseWrites DEF InsertRelease
<1>5. ASSUME NEW u \in Releases, NEW h \in Creators,
             CreateProductRelease(h, u, content, ids) \/ CreateComponentRelease(h, u, content, ids)
      PROVE  WriteStep /\ UNCHANGED readers
  BY <1>4, <1>5 DEF CreateProductRelease, CreateComponentRelease
<1>6. ASSUME NEW u \in Releases, NEW p \in ProductOwners,
             ImportProductRelease(u, p, content, ids)
      PROVE  WriteStep /\ UNCHANGED readers
  <2>1. watermark' \in [Families -> Nat] /\ WatermarksGrow
    BY <1>6, Bumped DEF ImportProductRelease, Families
  <2>2. collection' \subseteq ReleaseOwners /\ creator' \in [Creators -> Tops \cup {NULL}]
    BY <1>6 DEF ImportProductRelease, CountersTypeOK
  <2>3. Fresh(u) /\ Exists(p)
    BY <1>6 DEF ImportProductRelease, Importable, Fresh
  <2> QED  BY <1>1, <1>6, <2>1, <2>2, <2>3, InsertReleaseWrites DEF ImportProductRelease
<1>7. ASSUME NEW u \in Releases, NEW p \in ComponentOwners,
             ImportComponentRelease(u, p, content, ids)
      PROVE  WriteStep /\ UNCHANGED readers
  <2>1. watermark' \in [Families -> Nat] /\ WatermarksGrow
    BY <1>7, Bumped DEF ImportComponentRelease, Families
  <2>2. collection' \subseteq ReleaseOwners /\ creator' \in [Creators -> Tops \cup {NULL}]
    BY <1>7 DEF ImportComponentRelease, CountersTypeOK
  <2>3. Fresh(u) /\ Exists(p)
    BY <1>7 DEF ImportComponentRelease, Importable, Fresh
  <2> QED  BY <1>1, <1>7, <2>1, <2>2, <2>3, InsertReleaseWrites DEF ImportComponentRelease
<1>8. ASSUME NEW u \in Distributions, NEW r \in ComponentReleaseOwners,
             \/ CreateDistribution(u, r, content)
             \/ \E sums \in SUBSET Files : ImportDistribution(u, r, content, ids, sums)
      PROVE  WriteStep /\ UNCHANGED readers
  <2> DEFINE o == Distribution(u)
  <2>1. o \in DistributionOwners /\ o \in Owners
    BY OwnersOf, OwnerUnions
  <2> HIDE DEF o
  <2>2. /\ ~Exists(o) /\ Exists(r) /\ row' = InsertDistribution(o, r, content)
        /\ bumpWatermark("componentReleases")
        /\ UNCHANGED <<link, collection, cle, creator, readers>>
    BY <1>8 DEF CreateDistribution, ImportDistribution, o
  <2>3. \/ UNCHANGED <<identifier, checksum>>
        \/ \E sums \in SUBSET Files : /\ identifier' = [identifier EXCEPT ![o] = @ \cup ids]
                                      /\ checksum' = [checksum EXCEPT ![o] = @ \cup sums]
    BY <1>8 DEF CreateDistribution, ImportDistribution, o
  <2>4. /\ identifier' \in [Owners -> SUBSET Identifiers]
        /\ checksum' \in [Owners -> SUBSET Files]
        /\ \A x \in Owners : x # o => identifier'[x] = identifier[x]
                                      /\ checksum'[x] = checksum[x]
    BY <1>1, <2>1, <2>3 DEF TablesInv, TablesTypeOK
  <2>5. TablesInv'
    BY <2>1, <2>2, <2>4, DistributionKeeps
  <2>6. RowsStep
    BY <2>1, <2>2, <2>4, DistributionRowsStep
  <2>7. watermark' \in [Families -> Nat] /\ WatermarksGrow
    BY <2>2, Bumped DEF Families
  <2>8. CountersTypeOK'
    BY <2>2, <2>7 DEF CountersTypeOK, cle
  <2> QED  BY <2>2, <2>5, <2>6, <2>7, <2>8, UnchangedCLE DEF WriteStep
<1> QED  BY <1>2, <1>3, <1>5, <1>6, <1>7, <1>8 DEF CreateOrImport

LEMMA LinkWrites ==
    ASSUME TablesInv, CountersTypeOK, NEW l \in Link,
           LinkComponent(l) \/ ImportComponentLink(l)
    PROVE  WriteStep /\ UNCHANGED readers
<1>1. /\ Linkable(l) /\ row' = Revised(row, l.release) /\ bumpWatermark("productReleases")
      /\ UNCHANGED <<identifier, checksum, collection, cle, creator, readers>>
  BY DEF LinkComponent, ImportComponentLink
<1>2. PICK L \in SUBSET link : (\A m \in L : ~SameKey(l, m)) /\ link' = L \cup {l}
  <2>1. CASE LinkComponent(l)
    BY <2>1 DEF LinkComponent
  <2>2. CASE ImportComponentLink(l)
    BY <2>2 DEF ImportComponentLink
  <2> QED  BY <2>1, <2>2
<1>3. TablesInv'
  BY <1>1, <1>2, LinkKeeps
<1>4. RowsStep
  BY <1>1, LinkRowsStep DEF Link
<1>5. watermark' \in [Families -> Nat] /\ WatermarksGrow
  BY <1>1, Bumped DEF Families
<1>6. CountersTypeOK'
  BY <1>1, <1>5 DEF CountersTypeOK, cle
<1> QED  BY <1>1, <1>3, <1>4, <1>5, <1>6, UnchangedCLE DEF WriteStep

LEMMA FileWrites ==
    ASSUME TablesInv, CountersTypeOK, NEW u \in Distributions, NEW file \in Files,
           SetDistributionFile(u, file)
    PROVE  WriteStep /\ UNCHANGED readers
<1> DEFINE o == Distribution(u)
<1>1. o \in DistributionOwners
  BY OwnersOf
<1>2. /\ Exists(o) /\ checksum' = [checksum EXCEPT ![o] = @ \cup {file}]
      /\ row' = Revised(row, row[o].parent) /\ bumpWatermark("componentReleases")
      /\ UNCHANGED <<identifier, link, collection, cle, creator, readers>>
  BY DEF SetDistributionFile
<1> HIDE DEF o
<1>3. TablesInv'
  BY <1>1, <1>2, FileKeeps
<1>4. RowsStep
  BY <1>1, <1>2, FileRowsStep
<1>5. watermark' \in [Families -> Nat] /\ WatermarksGrow
  BY <1>2, Bumped DEF Families
<1>6. CountersTypeOK'
  BY <1>2, <1>5 DEF CountersTypeOK, cle
<1> QED  BY <1>2, <1>3, <1>4, <1>5, <1>6, UnchangedCLE DEF WriteStep

LEMMA DeleteWrites ==
    ASSUME TablesInv, CountersTypeOK, NEW o \in Tops \cup ReleaseOwners, Delete(o)
    PROVE  WriteStep /\ UNCHANGED readers
<1>1. o \in Owners
  BY OwnerUnions
<1>2. /\ watermark' \in [Families -> Nat] /\ WatermarksGrow
      /\ watermark'[Family(o)] > watermark[Family(o)]
  BY Bumped, Families5 DEF Delete
<1>3. TablesInv' /\ RowsStep
  BY <1>2, DeleteKeeps, DeleteRowsStep
<1>4. /\ event' = [event EXCEPT ![o] = NoEvents]
      /\ support' = [support EXCEPT ![o] = NoSupport]
      /\ bumpCLERevision(o)
      /\ UNCHANGED <<collection, creator, readers>>
  BY DEF Delete, deleteOwnerScoped
<1>5. \A x \in Owners : x # o => event'[x] = event[x] /\ support'[x] = support[x]
  BY <1>4 DEF CountersTypeOK
<1>6. CLEStep /\ cleRevision' \in [Owners -> Nat]
  BY <1>1, <1>4, <1>5, RevisedCLE
<1>7. CountersTypeOK'
  <2>1. /\ NoEvents \in [Events -> Contents \cup {NULL}]
        /\ NoSupport \in [SupportIds -> Contents \cup {NULL}]
    BY DEF NoEvents, NoSupport
  <2> QED  BY <1>1, <1>2, <1>4, <1>6, <2>1 DEF CountersTypeOK
<1> QED  BY <1>2, <1>3, <1>4, <1>6, <1>7 DEF WriteStep

LEMMA CLEWrites ==
    ASSUME TablesInv, CountersTypeOK, NEW o \in CLEOwners, NEW content \in Contents,
           WriteCLE(o, content)
    PROVE  WriteStep /\ UNCHANGED readers
<1>1. o \in Owners
  BY CLEOwnersAssumption, OwnerUnions
<1>2. \/ \E i : AddEvent(o, i, content)
      \/ \E s \in SupportIds : AddSupport(o, s, content)
  BY DEF WriteCLE, CreateCLEEvent, ImportCLEEvent, CreateCLESupportDefinition,
         ImportCLESupportDefinition
<1>3. /\ bumpCLERevision(o)
      /\ UNCHANGED <<row, identifier, checksum, link, collection, watermark, creator, readers>>
      /\ event' \in [Owners -> [Events -> Contents \cup {NULL}]]
      /\ support' \in [Owners -> [SupportIds -> Contents \cup {NULL}]]
      /\ \A x \in Owners : x # o => event'[x] = event[x] /\ support'[x] = support[x]
  <2>1. ASSUME NEW i, AddEvent(o, i, content) PROVE <1>3!:
    <3>1. [event[o] EXCEPT ![i] = content] \in [Events -> Contents \cup {NULL}]
      BY <1>1 DEF CountersTypeOK
    <3> QED  BY <1>1, <2>1, <3>1 DEF AddEvent, tables, CountersTypeOK
  <2>2. ASSUME NEW s \in SupportIds, AddSupport(o, s, content) PROVE <1>3!:
    <3>1. [support[o] EXCEPT ![s] = content] \in [SupportIds -> Contents \cup {NULL}]
      BY <1>1 DEF CountersTypeOK
    <3> QED  BY <1>1, <2>2, <3>1 DEF AddSupport, tables, CountersTypeOK
  <2> QED  BY <1>2, <2>1, <2>2
<1>4. CLEStep /\ cleRevision' \in [Owners -> Nat]
  BY <1>1, <1>3, RevisedCLE
<1>5. TablesInv' /\ RowsStep
  BY <1>3, UnchangedTables, UnchangedRowsStep
<1>6. WatermarksGrow /\ CountersTypeOK'
  BY <1>3, <1>4 DEF WatermarksGrow, CountersTypeOK
<1> QED  BY <1>3, <1>4, <1>5, <1>6 DEF WriteStep

LEMMA CreatorWrites ==
    ASSUME TablesInv, CountersTypeOK, NEW h \in Creators,
           CreateReleaseFails(h) \/ \E p \in Tops : LookUpParent(h, p)
    PROVE  WriteStep /\ UNCHANGED readers
<1>1. /\ creator' \in [Creators -> Tops \cup {NULL}]
      /\ UNCHANGED <<row, identifier, checksum, link, collection, cle, watermark, readers>>
  BY DEF CreateReleaseFails, LookUpParent, tables, CountersTypeOK
<1>2. TablesInv' /\ RowsStep
  BY <1>1, UnchangedTables, UnchangedRowsStep
<1>3. WatermarksGrow /\ CountersTypeOK'
  BY <1>1 DEF WatermarksGrow, CountersTypeOK, cle
<1> QED  BY <1>1, <1>2, <1>3, UnchangedCLE DEF WriteStep

LEMMA NothingWritten ==
    ASSUME TablesInv, CountersTypeOK, UNCHANGED <<tables, cle, watermark, creator>>
    PROVE  WriteStep
<1>1. TablesInv' /\ RowsStep
  BY UnchangedTables, UnchangedRowsStep DEF tables
<1>2. WatermarksGrow /\ CountersTypeOK'
  BY DEF WatermarksGrow, CountersTypeOK, cle, tables
<1> QED  BY <1>1, <1>2, UnchangedCLE DEF WriteStep

\* What a consumer does, and what is done to its entitlements.
ReadStep(c) ==
    \/ Respond(c)
    \/ \E url \in ReadURLs : Request(c, url)
    \/ \E G \in Grants, s \in 0..MaxSuffix : ChangeEntitlements(c, G, s)

\* The reads and, by the lemmas above, the writes.
LEMMA NextWrites ==
    ASSUME TablesInv, CountersTypeOK, [Next]_vars
    PROVE  /\ WriteStep
           /\ \/ UNCHANGED readers
              \/ \E c \in Clients : ReadStep(c)
<1>1. CASE UNCHANGED vars
  BY <1>1, NothingWritten DEF vars
<1>2. CASE \E c \in Clients : ReadStep(c)
  BY <1>2, NothingWritten DEF ReadStep, Respond, Request, ChangeEntitlements
<1>3. CASE \E u \in Products : DeleteProduct(u)
  BY <1>3, OwnersOf, OwnerUnions, DeleteWrites DEF DeleteProduct
<1>4. CASE \E u \in Components : DeleteComponent(u)
  BY <1>4, OwnersOf, OwnerUnions, DeleteWrites DEF DeleteComponent
<1>5. CASE \E u \in Releases : DeleteProductRelease(u) \/ DeleteComponentRelease(u)
  BY <1>5, ReleaseUUIDs, OwnerUnions, DeleteWrites
     DEF DeleteProductRelease, DeleteComponentRelease
<1> QED
  BY <1>1, <1>2, <1>3, <1>4, <1>5, CreateOrImportWrites, CreatorWrites, LinkWrites,
     FileWrites, CLEWrites DEF Next, ReadStep

-----------------------------------------------------------------------------
(* The clients.  A copy or a response on its way never has a counter from  *)
(* the future; a copy with the present one has the present data, of what   *)
(* the client was let read.  The counter is read before the body, so a     *)
(* write between the two leaves a copy with a counter of the past.  The    *)
(* suffix of the ETag plays no part: it only makes more ETags differ.      *)

Validated == CLEURLs \cup Lists({"products", "components"})

ViewsTypeOK ==
    /\ granted \in [Clients -> SUBSET Capabilities]
    /\ suffix \in [Clients -> 0..MaxSuffix]

\* What holds of a response on its way, and of a copy.
RequestOK(q) == q.etag.counter <= Counter(q.url)

CopyOK(k) ==
    /\ k.url \in URLs
    /\ k.etag \in ETags
    /\ k.etag.counter <= Counter(k.url)
    /\ k.url \in Validated /\ k.etag.counter = Counter(k.url) =>
            k.body = Body(k.url, k.granted)

ClientsInv ==
    /\ ViewsTypeOK
    /\ request \in [Clients -> Requests \cup {NULL}]
    /\ DOMAIN copy = Clients
    /\ \A c \in Clients : request[c] # NULL => RequestOK(request[c])
    /\ \A c \in Clients : copy[c] # NULL => CopyOK(copy[c])

CatalogueInv == TablesInv /\ CountersTypeOK /\ ClientsInv

\* The counter behind a URL is never lowered.
LEMMA CountersGrow ==
    ASSUME CountersTypeOK, CountersTypeOK', WatermarksGrow, CLEStep, NEW url \in URLs
    PROVE  Counter(url) \in Nat /\ Counter(url)' \in Nat /\ Counter(url)' >= Counter(url)
<1>1. CASE url \in CLEURLs
  <2>1. url[1] = "cle" /\ url[2] \in Owners
    BY <1>1, CLEOwnersAssumption, OwnerUnions DEF CLEURLs
  <2>2. Counter(url) = cleRevision[url[2]] /\ Counter(url)' = cleRevision'[url[2]]
    BY <2>1 DEF Counter
  <2>3. cleRevision[url[2]] \in Nat /\ cleRevision'[url[2]] \in Nat
    BY <2>1 DEF CountersTypeOK
  <2>4. cleRevision'[url[2]] >= cleRevision[url[2]]
    BY <2>1, <2>3 DEF CLEStep
  <2> QED  BY <2>2, <2>3, <2>4
<1>2. CASE url \in Lists(ListedFamilies)
  <2>1. url[1] = "list" /\ url[2] \in Families
    BY <1>2 DEF Lists, ListedFamilies
  <2> QED  BY <2>1 DEF Counter, CountersTypeOK, WatermarksGrow
<1> QED  BY <1>1, <1>2 DEF URLs

\* The data behind a validated URL does not change under its counter, in whatever
\* a client may be let read.
LEMMA BodyFollowsCounter ==
    ASSUME TablesInv, CountersTypeOK, WriteStep, NEW CONSTANT url \in Validated,
           NEW CONSTANT G, Counter(url)' = Counter(url)
    PROVE  Body(url, G)' = Body(url, G)
<1>1. CASE url \in CLEURLs
  <2>1. url[1] = "cle" /\ url[2] \in Owners
    BY <1>1, CLEOwnersAssumption, OwnerUnions DEF CLEURLs
  <2>2. cleRevision'[url[2]] = cleRevision[url[2]] /\ cleRevision[url[2]] \in Nat
    BY <2>1 DEF Counter, CountersTypeOK
  <2>3. CLE(url[2])' = CLE(url[2])
    BY <2>1, <2>2 DEF WriteStep, CLEStep
  <2> QED  BY <2>1, <2>3 DEF Body
<1>2. CASE url \in Lists({"products", "components"})
  <2>1. url[1] = "list" /\ url[2] \in {"products", "components"} /\ url[2] \in Families
    BY <1>2 DEF Lists, Families
  <2>2. watermark'[url[2]] = watermark[url[2]] /\ watermark[url[2]] \in Nat
    BY <2>1 DEF Counter, CountersTypeOK
  <2>3. \A o \in Tops : Family(o) = url[2] => SameTop(o)
    BY <2>1, <2>2 DEF WriteStep, RowsStep, ListStep
  <2>4. List(url[2], G)' = List(url[2], G)
    BY <2>1, <2>3, ListIsSame DEF WriteStep
  <2> QED  BY <2>1, <2>4 DEF Body
<1> QED  BY <1>1, <1>2 DEF Validated

\* A write leaves what holds of responses and of copies.
LEMMA ResponsesKept ==
    ASSUME TablesInv, CountersTypeOK, WriteStep
    PROVE  /\ \A q \in Requests : RequestOK(q) => RequestOK(q)'
           /\ \A k : CopyOK(k) => CopyOK(k)'
<1>1. \A url \in URLs :
        Counter(url) \in Nat /\ Counter(url)' \in Nat /\ Counter(url)' >= Counter(url)
  BY CountersGrow DEF WriteStep
<1>2. \A url \in Validated : \A G : Counter(url)' = Counter(url) => Body(url, G)' = Body(url, G)
  BY BodyFollowsCounter
<1>3. ASSUME NEW CONSTANT q \in Requests, RequestOK(q)
      PROVE  RequestOK(q)'
  <2>1. q.url \in URLs /\ q.etag.counter \in Nat
    BY <1>3 DEF Requests, ETags
  <2> QED  BY <1>1, <1>3, <2>1 DEF RequestOK
<1>4. ASSUME NEW CONSTANT k, CopyOK(k)
      PROVE  CopyOK(k)'
  <2>1. k.url \in URLs /\ k.etag \in ETags /\ k.etag.counter \in Nat
    BY <1>4 DEF CopyOK, ETags
  <2>2. k.etag.counter <= Counter(k.url)'
    BY <1>1, <1>4, <2>1 DEF CopyOK
  <2>3. ASSUME k.url \in Validated, k.etag.counter = Counter(k.url)'
        PROVE  k.body = Body(k.url, k.granted)'
    <3>1. Counter(k.url)' = Counter(k.url)
      BY <1>1, <1>4, <2>1, <2>3 DEF CopyOK
    <3>2. k.body = Body(k.url, k.granted)
      BY <1>4, <2>3, <3>1 DEF CopyOK
    <3>3. Body(k.url, k.granted)' = Body(k.url, k.granted)
      BY <1>2, <2>3, <3>1
    <3> QED  BY <3>2, <3>3
  <2> QED  BY <2>1, <2>2, <2>3 DEF CopyOK
<1> QED  BY <1>3, <1>4

LEMMA ClientsKept ==
    ASSUME TablesInv, CountersTypeOK, ClientsInv, WriteStep, UNCHANGED readers
    PROVE  ClientsInv'
<1>1. /\ \A q \in Requests : RequestOK(q) => RequestOK(q)'
      /\ \A k : CopyOK(k) => CopyOK(k)'
  BY ResponsesKept
<1>2. request' = request /\ copy' = copy /\ ViewsTypeOK'
  BY DEF readers, views, ClientsInv, ViewsTypeOK
<1>3. ASSUME NEW c \in Clients, request[c] # NULL
      PROVE  RequestOK(request[c])'
  <2>1. PICK q \in Requests : q = request[c]
    BY <1>3 DEF ClientsInv
  <2> QED  BY <1>1, <1>2, <1>3, <2>1 DEF ClientsInv
<1>4. ASSUME NEW c \in Clients, copy[c] # NULL
      PROVE  CopyOK(copy[c])'
  <2>1. PICK k : k = copy[c]
    OBVIOUS
  <2> QED  BY <1>1, <1>2, <1>4, <2>1 DEF ClientsInv
<1> QED  BY <1>2, <1>3, <1>4 DEF ClientsInv

LEMMA ReadKeeps ==
    ASSUME TablesInv, CountersTypeOK, ClientsInv, NEW c \in Clients, ReadStep(c)
    PROVE  ClientsInv'
<1>1. UNCHANGED <<row, identifier, checksum, link, event, support, cleRevision, watermark>>
  BY DEF ReadStep, Respond, Request, ChangeEntitlements, tables, cle
<1>2. \A url : Counter(url)' = Counter(url)
  BY <1>1 DEF Counter
<1>3. \A url, G : Body(url, G)' = Body(url, G)
  BY <1>1 DEF Body, CLE, List, Listed, Entity, Distributed, Children, Exists
<1>4. \A url \in URLs : Counter(url) \in Nat
  <2>1. UNCHANGED <<tables, cle, watermark, creator>>
    BY DEF ReadStep, Respond, Request, ChangeEntitlements
  <2> QED  BY <2>1, CountersGrow, NothingWritten DEF WriteStep
<1>5. \A q : RequestOK(q) => RequestOK(q)'
  BY <1>2 DEF RequestOK
<1>6. \A k : CopyOK(k) => CopyOK(k)'
  BY <1>2, <1>3 DEF CopyOK
<1>7. ASSUME NEW url \in ReadURLs, Request(c, url)
      PROVE  ClientsInv'
  <2> DEFINE q == [url |-> url, etag |-> ETag(c, url)]
  <2>1. copy' = copy /\ request' = [request EXCEPT ![c] = q] /\ ViewsTypeOK'
    BY <1>7 DEF Request, views, ClientsInv, ViewsTypeOK
  <2>2. url \in URLs /\ Counter(url) \in Nat
    BY <1>4, ReadURLsAssumption
  <2>3. suffix[c] \in Nat
    BY ConsumersAssumption DEF ClientsInv, ViewsTypeOK
  <2>4. ETag(c, url) \in ETags /\ ETag(c, url).counter = Counter(url)
    BY <2>2, <2>3 DEF ETag, ETags
  <2>5. q \in Requests /\ RequestOK(q)
    BY <2>2, <2>4 DEF Requests, RequestOK
  <2> HIDE DEF q
  <2>6. \A d \in Clients : request'[d] # NULL => RequestOK(request'[d])
    BY <2>1, <2>5 DEF ClientsInv
  <2>7. \A d \in Clients : request'[d] # NULL => RequestOK(request[d])'
    BY <2>6, <1>2 DEF RequestOK
  <2>8. \A d \in Clients : copy'[d] # NULL => CopyOK(copy[d])'
    BY <1>6, <2>1 DEF ClientsInv
  <2> QED  BY <2>1, <2>5, <2>7, <2>8 DEF ClientsInv
<1>8. CASE Respond(c)
  <2> DEFINE url == request[c].url
             k == [url |-> url, etag |-> request[c].etag, granted |-> granted[c],
                   body |-> Body(url, granted[c])]
  <2>1. /\ request[c] # NULL /\ copy' = [copy EXCEPT ![c] = k]
        /\ request' = [request EXCEPT ![c] = NULL] /\ ViewsTypeOK'
    BY <1>8 DEF Respond, views, ClientsInv, ViewsTypeOK
  <2>2. url \in URLs /\ request[c].etag \in ETags /\ request[c].etag.counter <= Counter(url)
    BY <2>1 DEF ClientsInv, Requests, RequestOK
  <2>3. CopyOK(k)
    BY <2>2 DEF CopyOK
  <2> HIDE DEF k
  <2>4. \A d \in Clients : copy'[d] # NULL => CopyOK(copy'[d])
    BY <2>1, <2>3 DEF ClientsInv
  <2>5. \A d \in Clients : copy'[d] # NULL => CopyOK(copy[d])'
    BY <1>2, <1>3, <2>4 DEF CopyOK
  <2>6. \A d \in Clients : request'[d] # NULL => RequestOK(request[d])'
    BY <1>5, <2>1 DEF ClientsInv
  <2>7. request' \in [Clients -> Requests \cup {NULL}] /\ DOMAIN copy' = Clients
    BY <2>1 DEF ClientsInv
  <2> QED  BY <2>1, <2>5, <2>6, <2>7 DEF ClientsInv
<1>9. ASSUME NEW G \in Grants, NEW s \in 0..MaxSuffix, ChangeEntitlements(c, G, s)
      PROVE  ClientsInv'
  <2>1. request' = request /\ copy' = copy /\ ViewsTypeOK'
    BY <1>9, GrantsAssumption DEF ChangeEntitlements, ClientsInv, ViewsTypeOK
  <2>2. \A d \in Clients : request'[d] # NULL => RequestOK(request[d])'
    BY <1>5, <2>1 DEF ClientsInv
  <2>3. \A d \in Clients : copy'[d] # NULL => CopyOK(copy[d])'
    BY <1>6, <2>1 DEF ClientsInv
  <2> QED  BY <2>1, <2>2, <2>3 DEF ClientsInv
<1> QED  BY <1>7, <1>8, <1>9 DEF ReadStep

-----------------------------------------------------------------------------
(* The theorems.                                                           *)

LEMMA InitCatalogueInv ==
    ASSUME Init
    PROVE  CatalogueInv
<1>1. TablesInv
  BY ReleaseUUIDs, OwnerUnions
     DEF Init, TablesInv, TablesTypeOK, ParentsFit, ReferencesResolve, ReleaseUUIDsDisjoint,
         Exists
<1>2. CountersTypeOK
  BY DEF Init, CountersTypeOK, NoEvents, NoSupport
<1>3. ClientsInv
  BY ConsumersAssumption DEF Init, ClientsInv, ViewsTypeOK
<1> QED  BY <1>1, <1>2, <1>3 DEF CatalogueInv

LEMMA NextCatalogueInv ==
    ASSUME CatalogueInv, [Next]_vars
    PROVE  CatalogueInv' /\ WriteStep
<1>1. WriteStep
  BY NextWrites DEF CatalogueInv
<1>2. ClientsInv'
  BY <1>1, NextWrites, ClientsKept, ReadKeeps DEF CatalogueInv
<1> QED  BY <1>1, <1>2 DEF CatalogueInv, WriteStep

(* The inductive invariant, which implies the type invariant: the types of *)
(* the tables, parents of the kind that the foreign key names, references  *)
(* that resolve, UUIDs of one kind of release, and clients whose ETags are *)
(* never ahead of the counters they were made from.                        *)
THEOREM CatalogueInvariant == Spec => [](CatalogueInv /\ TypeOK)
<1>1. CatalogueInv => TypeOK
  BY DEF CatalogueInv, TablesInv, TablesTypeOK, CountersTypeOK, ClientsInv, ViewsTypeOK,
         CopyOK, TypeOK
<1> QED  BY <1>1, InitCatalogueInv, NextCatalogueInv, PTL DEF Spec

(* Every reference resolves, whatever was created, imported, linked and    *)
(* deleted: foreign keys with their cascades for rows and links, and       *)
(* deleteOwnerScoped for the identifiers that no foreign key guards.       *)
THEOREM ReferencesResolveHolds == Spec => []ReferencesResolve
<1>1. CatalogueInv => ReferencesResolve
  BY DEF CatalogueInv, TablesInv
<1> QED  BY <1>1, CatalogueInvariant, PTL

(* No UUID is a product release and a component release: fresh UUIDs in    *)
(* creations, and the look-up of the other table in imports, suffice.      *)
THEOREM ReleaseUUIDsDisjointHolds == Spec => []ReleaseUUIDsDisjoint
<1>1. CatalogueInv => ReleaseUUIDsDisjoint
  BY DEF CatalogueInv, TablesInv
<1> QED  BY <1>1, CatalogueInvariant, PTL

(* A client that is answered with 304 for CLE data or a list of products   *)
(* or components holds the current data, of what it was let read when it   *)
(* was answered in full: for any number of clients, rows, and writes       *)
(* between the two reads of a response, and whatever entitlements do.      *)
THEOREM ValidatorIsCurrentHolds == Spec => []ValidatorIsCurrent
<1>1. CatalogueInv => ValidatorIsCurrent
  <2> SUFFICES ASSUME CatalogueInv, NEW c \in Clients, copy[c] # NULL,
                      copy[c].url \in Validated, copy[c].etag = ETag(c, copy[c].url)
               PROVE  copy[c].body = Body(copy[c].url, copy[c].granted)
    BY DEF ValidatorIsCurrent, CachedIsCurrent, Validated
  <2>1. copy[c].etag.counter = Counter(copy[c].url)
    BY DEF ETag
  <2> QED  BY <2>1 DEF CatalogueInv, ClientsInv, CopyOK
<1> QED  BY <1>1, CatalogueInvariant, PTL

(* A component release whose response changes has a higher revision: every *)
(* write of its distributions and their files revises it, and no deletion  *)
(* takes a distribution away and leaves its release.                       *)
THEOREM RevisionCoversDistributionsHolds == Spec => RevisionCoversDistributions
<1> DEFINE A == \A o \in ComponentReleaseOwners :
                    Exists(o) /\ Exists(o)' /\ Entity(o)' # Entity(o) =>
                        row'[o].revision > row[o].revision
<1>1. CatalogueInv /\ [Next]_vars => A
  <2> SUFFICES ASSUME CatalogueInv, [Next]_vars, NEW o \in ComponentReleaseOwners,
                      Exists(o), Exists(o)', ~(row'[o].revision > row[o].revision)
               PROVE  Entity(o)' = Entity(o)
    OBVIOUS
  <2>1. SameTop(o) /\ \A d \in DistributionOwners : SameDistribution(o, d)
    BY NextCatalogueInv DEF WriteStep, RowsStep, ReleaseStep
  <2> QED  BY <2>1, NextCatalogueInv, EntityIsSame DEF CatalogueInv
<1>2. CatalogueInv /\ [Next]_vars => [A]_vars
  BY <1>1
<1> QED  BY <1>2, CatalogueInvariant, PTL DEF Spec, RevisionCoversDistributions
=============================================================================
