---------------------------- MODULE Authorisation ----------------------------
(***************************************************************************)
(* Who may read what: templates of capability rules, entitlements that     *)
(* give a subject the rules of a template revision for a resource scope,   *)
(* groups of products and of releases, the audit log of the admin API, and *)
(* the decision that the consumer API makes for each request.              *)
(*                                                                         *)
(* An admin handler changes its tables and writes its audit record in one  *)
(* transaction.  A decision is made outside a transaction: it queries the  *)
(* rules of one scope after the other, from the widest to the narrowest,   *)
(* and administrators act between two queries.  The catalogue is constant  *)
(* here: what deleting a release does to its rows is in Catalogue.         *)
(***************************************************************************)
EXTENDS Integers, Sequences, FiniteSets

CONSTANTS
    Users,             \* UUIDs of users
    Templates,         \* UUIDs of templates
    Entitlements,      \* UUIDs of entitlements
    PublicTemplate, PublicEntitlement,  \* the rows that the migration brings
    PublicRules,       \* the rules of the public template
    ProductGroups, ReleaseGroups,
    Products, ProductReleases, Components, ComponentReleases, Artifacts,
    ProductOf,         \* the product of a product release
    ComponentOf,       \* the component of a component release
    CollectionsOf,     \* the collections (UUIDs of releases) that hold an artifact
    ArtifactTypes,     \* types of artifacts
    Capabilities,      \* what a rule allows or denies
    RuleSets,          \* the rules that template revisions are made of
    Grants,            \* the subjects and scopes of entitlements that are created
    Validities,        \* the windows of validity that are given to entitlements
    Requests,          \* requests of the consumer API in progress
    Queries,           \* the decisions they ask for
    MaxTemplateRevision, MaxWrites, MaxAudit, MaxTime,  \* bounds
    NULL               \* an empty column, an absent row, an idle request

VARIABLES
    user,          \* the users that exist
    template,      \* template[t]: its revisions and the active one, or NULL
    entitlement,   \* entitlement[e]: the row, or NULL
    group,         \* group[g]: the members of a group, or NULL
    audit,         \* the audit records: operation and target
    watermark,     \* the watermark of the entitlements
    now,           \* the clock
    request,       \* request[q]: what a decision holds between its queries, or NULL
    grantee        \* history: grantee[e]: the subject e was created for, or NULL

tables == <<user, template, entitlement, group, audit, watermark, grantee>>
vars == <<tables, now, request>>

Groups == ProductGroups \cup ReleaseGroups
Members(g) == IF g \in ProductGroups THEN Products ELSE ProductReleases

\* A scope is a pair <<resource_type, resource_id>>; a decision prefers the
\* narrower one.  Components rank as products and component releases as releases.
AllProducts == <<"all_products", NULL>>
Rank == [all_products |-> 0, product_group |-> 1, product |-> 2, component |-> 2,
         release_group |-> 3, product_release |-> 4, component_release |-> 4,
         collection |-> 5, artifact |-> 6]
\* The resources that a decision can be about.
Resources ==
    ({"product"} \X Products) \cup ({"product_release"} \X ProductReleases)
    \cup ({"component"} \X Components) \cup ({"component_release"} \X ComponentReleases)
    \cup ({"collection"} \X (ProductReleases \cup ComponentReleases))
    \cup ({"artifact"} \X Artifacts)
Scopes ==
    {AllProducts} \cup ({"product_group"} \X ProductGroups)
    \cup ({"release_group"} \X ReleaseGroups) \cup Resources

\* A subject is everyone, everyone who is authenticated, or one user.
Subjects == ({"everyone", "authenticated"} \X {NULL}) \cup ({"principal"} \X Users)
subjectRank == [everyone |-> 0, authenticated |-> 1, principal |-> 2]

Rule == [capability : Capabilities, artifactType : ArtifactTypes \cup {NULL},
         decision : {"allow", "deny"}]
Template == [revisions : Seq(SUBSET Rule), active : Nat]
Statuses == {"active", "suspended", "revoked"}
Times == 0..MaxTime
Validity == [from : Times \cup {NULL}, until : Times \cup {NULL}]
Entitlement == [subject : Subjects, scope : Scopes, template : Templates,
                templateRevision : Nat \ {0}, status : Statuses,
                valid : Validity, revision : Nat \ {0}]
Operations == {"create", "reviseCreate", "activate", "delete", "statusChange",
               "validityChange", "addMember", "removeMember"}
Targets == Templates \cup Entitlements \cup Groups
Query == [principal : Users \cup {NULL}, capability : Capabilities,
          artifactType : ArtifactTypes \cup {NULL}, resource : Resources]

ASSUME GraphAssumption ==
    /\ ProductOf \in [ProductReleases -> Products]
    /\ ComponentOf \in [ComponentReleases -> Components]
    /\ CollectionsOf \in [Artifacts -> SUBSET (ProductReleases \cup ComponentReleases)]
ASSUME InputsAssumption ==
    /\ PublicTemplate \in Templates /\ PublicEntitlement \in Entitlements
    /\ PublicRules \in SUBSET Rule
    /\ RuleSets \subseteq SUBSET Rule
    /\ Grants \subseteq [subject : Subjects, scope : Scopes]
    /\ Validities \subseteq Validity
    /\ Queries \subseteq Query
ASSUME BoundsAssumption ==
    MaxTemplateRevision \in Nat /\ MaxWrites \in Nat /\ MaxAudit \in Nat /\ MaxTime \in Nat
ASSUME UUIDsAssumption ==
    /\ Templates \cap Entitlements = {}
    /\ (Templates \cup Entitlements) \cap Groups = {}
ASSUME NULLAssumption ==
    /\ NULL \notin Users
    /\ NULL \notin Template /\ NULL \notin Entitlement
    /\ \A S \in SUBSET (Products \cup ProductReleases) : S # NULL

Public ==
    [subject |-> <<"everyone", NULL>>, scope |-> AllProducts, template |-> PublicTemplate,
     templateRevision |-> 1, status |-> "active", valid |-> [from |-> NULL, until |-> NULL],
     revision |-> 1]

\* The migration lets everyone read everything, with an entitlement that an
\* administrator may change or delete.
Init ==
    /\ user = Users
    /\ template = [t \in Templates |->
            IF t = PublicTemplate THEN [revisions |-> <<PublicRules>>, active |-> 1] ELSE NULL]
    /\ entitlement = [e \in Entitlements |-> IF e = PublicEntitlement THEN Public ELSE NULL]
    /\ group = [g \in Groups |-> NULL]
    /\ audit = {}
    /\ watermark = 1
    /\ now = 0
    /\ request = [q \in Requests |-> NULL]
    /\ grantee = [e \in Entitlements |->
            IF e = PublicEntitlement THEN Public.subject ELSE NULL]

-----------------------------------------------------------------------------
(* The admin API.  A new row has a fresh UUID: one never created before.   *)

auditWrite(operation, target) ==
    /\ Cardinality(audit) < MaxAudit
    /\ audit' = audit \cup {<<operation, target>>}

Created(x) == x \in {PublicTemplate, PublicEntitlement} \/ <<"create", x>> \in audit
FreshId(x) == ~Created(x)

bumpWatermark ==
    /\ watermark < MaxWrites
    /\ watermark' = watermark + 1

CreateTemplate(t, rules) ==
    /\ FreshId(t)
    /\ template' = [template EXCEPT ![t] = [revisions |-> <<rules>>, active |-> 0]]
    /\ auditWrite("create", t)
    /\ UNCHANGED <<user, entitlement, group, watermark, grantee>>

\* Mutant: the newest revision is replaced.
NextRevisionsInPlace(revisions, rules) == [revisions EXCEPT ![Len(revisions)] = rules]

\* A revision is added, and never changed.
NextRevisions(revisions, rules) == Append(revisions, rules)

CreateTemplateRevision(t, rules) ==
    /\ template[t] # NULL
    /\ Len(template[t].revisions) < MaxTemplateRevision
    /\ template' = [template EXCEPT ![t].revisions = NextRevisions(@, rules)]
    /\ auditWrite("reviseCreate", t)
    /\ UNCHANGED <<user, entitlement, group, watermark, grantee>>

\* The active revision is what the admin API shows; an entitlement names its own.
ActivateTemplateRevision(t, r) ==
    /\ template[t] # NULL
    /\ r \in 1..Len(template[t].revisions)
    /\ template' = [template EXCEPT ![t].active = r]
    /\ auditWrite("activate", t)
    /\ UNCHANGED <<user, entitlement, group, watermark, grantee>>

\* ErrTemplateInUse: the foreign key of entitlements restricts the deletion.
InUse(t) == \E e \in Entitlements : entitlement[e] # NULL /\ entitlement[e].template = t

DeleteTemplate(t) ==
    /\ template[t] # NULL
    /\ ~InUse(t)
    /\ template' = [template EXCEPT ![t] = NULL]
    /\ auditWrite("delete", t)
    /\ UNCHANGED <<user, entitlement, group, watermark, grantee>>

RevisionGranted(t, r) == r

CreateEntitlement(e, grant, t, r, valid) ==
    /\ FreshId(e)
    /\ grant.subject[1] = "principal" => grant.subject[2] \in user
    /\ template[t] # NULL
    /\ r \in 1..Len(template[t].revisions)
    /\ entitlement' = [entitlement EXCEPT ![e] =
            [subject |-> grant.subject, scope |-> grant.scope, template |-> t,
             templateRevision |-> RevisionGranted(t, r), status |-> "active",
             valid |-> valid, revision |-> 1]]
    /\ bumpWatermark
    /\ auditWrite("create", e)
    /\ grantee' = [grantee EXCEPT ![e] = grant.subject]
    /\ UNCHANGED <<user, template, group>>

UpdateEntitlementStatus(e, status) ==
    /\ entitlement[e] # NULL
    /\ entitlement' = [entitlement EXCEPT ![e].status = status, ![e].revision = @ + 1]
    /\ bumpWatermark
    /\ auditWrite("statusChange", e)
    /\ UNCHANGED <<user, template, group, grantee>>

UpdateEntitlementValidity(e, valid) ==
    /\ entitlement[e] # NULL
    /\ entitlement' = [entitlement EXCEPT ![e].valid = valid, ![e].revision = @ + 1]
    /\ bumpWatermark
    /\ auditWrite("validityChange", e)
    /\ UNCHANGED <<user, template, group, grantee>>

DeleteEntitlement(e) ==
    /\ entitlement[e] # NULL
    /\ entitlement' = [entitlement EXCEPT ![e] = NULL]
    /\ bumpWatermark
    /\ auditWrite("delete", e)
    /\ UNCHANGED <<user, template, group, grantee>>

\* Mutant: the entitlements of everyone go with the user.
DeleteUserAndGrants(u) ==
    /\ u \in user
    /\ user' = user \ {u}
    /\ entitlement' = [e \in Entitlements |-> NULL]
    /\ UNCHANGED <<template, group, audit, watermark, grantee>>

\* The foreign key deletes the entitlements of the user, without a record.
DeleteUser(u) ==
    /\ u \in user
    /\ user' = user \ {u}
    /\ entitlement' = [e \in Entitlements |->
            IF entitlement[e] # NULL /\ entitlement[e].subject = <<"principal", u>>
            THEN NULL ELSE entitlement[e]]
    /\ UNCHANGED <<template, group, audit, watermark, grantee>>

CreateGroup(g) ==
    /\ FreshId(g)
    /\ group' = [group EXCEPT ![g] = {}]
    /\ auditWrite("create", g)
    /\ UNCHANGED <<user, template, entitlement, watermark, grantee>>

CreateProductGroup(g) == g \in ProductGroups /\ CreateGroup(g)
CreateReleaseGroup(g) == g \in ReleaseGroups /\ CreateGroup(g)

\* The members go with the group; an entitlement for it stays.
DeleteGroup(g) ==
    /\ group[g] # NULL
    /\ group' = [group EXCEPT ![g] = NULL]
    /\ auditWrite("delete", g)
    /\ UNCHANGED <<user, template, entitlement, watermark, grantee>>

DeleteProductGroup(g) == g \in ProductGroups /\ DeleteGroup(g)
DeleteReleaseGroup(g) == g \in ReleaseGroups /\ DeleteGroup(g)

\* Adding a member twice is no error.
AddMember(g, m) ==
    /\ group[g] # NULL
    /\ group' = [group EXCEPT ![g] = @ \cup {m}]
    /\ auditWrite("addMember", g)
    /\ UNCHANGED <<user, template, entitlement, watermark, grantee>>

AddProductGroupMember(g, m) == g \in ProductGroups /\ AddMember(g, m)
AddReleaseGroupMember(g, m) == g \in ReleaseGroups /\ AddMember(g, m)

RemoveMember(g, m) ==
    /\ group[g] # NULL
    /\ m \in group[g]
    /\ group' = [group EXCEPT ![g] = @ \ {m}]
    /\ auditWrite("removeMember", g)
    /\ UNCHANGED <<user, template, entitlement, watermark, grantee>>

RemoveProductGroupMember(g, m) == g \in ProductGroups /\ RemoveMember(g, m)
RemoveReleaseGroupMember(g, m) == g \in ReleaseGroups /\ RemoveMember(g, m)

-----------------------------------------------------------------------------
(* The rules of one scope, as one SQL query finds them.                    *)

RulesOf(e) ==
    LET t == entitlement[e].template
        r == entitlement[e].templateRevision IN
    IF template[t] = NULL \/ r > Len(template[t].revisions) THEN {}
    ELSE template[t].revisions[r]

InForce(e) ==
    LET v == entitlement[e].valid IN
    /\ entitlement[e].status = "active"
    /\ v.from = NULL \/ v.from <= now
    /\ v.until = NULL \/ v.until >= now

\* subjectTypeArgs: an anonymous caller is only a part of everyone.
IsSubject(principal, subject) ==
    \/ subject[1] = "everyone"
    \/ principal # NULL /\ subject \in {<<"authenticated", NULL>>, <<"principal", principal>>}

Matches(rule, query) ==
    /\ rule.capability = query.capability
    /\ rule.artifactType = NULL \/ rule.artifactType = query.artifactType

Candidate(e, rule) ==
    [entitlement |-> e, scope |-> Rank[entitlement[e].scope[1]],
     subject |-> subjectRank[entitlement[e].subject[1]], decision |-> rule.decision]

candidateRulesAtScope(query, scope) ==
    UNION {{Candidate(e, rule) : rule \in {rule \in RulesOf(e) : Matches(rule, query)}} :
        e \in {e \in Entitlements :
                /\ entitlement[e] # NULL
                /\ entitlement[e].scope = scope
                /\ InForce(e)
                /\ IsSubject(query.principal, entitlement[e].subject)}}

-----------------------------------------------------------------------------
(* The plan of a decision is the sequence of its queries: the rules of the *)
(* scopes in a set, or a lookup whose answer is put in its place.          *)

RulesAt(S) == [do |-> "rules", of |-> S]
ListProductGroups(p) == [do |-> "product groups", of |-> {p}]
ListReleaseGroups(r) == [do |-> "release groups", of |-> {r}]
ListCollections(a) == [do |-> "collections of", of |-> {a}]
EachCollection(S) == [do |-> "collections", of |-> S]

PlanForProduct(p) ==
    <<RulesAt({AllProducts}), ListProductGroups(p), RulesAt({<<"product", p>>})>>

\* Mutant: the groups of releases are not looked at.
PlanForReleaseAlone(r) ==
    PlanForProduct(ProductOf[r]) \o <<RulesAt({<<"product_release", r>>})>>

PlanForRelease(r) ==
    PlanForProduct(ProductOf[r]) \o <<ListReleaseGroups(r), RulesAt({<<"product_release", r>>})>>
PlanForComponent(c) == <<RulesAt({AllProducts}), RulesAt({<<"component", c>>})>>
PlanForComponentRelease(r) ==
    PlanForComponent(ComponentOf[r]) \o <<RulesAt({<<"component_release", r>>})>>
PlanForCollection(c) ==
    (IF c \in ProductReleases THEN PlanForRelease(c) ELSE PlanForComponentRelease(c))
    \o <<RulesAt({<<"collection", c>>})>>
PlanForArtifact(a) ==
    <<RulesAt({AllProducts}), RulesAt({<<"artifact", a>>}), ListCollections(a)>>

CandidateRules(resource) ==
    LET id == resource[2] IN
    CASE resource[1] = "artifact" -> PlanForArtifact(id)
      [] resource[1] = "collection" -> PlanForCollection(id)
      [] resource[1] = "product_release" -> PlanForRelease(id)
      [] resource[1] = "product" -> PlanForProduct(id)
      [] resource[1] = "component_release" -> PlanForComponentRelease(id)
      [] resource[1] = "component" -> PlanForComponent(id)

GroupsWith(G, m) == {g \in G : group[g] # NULL /\ m \in group[g]}

\* The scopes that a decision about a resource looks at, at one moment, each
\* with what the resource is in it through: an artifact that two releases share
\* may be in a group by either of their products.
Through(x, S) == S \X {x}
ProductPaths(p) ==
    Through(p, {AllProducts, <<"product", p>>}
               \cup ({"product_group"} \X GroupsWith(ProductGroups, p)))
ReleasePaths(r) ==
    ProductPaths(ProductOf[r])
    \cup Through(r, {<<"product_release", r>>}
                    \cup ({"release_group"} \X GroupsWith(ReleaseGroups, r)))
ComponentPaths(c) == Through(c, {AllProducts, <<"component", c>>})
ComponentReleasePaths(r) ==
    ComponentPaths(ComponentOf[r]) \cup Through(r, {<<"component_release", r>>})
CollectionPaths(c) ==
    Through(c, {<<"collection", c>>})
    \cup (IF c \in ProductReleases THEN ReleasePaths(c) ELSE ComponentReleasePaths(c))
ArtifactPaths(a) ==
    Through(a, {AllProducts, <<"artifact", a>>})
    \cup UNION {CollectionPaths(c) : c \in CollectionsOf[a]}

PathsOf(resource) ==
    LET id == resource[2] IN
    CASE resource[1] = "artifact" -> ArtifactPaths(id)
      [] resource[1] = "collection" -> CollectionPaths(id)
      [] resource[1] = "product_release" -> ReleasePaths(id)
      [] resource[1] = "product" -> ProductPaths(id)
      [] resource[1] = "component_release" -> ComponentReleasePaths(id)
      [] resource[1] = "component" -> ComponentPaths(id)

\* The paths of each query, the rules of each scope, and the rules that apply
\* by each path, at one moment.
PathsFor == [query \in Queries |-> PathsOf(query.resource)]
RulesFor == [query \in Queries |-> [scope \in Scopes |-> candidateRulesAtScope(query, scope)]]
ApplyingFor == [query \in Queries |->
    UNION {{path} \X RulesFor[query][path[1]] : path \in PathsFor[query]}]

-----------------------------------------------------------------------------
(* A request.  Three of its fields are history: reached holds the scopes   *)
(* that the resource was in at some moment since the request began, ever   *)
(* the rules that a scope reached before held at some moment, and standing *)
(* the rules that applied at every moment, by the same path at every one.  *)

Begin(q, query) ==
    /\ request[q] = NULL
    /\ query.principal # NULL => query.principal \in user
    /\ request' = [request EXCEPT ![q] =
            [query |-> query, todo |-> CandidateRules(query.resource), candidates |-> {},
             reached |-> {path[1] : path \in PathsFor[query]},
             ever |-> {held[2] : held \in ApplyingFor[query]},
             standing |-> ApplyingFor[query]]]
    /\ UNCHANGED <<tables, now>>

Busy(q, do) ==
    /\ request[q] # NULL
    /\ request[q].todo # <<>>
    /\ Head(request[q].todo).do = do

\* What is left to do when the first item becomes item; an empty one goes.
Left(q, item) == (IF item.of = {} THEN <<>> ELSE <<item>>) \o Tail(request[q].todo)

QueryRules(q, scope) ==
    /\ Busy(q, "rules")
    /\ scope \in Head(request[q].todo).of
    /\ request' = [request EXCEPT
            ![q].todo = Left(q, RulesAt(Head(@).of \ {scope})),
            ![q].candidates = @ \cup candidateRulesAtScope(request[q].query, scope)]
    /\ UNCHANGED <<tables, now>>

Replace(q, item) ==
    /\ request' = [request EXCEPT ![q].todo = Left(q, item)]
    /\ UNCHANGED <<tables, now>>

ListProductGroupsContaining(q) ==
    /\ Busy(q, "product groups")
    /\ \E p \in Head(request[q].todo).of :
        Replace(q, RulesAt({"product_group"} \X GroupsWith(ProductGroups, p)))

ListReleaseGroupsContaining(q) ==
    /\ Busy(q, "release groups")
    /\ \E r \in Head(request[q].todo).of :
        Replace(q, RulesAt({"release_group"} \X GroupsWith(ReleaseGroups, r)))

listCollectionsContainingArtifact(q) ==
    /\ Busy(q, "collections of")
    /\ \E a \in Head(request[q].todo).of : Replace(q, EachCollection(CollectionsOf[a]))

EnterCollection(q, c) ==
    /\ Busy(q, "collections")
    /\ c \in Head(request[q].todo).of
    /\ request' = [request EXCEPT
            ![q].todo = PlanForCollection(c) \o Left(q, EachCollection(Head(@).of \ {c}))]
    /\ UNCHANGED <<tables, now>>

\* Default deny; the narrowest resource scope, then the narrowest subject, and
\* among those a deny prevails.
narrowestByResourceScope(C) == {c \in C : \A d \in C : d.scope <= c.scope}
narrowestBySubject(C) == {c \in C : \A d \in C : d.subject <= c.subject}

Decide(C) ==
    /\ C # {}
    /\ \A c \in narrowestBySubject(narrowestByResourceScope(C)) : c.decision = "allow"

Decided(q) == request[q] # NULL /\ request[q].todo = <<>>

\* The response is written, or refused.
Answer(q) ==
    /\ Decided(q)
    /\ request' = [request EXCEPT ![q] = NULL]
    /\ UNCHANGED <<tables, now>>

-----------------------------------------------------------------------------
AdminTemplate(t) ==
    \/ \E rules \in RuleSets : CreateTemplate(t, rules) \/ CreateTemplateRevision(t, rules)
    \/ \E r \in 1..MaxTemplateRevision : ActivateTemplateRevision(t, r)
    \/ DeleteTemplate(t)

AdminEntitlement(e) ==
    \/ \E grant \in Grants, t \in Templates, r \in 1..MaxTemplateRevision, valid \in Validities :
        CreateEntitlement(e, grant, t, r, valid)
    \/ \E status \in Statuses : UpdateEntitlementStatus(e, status)
    \/ \E valid \in Validities : UpdateEntitlementValidity(e, valid)
    \/ DeleteEntitlement(e)

AdminGroup(g) ==
    \/ CreateProductGroup(g) \/ CreateReleaseGroup(g)
    \/ DeleteProductGroup(g) \/ DeleteReleaseGroup(g)
    \/ \E m \in Members(g) :
        \/ AddProductGroupMember(g, m) \/ AddReleaseGroupMember(g, m)
        \/ RemoveProductGroupMember(g, m) \/ RemoveReleaseGroupMember(g, m)

Tick ==
    /\ now < MaxTime
    /\ now' = now + 1
    /\ UNCHANGED tables

\* What a change means for the history of a request in progress.
Seen(r) ==
    LET reached == r.reached \cup {path[1] : path \in PathsFor'[r.query]} IN
    [r EXCEPT !.reached = reached,
              !.ever = @ \cup UNION {RulesFor'[r.query][s] : s \in reached},
              !.standing = @ \cap ApplyingFor'[r.query]]

Observe ==
    request' = [q \in Requests |-> IF request[q] = NULL THEN NULL ELSE Seen(request[q])]

Change ==
    \/ Tick
    \/ UNCHANGED now /\ \/ \E t \in Templates : AdminTemplate(t)
                        \/ \E e \in Entitlements : AdminEntitlement(e)
                        \/ \E g \in Groups : AdminGroup(g)
                        \/ \E u \in Users : DeleteUser(u)

RequestStep(q) ==
    \/ \E query \in Queries : Begin(q, query)
    \/ \E scope \in Scopes : QueryRules(q, scope)
    \/ ListProductGroupsContaining(q)
    \/ ListReleaseGroupsContaining(q)
    \/ listCollectionsContainingArtifact(q)
    \/ \E c \in ProductReleases \cup ComponentReleases : EnterCollection(q, c)
    \/ Answer(q)

Next == (Change /\ Observe) \/ \E q \in Requests : RequestStep(q)

Spec == Init /\ [][Next]_vars

-----------------------------------------------------------------------------
(* The type invariant.                                                     *)
TypeOK ==
    /\ user \subseteq Users
    /\ template \in [Templates -> Template \cup {NULL}]
    /\ entitlement \in [Entitlements -> Entitlement \cup {NULL}]
    /\ group \in [Groups -> (SUBSET (Products \cup ProductReleases)) \cup {NULL}]
    /\ audit \subseteq Operations \X Targets
    /\ watermark \in Nat
    /\ now \in Times
    /\ grantee \in [Entitlements -> Subjects \cup {NULL}]

Narrower(c, d) == c.scope > d.scope \/ (c.scope = d.scope /\ c.subject > d.subject)

(* A decision is explained by the rules that applied while it was made,    *)
(* although its queries see the tables at different moments.  It allows    *)
(* only by a rule that a scope of the resource held at some moment and     *)
(* that every deny which applied throughout is wider than; and it denies   *)
(* what a rule allowed throughout only by a deny, no wider, of a scope of  *)
(* the resource.  The scope may have been the resource's at an earlier     *)
(* moment than the one at which it held the rule: groups are listed first  *)
(* and their rules queried later, so a group that has been left or deleted *)
(* in between still decides.  And a group is missed that an artifact was   *)
(* always in, if it was by another of its products after that one's groups *)
(* were listed: what applied throughout did so by one path.                *)
VerdictExplained ==
    \A q \in Requests : Decided(q) =>
        LET ever == request[q].ever
            standing == {held[2] : held \in request[q].standing} IN
        IF Decide(request[q].candidates)
        THEN \E a \in ever :
                a.decision = "allow" /\ \A d \in standing : d.decision = "deny" => Narrower(a, d)
        ELSE \A a \in standing : a.decision = "allow" =>
                \E d \in ever : d.decision = "deny" /\ ~Narrower(a, d)

(* The rules of an entitlement never change while it exists: revisions are *)
(* added and activated next to the one it names, and a template that is in *)
(* use is not deleted.                                                     *)
GrantKeepsItsRules ==
    [][\A e \in Entitlements :
        entitlement[e] # NULL /\ entitlement'[e] # NULL => RulesOf(e)' = RulesOf(e)]_vars

Present(x) ==
    IF x \in Templates THEN template[x] # NULL
    ELSE IF x \in Entitlements THEN entitlement[x] # NULL ELSE group[x] # NULL

OfDeletedUser(e) == \E u \in Users \ user : grantee[e] = <<"principal", u>>

(* The audit log accounts for the tables: what exists was created (or came *)
(* with the migration) and not deleted, and what was created and is gone   *)
(* was deleted, except an entitlement given to a user who is gone as well. *)
AuditExplainsTables ==
    \A x \in Targets :
        /\ Present(x) => Created(x) /\ <<"delete", x>> \notin audit
        /\ Created(x) /\ ~Present(x) =>
            <<"delete", x>> \in audit \/ (x \in Entitlements /\ OfDeletedUser(x))

(* No entitlement goes without a record of it: auditWrite quotes that a    *)
(* change of authorization state and its audit record are atomic.          *)
RevocationIsAudited ==
    [][\A e \in Entitlements : entitlement[e] # NULL /\ entitlement'[e] = NULL =>
            <<"delete", e>> \in audit']_vars
=============================================================================
