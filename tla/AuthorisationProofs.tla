------------------------- MODULE AuthorisationProofs -------------------------
(***************************************************************************)
(* Proofs about Authorisation, for any users, templates, entitlements,     *)
(* groups and requests, and any catalogue.                                 *)
(***************************************************************************)
EXTENDS Authorisation, FiniteSetTheorems, TLAPS

-----------------------------------------------------------------------------
(* Type correctness of the tables.                                         *)

LEMMA AuditType ==
    ASSUME TypeOK, NEW op \in Operations, NEW x \in Targets, auditWrite(op, x)
    PROVE  audit' \subseteq Operations \X Targets
  BY DEF TypeOK, auditWrite

\* Changing one column of an entitlement keeps its type.
LEMMA EntitlementUpdates ==
    \A r \in Entitlement :
        /\ \A status \in Statuses :
              [r EXCEPT !.status = status, !.revision = r.revision + 1] \in Entitlement
        /\ \A valid \in Validity :
              [r EXCEPT !.valid = valid, !.revision = r.revision + 1] \in Entitlement
<1> SUFFICES ASSUME NEW r \in Entitlement
             PROVE  /\ \A status \in Statuses :
                          [r EXCEPT !.status = status, !.revision = r.revision + 1] \in Entitlement
                    /\ \A valid \in Validity :
                          [r EXCEPT !.valid = valid, !.revision = r.revision + 1] \in Entitlement
  OBVIOUS
<1>1. PICK n \in Nat \ {0} : n = r.revision + 1
  BY DEF Entitlement
<1> QED  BY <1>1 DEF Entitlement

\* A revision is added to, and activated in, a template.
LEMMA TemplateUpdates ==
    \A r \in Template :
        /\ \A rules \in SUBSET Rule :
              [r EXCEPT !.revisions = Append(r.revisions, rules)] \in Template
        /\ \A i \in Nat : [r EXCEPT !.active = i] \in Template
<1> SUFFICES ASSUME NEW r \in Template
             PROVE  /\ \A rules \in SUBSET Rule :
                          [r EXCEPT !.revisions = Append(r.revisions, rules)] \in Template
                    /\ \A i \in Nat : [r EXCEPT !.active = i] \in Template
  OBVIOUS
<1>1. \A rules \in SUBSET Rule : Append(r.revisions, rules) \in Seq(SUBSET Rule)
  BY DEF Template
<1> QED  BY <1>1 DEF Template

LEMMA TypeStep == TypeOK /\ [Next]_vars => TypeOK'
<1> SUFFICES ASSUME TypeOK, [Next]_vars PROVE TypeOK'
  OBVIOUS
<1> USE InputsAssumption, BoundsAssumption
<1>1. CASE UNCHANGED <<tables, now>>
  BY <1>1 DEF TypeOK, tables
<1>2. ASSUME NEW t \in Templates, AdminTemplate(t), UNCHANGED now PROVE TypeOK'
  <2> t \in Targets
    BY DEF Targets
  <2>1. ASSUME NEW rules \in RuleSets, CreateTemplate(t, rules) PROVE TypeOK'
    <3>1. [revisions |-> <<rules>>, active |-> 0] \in Template
      BY DEF Template
    <3>2. audit' \subseteq Operations \X Targets
      BY <2>1, AuditType DEF CreateTemplate, Operations
    <3> QED  BY <1>2, <2>1, <3>1, <3>2 DEF CreateTemplate, TypeOK
  <2>2. ASSUME NEW rules \in RuleSets, CreateTemplateRevision(t, rules) PROVE TypeOK'
    <3>1. template' = [template EXCEPT ![t] =
                [template[t] EXCEPT !.revisions = Append(template[t].revisions, rules)]]
      BY <2>2 DEF CreateTemplateRevision, NextRevisions
    <3>2. [template[t] EXCEPT !.revisions = Append(template[t].revisions, rules)] \in Template
      BY <2>2, TemplateUpdates DEF CreateTemplateRevision, TypeOK
    <3>2a. template' \in [Templates -> Template \cup {NULL}]
      BY <3>1, <3>2 DEF TypeOK
    <3>3. audit' \subseteq Operations \X Targets
      BY <2>2, AuditType DEF CreateTemplateRevision, Operations
    <3> QED  BY <1>2, <2>2, <3>2a, <3>3 DEF CreateTemplateRevision, TypeOK
  <2>3. ASSUME NEW r \in 1..MaxTemplateRevision, ActivateTemplateRevision(t, r) PROVE TypeOK'
    <3>1. template' = [template EXCEPT ![t] = [template[t] EXCEPT !.active = r]]
      BY <2>3 DEF ActivateTemplateRevision
    <3>2. template' \in [Templates -> Template \cup {NULL}]
      BY <2>3, <3>1, TemplateUpdates DEF ActivateTemplateRevision, TypeOK
    <3>3. audit' \subseteq Operations \X Targets
      BY <2>3, AuditType DEF ActivateTemplateRevision, Operations
    <3> QED  BY <1>2, <2>3, <3>2, <3>3 DEF ActivateTemplateRevision, TypeOK
  <2>4. CASE DeleteTemplate(t)
    <3>1. audit' \subseteq Operations \X Targets
      BY <2>4, AuditType DEF DeleteTemplate, Operations
    <3> QED  BY <1>2, <2>4, <3>1 DEF DeleteTemplate, TypeOK
  <2> QED  BY <1>2, <2>1, <2>2, <2>3, <2>4 DEF AdminTemplate
<1>3. ASSUME NEW e \in Entitlements, AdminEntitlement(e), UNCHANGED now PROVE TypeOK'
  <2> e \in Targets
    BY DEF Targets
  <2>1. ASSUME NEW grant \in Grants, NEW t \in Templates, NEW r \in 1..MaxTemplateRevision,
               NEW valid \in Validities, CreateEntitlement(e, grant, t, r, valid)
        PROVE  TypeOK'
    <3>1. [subject |-> grant.subject, scope |-> grant.scope, template |-> t,
           templateRevision |-> RevisionGranted(t, r), status |-> "active",
           valid |-> valid, revision |-> 1] \in Entitlement
      BY DEF Entitlement, RevisionGranted, Statuses
    <3>2. audit' \subseteq Operations \X Targets
      BY <2>1, AuditType DEF CreateEntitlement, Operations
    <3> QED  BY <1>3, <2>1, <3>1, <3>2 DEF CreateEntitlement, bumpWatermark, TypeOK
  <2>2. ASSUME NEW status \in Statuses, UpdateEntitlementStatus(e, status) PROVE TypeOK'
    <3> DEFINE row == [entitlement[e] EXCEPT !.status = status,
                                             !.revision = entitlement[e].revision + 1]
    <3>1. entitlement' = [entitlement EXCEPT ![e] = row]
      BY <2>2 DEF UpdateEntitlementStatus
    <3>1a. row \in Entitlement
      BY <2>2, EntitlementUpdates DEF UpdateEntitlementStatus, TypeOK
    <3> HIDE DEF row
    <3>2. entitlement' \in [Entitlements -> Entitlement \cup {NULL}]
      BY <3>1, <3>1a DEF TypeOK
    <3>3. audit' \subseteq Operations \X Targets
      BY <2>2, AuditType DEF UpdateEntitlementStatus, Operations
    <3> QED  BY <1>3, <2>2, <3>2, <3>3 DEF UpdateEntitlementStatus, bumpWatermark, TypeOK
  <2>3. ASSUME NEW valid \in Validities, UpdateEntitlementValidity(e, valid) PROVE TypeOK'
    <3> DEFINE row == [entitlement[e] EXCEPT !.valid = valid,
                                             !.revision = entitlement[e].revision + 1]
    <3>1. entitlement' = [entitlement EXCEPT ![e] = row]
      BY <2>3 DEF UpdateEntitlementValidity
    <3>1a. row \in Entitlement
      BY <2>3, EntitlementUpdates DEF UpdateEntitlementValidity, TypeOK
    <3> HIDE DEF row
    <3>2. entitlement' \in [Entitlements -> Entitlement \cup {NULL}]
      BY <3>1, <3>1a DEF TypeOK
    <3>3. audit' \subseteq Operations \X Targets
      BY <2>3, AuditType DEF UpdateEntitlementValidity, Operations
    <3> QED  BY <1>3, <2>3, <3>2, <3>3 DEF UpdateEntitlementValidity, bumpWatermark, TypeOK
  <2>4. CASE DeleteEntitlement(e)
    <3>1. audit' \subseteq Operations \X Targets
      BY <2>4, AuditType DEF DeleteEntitlement, Operations
    <3> QED  BY <1>3, <2>4, <3>1 DEF DeleteEntitlement, bumpWatermark, TypeOK
  <2> QED  BY <1>3, <2>1, <2>2, <2>3, <2>4 DEF AdminEntitlement
<1>4. ASSUME NEW g \in Groups, AdminGroup(g), UNCHANGED now PROVE TypeOK'
  <2> g \in Targets
    BY DEF Targets
  <2>1. CASE CreateGroup(g)
    <3>1. audit' \subseteq Operations \X Targets
      BY <2>1, AuditType DEF CreateGroup, Operations
    <3> QED  BY <1>4, <2>1, <3>1 DEF CreateGroup, TypeOK
  <2>2. CASE DeleteGroup(g)
    <3>1. audit' \subseteq Operations \X Targets
      BY <2>2, AuditType DEF DeleteGroup, Operations
    <3> QED  BY <1>4, <2>2, <3>1 DEF DeleteGroup, TypeOK
  <2>3. ASSUME NEW m \in Members(g), AddMember(g, m) PROVE TypeOK'
    <3>1. audit' \subseteq Operations \X Targets
      BY <2>3, AuditType DEF AddMember, Operations
    <3> QED  BY <1>4, <2>3, <3>1 DEF AddMember, Members, TypeOK
  <2>4. ASSUME NEW m \in Members(g), RemoveMember(g, m) PROVE TypeOK'
    <3>1. audit' \subseteq Operations \X Targets
      BY <2>4, AuditType DEF RemoveMember, Operations
    <3> QED  BY <1>4, <2>4, <3>1 DEF RemoveMember, TypeOK
  <2> QED
    BY <1>4, <2>1, <2>2, <2>3, <2>4
       DEF AdminGroup, CreateProductGroup, CreateReleaseGroup, DeleteProductGroup,
           DeleteReleaseGroup, AddProductGroupMember, AddReleaseGroupMember,
           RemoveProductGroupMember, RemoveReleaseGroupMember
<1>5. ASSUME NEW u \in Users, DeleteUser(u), UNCHANGED now PROVE TypeOK'
  BY <1>5 DEF DeleteUser, TypeOK
<1>6. CASE Tick
  BY <1>6 DEF Tick, tables, Times, TypeOK
<1>7. ASSUME NEW q \in Requests, RequestStep(q) PROVE UNCHANGED <<tables, now>>
  BY <1>7 DEF RequestStep, Begin, QueryRules, ListProductGroupsContaining,
       ListReleaseGroupsContaining, listCollectionsContainingArtifact, Replace,
       EnterCollection, Answer
<1> QED
  BY <1>1, <1>2, <1>3, <1>4, <1>5, <1>6, <1>7 DEF Next, Change, vars

\* The columns of the tables of 0005_authz.sql keep their types.
THEOREM TypeCorrect == Spec => []TypeOK
<1>1. Init => TypeOK
  <2> SUFFICES ASSUME Init PROVE TypeOK
    OBVIOUS
  <2>1. [revisions |-> <<PublicRules>>, active |-> 1] \in Template
    BY InputsAssumption DEF Template
  <2>2. Public \in Entitlement
    BY InputsAssumption DEF Public, Entitlement, Subjects, Scopes, AllProducts, Statuses,
       Validity
  <2>3. /\ template \in [Templates -> Template \cup {NULL}]
        /\ entitlement \in [Entitlements -> Entitlement \cup {NULL}]
    BY <2>1, <2>2 DEF Init
  <2>4. grantee \in [Entitlements -> Subjects \cup {NULL}]
    BY <2>2 DEF Init, Entitlement
  <2> QED  BY <2>3, <2>4, BoundsAssumption DEF Init, TypeOK, Times
<1> QED  BY <1>1, TypeStep, PTL DEF Spec

-----------------------------------------------------------------------------
(* The audit log and the tables.                                           *)

Wrote(op, x) == audit' = audit \cup {<<op, x>>}
Others(x) == \A y \in Targets : y # x => (Present(y)' <=> Present(y))

GoesWithUser(x) ==
    /\ x \in Entitlements
    /\ \E u \in Users \ user' : entitlement[x].subject = <<"principal", u>>

\* What a step of the admin API does to the tables and to the log.
TargetStep ==
    \/ user' = user /\ audit' = audit /\ \A y \in Targets : Present(y)' <=> Present(y)
    \/ \E op \in Operations \ {"create", "delete"}, x \in Targets :
          user' = user /\ Wrote(op, x) /\ \A y \in Targets : Present(y)' <=> Present(y)
    \/ \E x \in Targets :
          user' = user /\ Wrote("create", x) /\ ~Created(x) /\ Present(x)' /\ Others(x)
    \/ \E x \in Targets :
          user' = user /\ Wrote("delete", x) /\ Present(x) /\ ~Present(x)' /\ Others(x)
    \/ /\ audit' = audit /\ user' \subseteq user
       /\ \A y \in Targets : Present(y)' => Present(y)
       /\ \A y \in Targets : Present(y) /\ ~Present(y)' => GoesWithUser(y)

\* A template, an entitlement and a group are told apart by their UUID.
LEMMA PresentIs ==
    /\ \A t \in Templates : /\ Present(t) <=> template[t] # NULL
                            /\ Present(t)' <=> template'[t] # NULL
    /\ \A e \in Entitlements : /\ Present(e) <=> entitlement[e] # NULL
                               /\ Present(e)' <=> entitlement'[e] # NULL
    /\ \A g \in Groups : /\ Present(g) <=> group[g] # NULL
                         /\ Present(g)' <=> group'[g] # NULL
  BY UUIDsAssumption DEF Present

\* Rows that may be inserted are no NULL.
LEMMA RowsAreNotNULL ==
    /\ \A r \in Template : r # NULL
    /\ \A r \in Entitlement : r # NULL
  BY NULLAssumption

LEMMA TemplateStep ==
    ASSUME TypeOK, TypeOK', NEW t \in Templates, AdminTemplate(t)
    PROVE  TargetStep
<1> t \in Targets
  BY DEF Targets
<1>a. ASSUME UNCHANGED <<entitlement, group>>,
             \A u \in Templates : u # t => template'[u] = template[u]
      PROVE  Others(t)
  BY <1>a, PresentIs DEF Others, Present, Targets
<1>b. ASSUME Others(t), Present(t)' <=> Present(t)
      PROVE  \A y \in Targets : Present(y)' <=> Present(y)
  BY <1>b DEF Others
<1>c. /\ Present(t) <=> template[t] # NULL
      /\ Present(t)' <=> template'[t] # NULL
      /\ template'[t] = NULL \/ template'[t] \in Template
  BY PresentIs DEF TypeOK
<1>1. ASSUME NEW rules \in RuleSets, CreateTemplate(t, rules) PROVE TargetStep
  <2>1. [revisions |-> <<rules>>, active |-> 0] \in Template
    BY InputsAssumption DEF Template
  <2>2. template'[t] # NULL
    BY <1>1, <2>1, RowsAreNotNULL DEF CreateTemplate, TypeOK
  <2>3. Wrote("create", t) /\ ~Created(t) /\ user' = user
    BY <1>1 DEF CreateTemplate, auditWrite, Wrote, FreshId
  <2>4. Others(t)
    BY <1>1, <1>a DEF CreateTemplate, TypeOK
  <2> QED  BY <1>c, <2>2, <2>3, <2>4 DEF TargetStep
<1>2. ASSUME NEW rules \in RuleSets, CreateTemplateRevision(t, rules) PROVE TargetStep
  <2>1. template[t] \in Template /\ template[t] # NULL
    BY <1>2 DEF CreateTemplateRevision, TypeOK
  <2>2. [template[t] EXCEPT !.revisions = NextRevisions(template[t].revisions, rules)] \in Template
    BY <2>1, TemplateUpdates, InputsAssumption DEF NextRevisions
  <2>3. template'[t] # NULL
    BY <1>2, <2>2, RowsAreNotNULL DEF CreateTemplateRevision, TypeOK
  <2>4. Wrote("reviseCreate", t) /\ user' = user
    BY <1>2 DEF CreateTemplateRevision, auditWrite, Wrote
  <2>5. Others(t)
    BY <1>2, <1>a DEF CreateTemplateRevision, TypeOK
  <2> QED  BY <1>b, <1>c, <2>1, <2>3, <2>4, <2>5 DEF TargetStep, Operations
<1>3. ASSUME NEW r \in 1..MaxTemplateRevision, ActivateTemplateRevision(t, r) PROVE TargetStep
  <2>1. template[t] \in Template /\ template[t] # NULL
    BY <1>3 DEF ActivateTemplateRevision, TypeOK
  <2>2. [template[t] EXCEPT !.active = r] \in Template
    BY <2>1, TemplateUpdates, BoundsAssumption
  <2>3. template'[t] # NULL
    BY <1>3, <2>2, RowsAreNotNULL DEF ActivateTemplateRevision, TypeOK
  <2>4. Wrote("activate", t) /\ user' = user
    BY <1>3 DEF ActivateTemplateRevision, auditWrite, Wrote
  <2>5. Others(t)
    BY <1>3, <1>a DEF ActivateTemplateRevision, TypeOK
  <2> QED  BY <1>b, <1>c, <2>1, <2>3, <2>4, <2>5 DEF TargetStep, Operations
<1>4. CASE DeleteTemplate(t)
  <2>1. template[t] # NULL /\ template'[t] = NULL
    BY <1>4 DEF DeleteTemplate, TypeOK
  <2>2. Wrote("delete", t) /\ user' = user
    BY <1>4 DEF DeleteTemplate, auditWrite, Wrote
  <2>3. Others(t)
    BY <1>4, <1>a DEF DeleteTemplate, TypeOK
  <2> QED  BY <1>c, <2>1, <2>2, <2>3 DEF TargetStep
<1> QED  BY <1>1, <1>2, <1>3, <1>4 DEF AdminTemplate

LEMMA EntitlementStep ==
    ASSUME TypeOK, TypeOK', NEW e \in Entitlements, AdminEntitlement(e)
    PROVE  TargetStep
<1> e \in Targets
  BY DEF Targets
<1>a. ASSUME UNCHANGED <<template, group>>,
             \A d \in Entitlements : d # e => entitlement'[d] = entitlement[d]
      PROVE  Others(e)
  BY <1>a, PresentIs DEF Others, Present, Targets
<1>b. ASSUME Others(e), Present(e)' <=> Present(e)
      PROVE  \A y \in Targets : Present(y)' <=> Present(y)
  BY <1>b DEF Others
<1>c. /\ Present(e) <=> entitlement[e] # NULL
      /\ Present(e)' <=> entitlement'[e] # NULL
  BY PresentIs
<1>1. ASSUME NEW grant \in Grants, NEW t \in Templates, NEW r \in 1..MaxTemplateRevision,
             NEW valid \in Validities, CreateEntitlement(e, grant, t, r, valid)
      PROVE  TargetStep
  <2>1. [subject |-> grant.subject, scope |-> grant.scope, template |-> t,
         templateRevision |-> RevisionGranted(t, r), status |-> "active",
         valid |-> valid, revision |-> 1] \in Entitlement
    BY InputsAssumption, BoundsAssumption DEF Entitlement, RevisionGranted, Statuses
  <2>2. entitlement'[e] # NULL
    BY <1>1, <2>1, RowsAreNotNULL DEF CreateEntitlement, TypeOK
  <2>3. Wrote("create", e) /\ ~Created(e) /\ user' = user
    BY <1>1 DEF CreateEntitlement, auditWrite, Wrote, FreshId
  <2>4. Others(e)
    BY <1>1, <1>a DEF CreateEntitlement, TypeOK
  <2> QED  BY <1>c, <2>2, <2>3, <2>4 DEF TargetStep
<1>2. ASSUME NEW status \in Statuses, UpdateEntitlementStatus(e, status) PROVE TargetStep
  <2>1. entitlement[e] \in Entitlement /\ entitlement[e] # NULL
    BY <1>2 DEF UpdateEntitlementStatus, TypeOK
  <2>2. [entitlement[e] EXCEPT !.status = status,
                               !.revision = entitlement[e].revision + 1] \in Entitlement
    BY <2>1, EntitlementUpdates
  <2>3. entitlement'[e] # NULL
    BY <1>2, <2>2, RowsAreNotNULL DEF UpdateEntitlementStatus, TypeOK
  <2>4. Wrote("statusChange", e) /\ user' = user
    BY <1>2 DEF UpdateEntitlementStatus, auditWrite, Wrote
  <2>5. Others(e)
    BY <1>2, <1>a DEF UpdateEntitlementStatus, TypeOK
  <2> QED  BY <1>b, <1>c, <2>1, <2>3, <2>4, <2>5 DEF TargetStep, Operations
<1>3. ASSUME NEW valid \in Validities, UpdateEntitlementValidity(e, valid) PROVE TargetStep
  <2>1. entitlement[e] \in Entitlement /\ entitlement[e] # NULL
    BY <1>3 DEF UpdateEntitlementValidity, TypeOK
  <2>2. [entitlement[e] EXCEPT !.valid = valid,
                               !.revision = entitlement[e].revision + 1] \in Entitlement
    BY <2>1, EntitlementUpdates, InputsAssumption
  <2>3. entitlement'[e] # NULL
    BY <1>3, <2>2, RowsAreNotNULL DEF UpdateEntitlementValidity, TypeOK
  <2>4. Wrote("validityChange", e) /\ user' = user
    BY <1>3 DEF UpdateEntitlementValidity, auditWrite, Wrote
  <2>5. Others(e)
    BY <1>3, <1>a DEF UpdateEntitlementValidity, TypeOK
  <2> QED  BY <1>b, <1>c, <2>1, <2>3, <2>4, <2>5 DEF TargetStep, Operations
<1>4. CASE DeleteEntitlement(e)
  <2>1. entitlement[e] # NULL /\ entitlement'[e] = NULL
    BY <1>4 DEF DeleteEntitlement, TypeOK
  <2>2. Wrote("delete", e) /\ user' = user
    BY <1>4 DEF DeleteEntitlement, auditWrite, Wrote
  <2>3. Others(e)
    BY <1>4, <1>a DEF DeleteEntitlement, TypeOK
  <2> QED  BY <1>c, <2>1, <2>2, <2>3 DEF TargetStep
<1> QED  BY <1>1, <1>2, <1>3, <1>4 DEF AdminEntitlement

LEMMA GroupStep ==
    ASSUME TypeOK, TypeOK', NEW g \in Groups, AdminGroup(g)
    PROVE  TargetStep
<1> g \in Targets
  BY DEF Targets
<1>a. ASSUME UNCHANGED <<template, entitlement>>,
             \A d \in Groups : d # g => group'[d] = group[d]
      PROVE  Others(g)
  BY <1>a, PresentIs DEF Others, Present, Targets
<1>b. ASSUME Others(g), Present(g)' <=> Present(g)
      PROVE  \A y \in Targets : Present(y)' <=> Present(y)
  BY <1>b DEF Others
<1>c. /\ Present(g) <=> group[g] # NULL
      /\ Present(g)' <=> group'[g] # NULL
  BY PresentIs
<1>d. \A S \in SUBSET (Products \cup ProductReleases) : S # NULL
  BY NULLAssumption
<1>1. CASE CreateGroup(g)
  <2>1. group'[g] # NULL
    BY <1>1, <1>d DEF CreateGroup, TypeOK
  <2>2. Wrote("create", g) /\ ~Created(g) /\ user' = user
    BY <1>1 DEF CreateGroup, auditWrite, Wrote, FreshId
  <2>3. Others(g)
    BY <1>1, <1>a DEF CreateGroup, TypeOK
  <2> QED  BY <1>c, <2>1, <2>2, <2>3 DEF TargetStep
<1>2. CASE DeleteGroup(g)
  <2>1. group[g] # NULL /\ group'[g] = NULL
    BY <1>2 DEF DeleteGroup, TypeOK
  <2>2. Wrote("delete", g) /\ user' = user
    BY <1>2 DEF DeleteGroup, auditWrite, Wrote
  <2>3. Others(g)
    BY <1>2, <1>a DEF DeleteGroup, TypeOK
  <2> QED  BY <1>c, <2>1, <2>2, <2>3 DEF TargetStep
<1>3. ASSUME NEW m \in Members(g), AddMember(g, m) PROVE TargetStep
  <2>1. group[g] \in SUBSET (Products \cup ProductReleases) /\ group[g] # NULL
    BY <1>3 DEF AddMember, TypeOK
  <2>2. group[g] \cup {m} \in SUBSET (Products \cup ProductReleases)
    BY <2>1 DEF Members
  <2>3. group'[g] # NULL
    BY <1>3, <1>d, <2>2 DEF AddMember, TypeOK
  <2>4. Wrote("addMember", g) /\ user' = user
    BY <1>3 DEF AddMember, auditWrite, Wrote
  <2>5. Others(g)
    BY <1>3, <1>a DEF AddMember, TypeOK
  <2> QED  BY <1>b, <1>c, <2>1, <2>3, <2>4, <2>5 DEF TargetStep, Operations
<1>4. ASSUME NEW m \in Members(g), RemoveMember(g, m) PROVE TargetStep
  <2>1. group[g] \in SUBSET (Products \cup ProductReleases) /\ group[g] # NULL
    BY <1>4 DEF RemoveMember, TypeOK
  <2>2. group[g] \ {m} \in SUBSET (Products \cup ProductReleases)
    BY <2>1
  <2>3. group'[g] # NULL
    BY <1>4, <1>d, <2>2 DEF RemoveMember, TypeOK
  <2>4. Wrote("removeMember", g) /\ user' = user
    BY <1>4 DEF RemoveMember, auditWrite, Wrote
  <2>5. Others(g)
    BY <1>4, <1>a DEF RemoveMember, TypeOK
  <2> QED  BY <1>b, <1>c, <2>1, <2>3, <2>4, <2>5 DEF TargetStep, Operations
<1> QED
  BY <1>1, <1>2, <1>3, <1>4
     DEF AdminGroup, CreateProductGroup, CreateReleaseGroup, DeleteProductGroup,
         DeleteReleaseGroup, AddProductGroupMember, AddReleaseGroupMember,
         RemoveProductGroupMember, RemoveReleaseGroupMember

LEMMA EveryStep ==
    ASSUME TypeOK, [Next]_vars PROVE TargetStep
<1>0. TypeOK'
  BY TypeStep
<1>1. CASE UNCHANGED tables
  <2>1. \A y \in Targets : Present(y)' <=> Present(y)
    BY <1>1 DEF tables, Present
  <2> QED  BY <1>1, <2>1 DEF tables, TargetStep
<1>2. ASSUME NEW u \in Users, DeleteUser(u) PROVE TargetStep
  <2>1. user' = user \ {u} /\ audit' = audit
    BY <1>2 DEF DeleteUser
  <2>2. \A y \in Targets : Present(y) /\ ~Present(y)' => GoesWithUser(y)
    <3> SUFFICES ASSUME NEW y \in Targets, Present(y), ~Present(y)'
                 PROVE  GoesWithUser(y)
      OBVIOUS
    <3>1. y \in Entitlements
      BY <1>2 DEF DeleteUser, Present, Targets
    <3>2. entitlement[y] # NULL /\ entitlement'[y] = NULL
      BY <3>1, PresentIs
    <3>3. entitlement[y].subject = <<"principal", u>>
      BY <1>2, <3>1, <3>2 DEF DeleteUser
    <3> QED  BY <2>1, <3>1, <3>3 DEF GoesWithUser
  <2>3. \A y \in Targets : Present(y)' => Present(y)
    BY <1>2, PresentIs DEF DeleteUser, Present, Targets
  <2> QED  BY <2>1, <2>2, <2>3 DEF TargetStep
<1>3. ASSUME NEW q \in Requests, RequestStep(q) PROVE UNCHANGED tables
  BY <1>3 DEF RequestStep, Begin, QueryRules, ListProductGroupsContaining,
       ListReleaseGroupsContaining, listCollectionsContainingArtifact, Replace,
       EnterCollection, Answer
<1> QED
  BY <1>0, <1>1, <1>2, <1>3, TemplateStep, EntitlementStep, GroupStep
     DEF Next, Change, Tick, vars

\* An entitlement keeps the subject that it was created for.
GranteeInv ==
    \A e \in Entitlements : entitlement[e] # NULL => entitlement[e].subject = grantee[e]

LEMMA GranteeStep ==
    ASSUME TypeOK, [Next]_vars
    PROVE  /\ GranteeInv => GranteeInv'
           /\ \A e \in Entitlements : Created(e) => grantee'[e] = grantee[e]
<1> DEFINE Kept == /\ GranteeInv => GranteeInv'
                   /\ \A e \in Entitlements : Created(e) => grantee'[e] = grantee[e]
<1>1. ASSUME UNCHANGED <<entitlement, grantee>> PROVE Kept
  BY <1>1 DEF GranteeInv
<1>2. ASSUME NEW e \in Entitlements, AdminEntitlement(e) PROVE Kept
  <2>1. ASSUME NEW grant \in Grants, NEW t \in Templates, NEW r \in 1..MaxTemplateRevision,
               NEW valid \in Validities, CreateEntitlement(e, grant, t, r, valid)
        PROVE  Kept
    <3>1. /\ ~Created(e)
          /\ \A d \in Entitlements : d # e =>
                entitlement'[d] = entitlement[d] /\ grantee'[d] = grantee[d]
      BY <2>1 DEF CreateEntitlement, FreshId, TypeOK
    <3>2. entitlement'[e].subject = grant.subject /\ grantee'[e] = grant.subject
      BY <2>1 DEF CreateEntitlement, TypeOK
    <3> QED  BY <3>1, <3>2 DEF GranteeInv
  <2>2. ASSUME NEW status \in Statuses, UpdateEntitlementStatus(e, status) PROVE Kept
    <3>1. entitlement[e] \in Entitlement
      BY <2>2 DEF UpdateEntitlementStatus, TypeOK
    <3>2. \A d \in Entitlements : entitlement[d] # NULL =>
              entitlement'[d].subject = entitlement[d].subject
      BY <2>2, <3>1 DEF UpdateEntitlementStatus, TypeOK, Entitlement
    <3>3. \A d \in Entitlements : entitlement'[d] # NULL => entitlement[d] # NULL
      BY <2>2 DEF UpdateEntitlementStatus, TypeOK
    <3> QED  BY <2>2, <3>2, <3>3 DEF UpdateEntitlementStatus, GranteeInv
  <2>3. ASSUME NEW valid \in Validities, UpdateEntitlementValidity(e, valid) PROVE Kept
    <3>1. entitlement[e] \in Entitlement
      BY <2>3 DEF UpdateEntitlementValidity, TypeOK
    <3>2. \A d \in Entitlements : entitlement[d] # NULL =>
              entitlement'[d].subject = entitlement[d].subject
      BY <2>3, <3>1 DEF UpdateEntitlementValidity, TypeOK, Entitlement
    <3>3. \A d \in Entitlements : entitlement'[d] # NULL => entitlement[d] # NULL
      BY <2>3 DEF UpdateEntitlementValidity, TypeOK
    <3> QED  BY <2>3, <3>2, <3>3 DEF UpdateEntitlementValidity, GranteeInv
  <2>4. CASE DeleteEntitlement(e)
    BY <2>4 DEF DeleteEntitlement, GranteeInv, TypeOK
  <2> QED  BY <1>2, <2>1, <2>2, <2>3, <2>4 DEF AdminEntitlement
<1>3. ASSUME NEW u \in Users, DeleteUser(u) PROVE Kept
  BY <1>3 DEF DeleteUser, GranteeInv
<1>4. ASSUME NEW t \in Templates, AdminTemplate(t) PROVE UNCHANGED <<entitlement, grantee>>
  BY <1>4 DEF AdminTemplate, CreateTemplate, CreateTemplateRevision,
     ActivateTemplateRevision, DeleteTemplate
<1>5. ASSUME NEW g \in Groups, AdminGroup(g) PROVE UNCHANGED <<entitlement, grantee>>
  BY <1>5 DEF AdminGroup, CreateProductGroup, CreateReleaseGroup, CreateGroup,
     DeleteProductGroup, DeleteReleaseGroup, DeleteGroup, AddProductGroupMember,
     AddReleaseGroupMember, AddMember, RemoveProductGroupMember,
     RemoveReleaseGroupMember, RemoveMember
<1>6. ASSUME NEW q \in Requests, RequestStep(q) PROVE UNCHANGED tables
  BY <1>6 DEF RequestStep, Begin, QueryRules, ListProductGroupsContaining,
       ListReleaseGroupsContaining, listCollectionsContainingArtifact, Replace,
       EnterCollection, Answer
<1>7. CASE UNCHANGED tables
  BY <1>1, <1>7 DEF tables
<1> QED
  BY <1>1, <1>2, <1>3, <1>4, <1>5, <1>6, <1>7 DEF Next, Change, Tick, vars

\* The log and the tables, and: what was deleted had been created.
AuditInv ==
    /\ GranteeInv
    /\ \A x \in Targets :
          /\ Present(x) => Created(x) /\ <<"delete", x>> \notin audit
          /\ Created(x) /\ ~Present(x) =>
                <<"delete", x>> \in audit \/ (x \in Entitlements /\ OfDeletedUser(x))
          /\ <<"delete", x>> \in audit => Created(x)

LEMMA AuditInvStep ==
    ASSUME TypeOK, AuditInv, [Next]_vars PROVE AuditInv'
<1> USE DEF AuditInv
<1>0. TargetStep /\ GranteeInv'
  BY EveryStep, GranteeStep
<1>a. ASSUME user' \subseteq user
      PROVE  \A x \in Entitlements : Created(x) /\ OfDeletedUser(x) => OfDeletedUser(x)'
  BY <1>a, GranteeStep DEF OfDeletedUser
<1>1. ASSUME audit' = audit PROVE \A x : Created(x)' <=> Created(x)
  BY <1>1 DEF Created
<1>2. ASSUME NEW op, NEW x, Wrote(op, x)
      PROVE  \A y : Created(y)' <=> Created(y) \/ (op = "create" /\ y = x)
  BY <1>2 DEF Wrote, Created
<1>3. CASE user' = user /\ audit' = audit /\ \A y \in Targets : Present(y)' <=> Present(y)
  BY <1>0, <1>a, <1>1, <1>3
<1>4. ASSUME NEW op \in Operations \ {"create", "delete"}, NEW x \in Targets,
             user' = user, Wrote(op, x), \A y \in Targets : Present(y)' <=> Present(y)
      PROVE  AuditInv'
  <2>1. \A y : <<"delete", y>> \in audit' <=> <<"delete", y>> \in audit
    BY <1>4 DEF Wrote
  <2>2. \A y : Created(y)' <=> Created(y)
    BY <1>2, <1>4
  <2> QED  BY <1>0, <1>a, <1>4, <2>1, <2>2
<1>5. ASSUME NEW x \in Targets, user' = user, Wrote("create", x), ~Created(x),
             Present(x)', Others(x)
      PROVE  AuditInv'
  <2>1. \A y : <<"delete", y>> \in audit' <=> <<"delete", y>> \in audit
    BY <1>5 DEF Wrote
  <2>2. \A y : Created(y)' <=> Created(y) \/ y = x
    BY <1>2, <1>5
  <2> QED  BY <1>0, <1>a, <1>5, <2>1, <2>2 DEF Others
<1>6. ASSUME NEW x \in Targets, user' = user, Wrote("delete", x), Present(x),
             ~Present(x)', Others(x)
      PROVE  AuditInv'
  <2>1. \A y : <<"delete", y>> \in audit' <=> <<"delete", y>> \in audit \/ y = x
    BY <1>6 DEF Wrote
  <2>2. \A y : Created(y)' <=> Created(y)
    BY <1>2, <1>6
  <2> QED  BY <1>0, <1>a, <1>6, <2>1, <2>2 DEF Others
<1>7. CASE /\ audit' = audit /\ user' \subseteq user
           /\ \A y \in Targets : Present(y)' => Present(y)
           /\ \A y \in Targets : Present(y) /\ ~Present(y)' => GoesWithUser(y)
  <2>1. \A y \in Targets : Present(y) /\ ~Present(y)' => y \in Entitlements /\ OfDeletedUser(y)'
    <3> SUFFICES ASSUME NEW y \in Targets, Present(y), ~Present(y)'
                 PROVE  y \in Entitlements /\ OfDeletedUser(y)'
      OBVIOUS
    <3>1. PICK u \in Users \ user' : entitlement[y].subject = <<"principal", u>>
      BY <1>7 DEF GoesWithUser
    <3>2. y \in Entitlements /\ entitlement[y] # NULL /\ Created(y)
      BY <1>7, PresentIs DEF GoesWithUser
    <3>3. grantee'[y] = <<"principal", u>>
      BY <3>1, <3>2, GranteeStep DEF GranteeInv
    <3> QED  BY <3>1, <3>2, <3>3 DEF OfDeletedUser
  <2> QED  BY <1>0, <1>a, <1>1, <1>7, <2>1
<1> QED  BY <1>0, <1>3, <1>4, <1>5, <1>6, <1>7 DEF TargetStep

LEMMA AuditInvHolds == Spec => [](TypeOK /\ AuditInv)
<1>1. Init => AuditInv
  <2> SUFFICES ASSUME Init PROVE AuditInv
    OBVIOUS
  <2>1. audit = {} /\ (\A x : Created(x) <=> x \in {PublicTemplate, PublicEntitlement})
    BY DEF Init, Created
  <2>2. Present(PublicTemplate) /\ Present(PublicEntitlement)
    <3>1. [revisions |-> <<PublicRules>>, active |-> 1] \in Template
      BY InputsAssumption DEF Template
    <3>2. Public \in Entitlement
      BY InputsAssumption DEF Public, Entitlement, Subjects, Scopes, AllProducts, Statuses,
         Validity
    <3> QED  BY <3>1, <3>2, RowsAreNotNULL, InputsAssumption, UUIDsAssumption
               DEF Init, Present
  <2>3. \A x \in Targets : Present(x) => Created(x)
    BY <2>1 DEF Init, Present, Targets
  <2>4. GranteeInv
    BY DEF Init, GranteeInv
  <2> QED  BY <2>1, <2>2, <2>3, <2>4 DEF AuditInv
<1>2. TypeOK /\ AuditInv /\ [Next]_vars => AuditInv'
  BY AuditInvStep
<1> QED  BY <1>1, <1>2, TypeCorrect, PTL DEF Spec

\* The audit log accounts for the tables: an administrator's change and its
\* record are one transaction, so what exists was created and not deleted, and
\* what is gone was deleted, except what was granted to a user who is gone too.
THEOREM AuditExplainsTablesHolds == Spec => []AuditExplainsTables
<1>1. AuditInv => AuditExplainsTables
  BY DEF AuditInv, AuditExplainsTables
<1> QED  BY <1>1, AuditInvHolds, PTL

-----------------------------------------------------------------------------
(* The rules of an entitlement.                                            *)

\* An entitlement names a revision that exists of a template that exists.
GrantsResolve ==
    \A e \in Entitlements : entitlement[e] # NULL =>
        /\ template[entitlement[e].template] # NULL
        /\ entitlement[e].templateRevision \in 1..Len(template[entitlement[e].template].revisions)

\* A template that is in use stays, and its revisions stay what they are.
TemplatesKept ==
    \A t \in Templates : template[t] # NULL =>
        \/ template'[t] = NULL /\ ~InUse(t) /\ UNCHANGED entitlement
        \/ /\ template'[t] # NULL
           /\ Len(template'[t].revisions) >= Len(template[t].revisions)
           /\ \A i \in 1..Len(template[t].revisions) :
                 template'[t].revisions[i] = template[t].revisions[i]

\* An entitlement that stays keeps naming its revision; a new one names a
\* revision that exists.
EntitlementsKept ==
    \A e \in Entitlements : entitlement'[e] # NULL =>
        \/ /\ entitlement[e] # NULL
           /\ entitlement'[e].template = entitlement[e].template
           /\ entitlement'[e].templateRevision = entitlement[e].templateRevision
        \/ /\ entitlement[e] = NULL /\ UNCHANGED template
           /\ template[entitlement'[e].template] # NULL
           /\ entitlement'[e].templateRevision
                \in 1..Len(template[entitlement'[e].template].revisions)

LEMMA KeptByTemplates ==
    ASSUME TypeOK, TypeOK', AuditInv, NEW t \in Templates, AdminTemplate(t)
    PROVE  TemplatesKept /\ UNCHANGED entitlement
<1> t \in Targets
  BY DEF Targets
<1>0. UNCHANGED entitlement
  BY DEF AdminTemplate, CreateTemplate, CreateTemplateRevision, ActivateTemplateRevision,
     DeleteTemplate
<1>a. ASSUME \A u \in Templates \ {t} : template'[u] = template[u],
             template[t] # NULL =>
                \/ template'[t] = NULL /\ ~InUse(t)
                \/ /\ template'[t] # NULL
                   /\ Len(template'[t].revisions) >= Len(template[t].revisions)
                   /\ \A i \in 1..Len(template[t].revisions) :
                         template'[t].revisions[i] = template[t].revisions[i]
      PROVE  TemplatesKept
  <2>1. \A u \in Templates : template[u] # NULL => Len(template[u].revisions) \in Nat
    BY DEF TypeOK, Template
  <2> QED  BY <1>0, <1>a, <2>1 DEF TemplatesKept
<1>1. ASSUME NEW rules \in RuleSets, CreateTemplate(t, rules) PROVE TemplatesKept
  <2>1. template[t] = NULL
    BY <1>1, PresentIs DEF CreateTemplate, FreshId, AuditInv
  <2> QED  BY <1>1, <1>a, <2>1 DEF CreateTemplate, TypeOK
<1>2. ASSUME NEW rules \in RuleSets, CreateTemplateRevision(t, rules) PROVE TemplatesKept
  <2>1. template[t] \in Template /\ template[t] # NULL
    BY <1>2 DEF CreateTemplateRevision, TypeOK
  <2> DEFINE row == [template[t] EXCEPT !.revisions = Append(template[t].revisions, rules)]
  <2>2. row \in Template /\ row.revisions = Append(template[t].revisions, rules)
    BY <2>1, TemplateUpdates, InputsAssumption DEF Template
  <2>3. template' = [template EXCEPT ![t] = row]
    BY <1>2 DEF CreateTemplateRevision, NextRevisions
  <2> HIDE DEF row
  <2>4. template'[t] = row /\ row # NULL /\ \A u \in Templates \ {t} : template'[u] = template[u]
    BY <2>2, <2>3, RowsAreNotNULL DEF TypeOK
  <2>5. template[t].revisions \in Seq(SUBSET Rule)
    BY <2>1 DEF Template
  <2>6. /\ Len(row.revisions) >= Len(template[t].revisions)
        /\ \A i \in 1..Len(template[t].revisions) : row.revisions[i] = template[t].revisions[i]
    BY <2>2, <2>5
  <2> QED  BY <1>a, <2>4, <2>6
<1>3. ASSUME NEW r \in 1..MaxTemplateRevision, ActivateTemplateRevision(t, r)
      PROVE  TemplatesKept
  <2>1. template[t] \in Template /\ template[t] # NULL
    BY <1>3 DEF ActivateTemplateRevision, TypeOK
  <2> DEFINE row == [template[t] EXCEPT !.active = r]
  <2>2. row \in Template /\ row.revisions = template[t].revisions
    BY <2>1, TemplateUpdates, BoundsAssumption DEF Template
  <2>3. template' = [template EXCEPT ![t] = row]
    BY <1>3 DEF ActivateTemplateRevision
  <2> HIDE DEF row
  <2>4. template'[t] = row /\ row # NULL /\ \A u \in Templates \ {t} : template'[u] = template[u]
    BY <2>2, <2>3, RowsAreNotNULL DEF TypeOK
  <2>5. Len(template[t].revisions) \in Nat
    BY <2>1 DEF Template
  <2> QED  BY <1>a, <2>2, <2>4, <2>5
<1>4. ASSUME DeleteTemplate(t) PROVE TemplatesKept
  <2>1. template'[t] = NULL /\ ~InUse(t) /\ \A u \in Templates \ {t} : template'[u] = template[u]
    BY <1>4 DEF DeleteTemplate, TypeOK
  <2> QED  BY <1>a, <2>1
<1> QED  BY <1>0, <1>1, <1>2, <1>3, <1>4 DEF AdminTemplate

LEMMA KeptByEntitlements ==
    ASSUME TypeOK, AuditInv, NEW e \in Entitlements, AdminEntitlement(e)
    PROVE  EntitlementsKept /\ UNCHANGED template
<1> e \in Targets
  BY DEF Targets
<1>0. UNCHANGED template
  BY DEF AdminEntitlement, CreateEntitlement, UpdateEntitlementStatus,
     UpdateEntitlementValidity, DeleteEntitlement
<1>a. ASSUME NEW row, entitlement' = [entitlement EXCEPT ![e] = row],
             row # NULL =>
                \/ /\ entitlement[e] # NULL /\ row.template = entitlement[e].template
                   /\ row.templateRevision = entitlement[e].templateRevision
                \/ /\ entitlement[e] = NULL /\ template[row.template] # NULL
                   /\ row.templateRevision \in 1..Len(template[row.template].revisions)
      PROVE  EntitlementsKept
  <2>1. entitlement'[e] = row /\ \A d \in Entitlements \ {e} : entitlement'[d] = entitlement[d]
    BY <1>a DEF TypeOK
  <2> QED  BY <1>0, <1>a, <2>1 DEF EntitlementsKept
<1>1. ASSUME NEW grant \in Grants, NEW t \in Templates, NEW r \in 1..MaxTemplateRevision,
             NEW valid \in Validities, CreateEntitlement(e, grant, t, r, valid)
      PROVE  EntitlementsKept
  <2>1. entitlement[e] = NULL
    BY <1>1, PresentIs DEF CreateEntitlement, FreshId, AuditInv
  <2> DEFINE row == [subject |-> grant.subject, scope |-> grant.scope, template |-> t,
                     templateRevision |-> r, status |-> "active", valid |-> valid,
                     revision |-> 1]
  <2>2. entitlement' = [entitlement EXCEPT ![e] = row] /\ row.template = t
        /\ row.templateRevision = r
    BY <1>1 DEF CreateEntitlement, RevisionGranted
  <2>3. template[t] # NULL /\ r \in 1..Len(template[t].revisions)
    BY <1>1 DEF CreateEntitlement
  <2> HIDE DEF row
  <2> QED  BY <1>a, <2>1, <2>2, <2>3
<1>2. ASSUME NEW status, UpdateEntitlementStatus(e, status) PROVE EntitlementsKept
  <2> DEFINE row == [entitlement[e] EXCEPT !.status = status,
                                           !.revision = entitlement[e].revision + 1]
  <2>1. entitlement' = [entitlement EXCEPT ![e] = row] /\ entitlement[e] # NULL
    BY <1>2 DEF UpdateEntitlementStatus
  <2>2. row.template = entitlement[e].template
        /\ row.templateRevision = entitlement[e].templateRevision
    BY <2>1 DEF TypeOK, Entitlement
  <2> HIDE DEF row
  <2> QED  BY <1>a, <2>1, <2>2
<1>3. ASSUME NEW valid, UpdateEntitlementValidity(e, valid) PROVE EntitlementsKept
  <2> DEFINE row == [entitlement[e] EXCEPT !.valid = valid,
                                           !.revision = entitlement[e].revision + 1]
  <2>1. entitlement' = [entitlement EXCEPT ![e] = row] /\ entitlement[e] # NULL
    BY <1>3 DEF UpdateEntitlementValidity
  <2>2. row.template = entitlement[e].template
        /\ row.templateRevision = entitlement[e].templateRevision
    BY <2>1 DEF TypeOK, Entitlement
  <2> HIDE DEF row
  <2> QED  BY <1>a, <2>1, <2>2
<1>4. CASE DeleteEntitlement(e)
  BY <1>4, <1>a DEF DeleteEntitlement
<1> QED  BY <1>0, <1>1, <1>2, <1>3, <1>4 DEF AdminEntitlement

LEMMA KeptStep ==
    ASSUME TypeOK, AuditInv, [Next]_vars
    PROVE  TemplatesKept /\ EntitlementsKept
<1>0. TypeOK'
  BY TypeStep
<1>1. ASSUME UNCHANGED template PROVE TemplatesKept
  <2>1. \A t \in Templates : template[t] # NULL => Len(template[t].revisions) \in Nat
    BY DEF TypeOK, Template
  <2> QED  BY <1>1, <2>1 DEF TemplatesKept
<1>2. ASSUME UNCHANGED entitlement PROVE EntitlementsKept
  BY <1>2 DEF EntitlementsKept
<1>3. ASSUME NEW u \in Users, DeleteUser(u) PROVE EntitlementsKept /\ UNCHANGED template
  BY <1>3 DEF DeleteUser, EntitlementsKept
<1>4. ASSUME NEW g \in Groups, AdminGroup(g) PROVE UNCHANGED <<template, entitlement>>
  BY <1>4 DEF AdminGroup, CreateProductGroup, CreateReleaseGroup, DeleteProductGroup,
       DeleteReleaseGroup, AddProductGroupMember, AddReleaseGroupMember,
       RemoveProductGroupMember, RemoveReleaseGroupMember, CreateGroup, DeleteGroup,
       AddMember, RemoveMember
<1>5. ASSUME NEW q \in Requests, RequestStep(q) PROVE UNCHANGED <<template, entitlement>>
  BY <1>5 DEF RequestStep, Begin, QueryRules, ListProductGroupsContaining,
       ListReleaseGroupsContaining, listCollectionsContainingArtifact, Replace,
       EnterCollection, Answer, tables
<1> QED
  BY <1>0, <1>1, <1>2, <1>3, <1>4, <1>5, KeptByTemplates, KeptByEntitlements
     DEF Next, Change, Tick, vars, tables

LEMMA ResolveStep ==
    ASSUME TypeOK, TypeOK', GrantsResolve, TemplatesKept, EntitlementsKept
    PROVE  GrantsResolve'
<1> SUFFICES ASSUME NEW e \in Entitlements, entitlement'[e] # NULL
             PROVE  /\ template'[entitlement'[e].template] # NULL
                    /\ entitlement'[e].templateRevision
                         \in 1..Len(template'[entitlement'[e].template].revisions)
  BY DEF GrantsResolve
<1>1. CASE entitlement[e] = NULL
  BY <1>1 DEF EntitlementsKept
<1>2. CASE entitlement[e] # NULL
  <2> DEFINE t == entitlement[e].template
             r == entitlement[e].templateRevision
  <2>1. t \in Templates /\ entitlement'[e].template = t /\ entitlement'[e].templateRevision = r
    BY <1>2 DEF EntitlementsKept, TypeOK, Entitlement
  <2>2. template[t] # NULL /\ r \in 1..Len(template[t].revisions)
    BY <1>2 DEF GrantsResolve
  <2>3. InUse(t)
    BY <1>2 DEF InUse
  <2>4. /\ template'[t] # NULL
        /\ Len(template'[t].revisions) >= Len(template[t].revisions)
    BY <2>1, <2>2, <2>3 DEF TemplatesKept
  <2>5. Len(template[t].revisions) \in Nat /\ Len(template'[t].revisions) \in Nat
    BY <2>1, <2>2, <2>4 DEF TypeOK, Template
  <2> HIDE DEF t, r
  <2> QED  BY <2>1, <2>2, <2>4, <2>5
<1> QED  BY <1>1, <1>2

TablesInv == TypeOK /\ AuditInv /\ GrantsResolve

\* The inductive invariant of the tables: types, the log, and entitlements
\* that name revisions that exist.
LEMMA TablesInvHolds == Spec => []TablesInv
<1>1. Init => GrantsResolve
  <2> SUFFICES ASSUME Init PROVE GrantsResolve
    OBVIOUS
  <2> DEFINE row == [revisions |-> <<PublicRules>>, active |-> 1]
  <2>1. row \in Template /\ row.revisions = <<PublicRules>> /\ Len(<<PublicRules>>) = 1
    BY InputsAssumption DEF Template
  <2>2. template[PublicTemplate] = row
    BY InputsAssumption DEF Init
  <2>3. \A e \in Entitlements : entitlement[e] # NULL => entitlement[e] = Public
    BY DEF Init
  <2>4. Public.template = PublicTemplate /\ Public.templateRevision = 1
    BY DEF Public
  <2> HIDE DEF row
  <2>5. row # NULL /\ 1 \in 1..Len(row.revisions)
    BY <2>1, RowsAreNotNULL
  <2> QED  BY <2>2, <2>3, <2>4, <2>5 DEF GrantsResolve
<1>2. TypeOK /\ AuditInv /\ GrantsResolve /\ [Next]_vars => GrantsResolve'
  BY TypeStep, KeptStep, ResolveStep
<1> QED  BY <1>1, <1>2, AuditInvHolds, PTL DEF Spec, TablesInv

LEMMA RulesKept ==
    ASSUME TablesInv, [Next]_vars, NEW e \in Entitlements,
           entitlement[e] # NULL, entitlement'[e] # NULL
    PROVE  RulesOf(e)' = RulesOf(e)
<1> DEFINE t == entitlement[e].template
           r == entitlement[e].templateRevision
<1>1. TemplatesKept /\ EntitlementsKept
  BY KeptStep DEF TablesInv
<1>2. t \in Templates /\ entitlement'[e].template = t /\ entitlement'[e].templateRevision = r
  BY <1>1 DEF EntitlementsKept, TypeOK, Entitlement, TablesInv
<1>3. template[t] # NULL /\ r \in 1..Len(template[t].revisions)
  BY DEF GrantsResolve, TablesInv
<1>4. /\ template'[t] # NULL
      /\ Len(template'[t].revisions) >= Len(template[t].revisions)
      /\ template'[t].revisions[r] = template[t].revisions[r]
  <2>1. InUse(t)
    BY DEF InUse
  <2> QED  BY <1>1, <1>2, <1>3, <2>1 DEF TemplatesKept
<1>5. Len(template[t].revisions) \in Nat /\ Len(template'[t].revisions) \in Nat
  BY <1>2, <1>3, <1>4, TypeStep DEF TypeOK, Template, TablesInv
<1>6. RulesOf(e) = template[t].revisions[r]
  BY <1>3, <1>5 DEF RulesOf
<1>7. RulesOf(e)' = template'[t].revisions[r]
  <2>0. \A a, b \in Nat : \A c \in 1..a : b >= a => ~(c > b)
    OBVIOUS
  <2> HIDE DEF t, r
  <2>1. ~(r > Len(template'[t].revisions))
    BY <2>0, <1>3, <1>4, <1>5
  <2> QED  BY <1>2, <1>4, <2>1 DEF RulesOf
<1> QED  BY <1>4, <1>6, <1>7

\* An entitlement keeps its rules while it exists: revisions are only added,
\* activating one touches no entitlement, and a template in use stays.
THEOREM GrantKeepsItsRulesHolds == Spec => GrantKeepsItsRules
<1> DEFINE Keeps == \A e \in Entitlements :
              entitlement[e] # NULL /\ entitlement'[e] # NULL => RulesOf(e)' = RulesOf(e)
<1>1. TablesInv /\ [Next]_vars => Keeps
  BY RulesKept
<1>2. TablesInv /\ [Next]_vars => [Keeps]_vars
  BY <1>1
<1> QED  BY <1>2, TablesInvHolds, PTL DEF Spec, GrantKeepsItsRules

-----------------------------------------------------------------------------
(* Plans: what the queries of a decision look at.                          *)

\* What a plan is made of.
Items ==
    [do : {"rules", "product groups", "release groups", "collections of", "collections"},
     of : SUBSET (Scopes \cup Products \cup ProductReleases \cup ComponentReleases
                  \cup Artifacts)]
Elems(s) == {s[i] : i \in 1..Len(s)}
Firsts(paths) == {path[1] : path \in paths}

LEMMA ElemsOfTail ==
    ASSUME NEW s \in Seq(Items), s # <<>>
    PROVE  /\ Head(s) \in Items /\ Tail(s) \in Seq(Items)
           /\ Elems(s) = {Head(s)} \cup Elems(Tail(s))
<1>1. /\ Tail(s) \in Seq(Items) /\ Len(Tail(s)) = Len(s) - 1 /\ Len(s) \in Nat /\ Len(s) > 0
      /\ Head(s) = s[1] /\ \A i \in 1..Len(s) - 1 : Tail(s)[i] = s[i + 1]
  OBVIOUS
<1>2. \A i \in 1..Len(s) : i = 1 \/ (i - 1 \in 1..Len(s) - 1 /\ s[i] = Tail(s)[i - 1])
  BY <1>1
<1>3. \A i \in 1..Len(s) - 1 : i + 1 \in 1..Len(s)
  BY <1>1
<1>4. Elems(s) \subseteq {Head(s)} \cup Elems(Tail(s))
  BY <1>1, <1>2 DEF Elems
<1>5. {Head(s)} \cup Elems(Tail(s)) \subseteq Elems(s)
  BY <1>1, <1>3 DEF Elems
<1> QED  BY <1>1, <1>4, <1>5

LEMMA ElemsOfConcat ==
    ASSUME NEW s \in Seq(Items), NEW t \in Seq(Items)
    PROVE  s \o t \in Seq(Items) /\ Elems(s \o t) = Elems(s) \cup Elems(t)
<1>1. /\ s \o t \in Seq(Items) /\ Len(s \o t) = Len(s) + Len(t)
      /\ Len(s) \in Nat /\ Len(t) \in Nat
      /\ \A i \in 1..Len(s) : (s \o t)[i] = s[i]
      /\ \A i \in 1..Len(s) + Len(t) : i > Len(s) => (s \o t)[i] = t[i - Len(s)]
  OBVIOUS
<1>2. \A i \in 1..Len(s) + Len(t) : i \in 1..Len(s) \/ (i > Len(s) /\ i - Len(s) \in 1..Len(t))
  BY <1>1
<1>3. \A i \in 1..Len(s) : i \in 1..Len(s) + Len(t)
  BY <1>1
<1>4. \A i \in 1..Len(t) : /\ i + Len(s) \in 1..Len(s) + Len(t) /\ i + Len(s) > Len(s)
                           /\ (i + Len(s)) - Len(s) = i
  BY <1>1
<1>5. Elems(s \o t) \subseteq Elems(s) \cup Elems(t)
  BY <1>1, <1>2 DEF Elems
<1>6. Elems(s) \subseteq Elems(s \o t)
  BY <1>1, <1>3 DEF Elems
<1>7. \A i \in 1..Len(t) : (s \o t)[i + Len(s)] = t[i]
  BY <1>1, <1>4
<1>8. Elems(t) \subseteq Elems(s \o t)
  BY <1>1, <1>4, <1>7 DEF Elems
<1> QED  BY <1>1, <1>5, <1>6, <1>8

LEMMA ElemsOfShort ==
    /\ Elems(<<>>) = {}
    /\ \A x : Elems(<<x>>) = {x}
    /\ \A x, y : Elems(<<x, y>>) = {x, y}
    /\ \A x, y, z : Elems(<<x, y, z>>) = {x, y, z}
<1>1. 1..1 = {1} /\ 1..2 = {1, 2} /\ 1..3 = {1, 2, 3}
  OBVIOUS
<1> QED  BY <1>1 DEF Elems

\* The products, releases and collections by which a resource is in groups.
ReleasesOf(resource) ==
    IF resource[1] \in {"product_release", "collection"} THEN {resource[2]} \cap ProductReleases
    ELSE IF resource[1] = "artifact" THEN CollectionsOf[resource[2]] \cap ProductReleases
    ELSE {}
ProductsOf(resource) ==
    IF resource[1] = "product" THEN {resource[2]}
    ELSE {ProductOf[r] : r \in ReleasesOf(resource)}
CollectionsIn(resource) ==
    IF resource[1] = "artifact" THEN CollectionsOf[resource[2]] ELSE {}

\* An item queries scopes that the resource was in, or looks up what leads to some.
Allowed(item, resource, reached) ==
    /\ item.do = "rules" => item.of \subseteq reached
    /\ item.do = "product groups" => \E p \in ProductsOf(resource) : item.of = {p}
    /\ item.do = "release groups" => \E r \in ReleasesOf(resource) : item.of = {r}
    /\ item.do = "collections" => item.of \subseteq CollectionsIn(resource)
    /\ item.do = "collections of" => resource[1] = "artifact" /\ item.of = {resource[2]}

\* An item that will query the scope of a path, while the resource is in it.
Basic(item, path) ==
    \/ item.do = "rules" /\ path[1] \in item.of
    \/ item.do = "product groups" /\ path[1][1] = "product_group" /\ path[2] \in item.of
    \/ item.do = "release groups" /\ path[1][1] = "release_group" /\ path[2] \in item.of
InPlan(plan, path) == \E item \in Elems(plan) : Basic(item, path)
Covers(item, path) ==
    \/ Basic(item, path)
    \/ item.do = "collections" /\ \E c \in item.of : InPlan(PlanForCollection(c), path)
    \/ item.do = "collections of" /\ \E a \in item.of :
            \E c \in CollectionsOf[a] : InPlan(PlanForCollection(c), path)
Pending(todo, path) == \E item \in Elems(todo) : Covers(item, path)

\* A plan that looks at the paths, for a resource that is in their scopes.
PlanFits(plan, paths, resource, reached) ==
    /\ plan \in Seq(Items)
    /\ \A item \in Elems(plan) : Allowed(item, resource, reached)
    /\ \A path \in paths : InPlan(plan, path)

LEMMA ItemsAre ==
    /\ \A S \in SUBSET Scopes : RulesAt(S) \in Items
    /\ \A p \in Products : ListProductGroups(p) \in Items
    /\ \A r \in ProductReleases : ListReleaseGroups(r) \in Items
    /\ \A a \in Artifacts : ListCollections(a) \in Items
    /\ \A S \in SUBSET (ProductReleases \cup ComponentReleases) : EachCollection(S) \in Items
  BY DEF Items, RulesAt, ListProductGroups, ListReleaseGroups, ListCollections, EachCollection

LEMMA FieldsAre ==
    /\ \A S : RulesAt(S).do = "rules" /\ RulesAt(S).of = S
    /\ \A p : ListProductGroups(p).do = "product groups" /\ ListProductGroups(p).of = {p}
    /\ \A r : ListReleaseGroups(r).do = "release groups" /\ ListReleaseGroups(r).of = {r}
    /\ \A a : ListCollections(a).do = "collections of" /\ ListCollections(a).of = {a}
    /\ \A S : EachCollection(S).do = "collections" /\ EachCollection(S).of = S
  BY DEF RulesAt, ListProductGroups, ListReleaseGroups, ListCollections, EachCollection

LEMMA ScopesAre ==
    /\ AllProducts \in Scopes
    /\ \A p \in Products : <<"product", p>> \in Scopes
    /\ \A r \in ProductReleases : <<"product_release", r>> \in Scopes
    /\ \A c \in Components : <<"component", c>> \in Scopes
    /\ \A r \in ComponentReleases : <<"component_release", r>> \in Scopes
    /\ \A c \in ProductReleases \cup ComponentReleases : <<"collection", c>> \in Scopes
    /\ \A a \in Artifacts : <<"artifact", a>> \in Scopes
    /\ \A g \in ProductGroups : <<"product_group", g>> \in Scopes
    /\ \A g \in ReleaseGroups : <<"release_group", g>> \in Scopes
  BY DEF Scopes, Resources

\* What the items with one scope, and the listings, are good for.
LEMMA ItemsFit ==
    /\ \A s, resource, reached : s \in reached => Allowed(RulesAt({s}), resource, reached)
    /\ \A resource, reached : \A p \in ProductsOf(resource) :
          Allowed(ListProductGroups(p), resource, reached)
    /\ \A resource, reached : \A r \in ReleasesOf(resource) :
          Allowed(ListReleaseGroups(r), resource, reached)
    /\ \A s, x : Basic(RulesAt({s}), <<s, x>>)
    /\ \A g, p : Basic(ListProductGroups(p), <<<<"product_group", g>>, p>>)
    /\ \A g, r : Basic(ListReleaseGroups(r), <<<<"release_group", g>>, r>>)
<1>1. \A s, resource, reached : s \in reached => Allowed(RulesAt({s}), resource, reached)
  BY DEF Allowed, RulesAt
<1>2. \A resource, reached : \A p \in ProductsOf(resource) :
          Allowed(ListProductGroups(p), resource, reached)
  BY FieldsAre DEF Allowed
<1>3. \A resource, reached : \A r \in ReleasesOf(resource) :
          Allowed(ListReleaseGroups(r), resource, reached)
  BY FieldsAre DEF Allowed
<1>4. \A s, x : Basic(RulesAt({s}), <<s, x>>)
  BY DEF Basic, RulesAt
<1>5. \A g, p : Basic(ListProductGroups(p), <<<<"product_group", g>>, p>>)
  BY FieldsAre DEF Basic
<1>6. \A g, r : Basic(ListReleaseGroups(r), <<<<"release_group", g>>, r>>)
  BY FieldsAre DEF Basic
<1> QED  BY <1>1, <1>2, <1>3, <1>4, <1>5, <1>6

\* Two plans, one after the other.
LEMMA PlansJoin ==
    ASSUME NEW P, NEW Q, NEW pathsP, NEW pathsQ, NEW resource, NEW reached,
           PlanFits(P, pathsP, resource, reached), PlanFits(Q, pathsQ, resource, reached)
    PROVE  PlanFits(P \o Q, pathsP \cup pathsQ, resource, reached)
<1>1. P \o Q \in Seq(Items) /\ Elems(P \o Q) = Elems(P) \cup Elems(Q)
  BY ElemsOfConcat DEF PlanFits
<1> QED  BY <1>1 DEF PlanFits, InPlan

\* A plan of one scope.
LEMMA OneScope ==
    ASSUME NEW s \in Scopes, NEW x, NEW resource, NEW reached, s \in reached
    PROVE  PlanFits(<<RulesAt({s})>>, Through(x, {s}), resource, reached)
<1>1. RulesAt({s}) \in Items
  BY ItemsAre
<1>2. PICK item \in Items : item = RulesAt({s})
  BY <1>1
<1>4. <<item>> \in Seq(Items) /\ Elems(<<item>>) = {item}
  BY ElemsOfShort
<1>3. \A path \in Through(x, {s}) : path = <<s, x>>
  BY DEF Through
<1>5. Allowed(item, resource, reached) /\ Basic(item, <<s, x>>)
  BY <1>2, ItemsFit
<1> QED  BY <1>2, <1>3, <1>4, <1>5 DEF PlanFits, InPlan

LEMMA PlanOfProduct ==
    ASSUME NEW p \in Products, NEW resource, NEW reached,
           p \in ProductsOf(resource), Firsts(ProductPaths(p)) \subseteq reached
    PROVE  PlanFits(PlanForProduct(p), ProductPaths(p), resource, reached)
<1> DEFINE first == RulesAt({AllProducts})
           second == ListProductGroups(p)
           third == RulesAt({<<"product", p>>})
<1>1. first \in Items /\ second \in Items /\ third \in Items
  BY ItemsAre, ScopesAre
<1>2. <<AllProducts, p>> \in ProductPaths(p) /\ <<<<"product", p>>, p>> \in ProductPaths(p)
  BY DEF ProductPaths, Through
<1>3. AllProducts \in reached /\ <<"product", p>> \in reached
  <2>1. \A s, x : <<s, x>>[1] = s
    OBVIOUS
  <2> QED  BY <1>2, <2>1 DEF Firsts
<1>4. /\ Allowed(first, resource, reached) /\ Allowed(second, resource, reached)
      /\ Allowed(third, resource, reached)
  BY <1>3, ItemsFit
<1>5. \A path \in ProductPaths(p) :
          path = <<AllProducts, p>> \/ path = <<<<"product", p>>, p>>
          \/ \E g \in ProductGroups : path = <<<<"product_group", g>>, p>>
  BY DEF ProductPaths, Through, GroupsWith
<1>6. \A path \in ProductPaths(p) :
          Basic(first, path) \/ Basic(second, path) \/ Basic(third, path)
  <2>1. /\ Basic(first, <<AllProducts, p>>) /\ Basic(third, <<<<"product", p>>, p>>)
        /\ \A g : Basic(second, <<<<"product_group", g>>, p>>)
    BY ItemsFit
  <2> QED  BY <1>5, <2>1
<1> HIDE DEF first, second, third
<1>7. <<first, second, third>> \in Seq(Items)
      /\ Elems(<<first, second, third>>) = {first, second, third}
  BY <1>1, ElemsOfShort
<1>8. PlanFits(<<first, second, third>>, ProductPaths(p), resource, reached)
  BY <1>4, <1>6, <1>7 DEF PlanFits, InPlan
<1> QED  BY <1>8 DEF PlanForProduct, first, second, third

LEMMA PlanOfRelease ==
    ASSUME NEW r \in ProductReleases, NEW resource, NEW reached,
           ProductOf[r] \in ProductsOf(resource), r \in ReleasesOf(resource),
           Firsts(ReleasePaths(r)) \subseteq reached
    PROVE  PlanFits(PlanForRelease(r), ReleasePaths(r), resource, reached)
<1> DEFINE own == Through(r, {<<"product_release", r>>}
                             \cup ({"release_group"} \X GroupsWith(ReleaseGroups, r)))
           first == ListReleaseGroups(r)
           second == RulesAt({<<"product_release", r>>})
<1>0. ReleasePaths(r) = ProductPaths(ProductOf[r]) \cup own
  BY DEF ReleasePaths
<1>1. first \in Items /\ second \in Items /\ ProductOf[r] \in Products
  BY ItemsAre, ScopesAre, GraphAssumption
<1>2. <<<<"product_release", r>>, r>> \in own
  BY DEF Through
<1>3. <<"product_release", r>> \in reached
  <2>1. \A s, x : <<s, x>>[1] = s
    OBVIOUS
  <2> HIDE DEF own
  <2> QED  BY <1>0, <1>2, <2>1 DEF Firsts
<1>4. Allowed(first, resource, reached) /\ Allowed(second, resource, reached)
  BY <1>3, ItemsFit
<1>5. \A path \in own : path = <<<<"product_release", r>>, r>>
          \/ \E g \in ReleaseGroups : path = <<<<"release_group", g>>, r>>
  BY DEF Through, GroupsWith
<1>6. \A path \in own : Basic(first, path) \/ Basic(second, path)
  BY <1>5, ItemsFit
<1> HIDE DEF first, second, own
<1>7. <<first, second>> \in Seq(Items) /\ Elems(<<first, second>>) = {first, second}
  BY <1>1, ElemsOfShort
<1>8. PlanFits(<<first, second>>, own, resource, reached)
  BY <1>4, <1>6, <1>7 DEF PlanFits, InPlan
<1>9. PlanFits(PlanForProduct(ProductOf[r]), ProductPaths(ProductOf[r]), resource, reached)
  BY <1>0, <1>1, PlanOfProduct DEF Firsts
<1> QED
  BY <1>0, <1>8, <1>9, PlansJoin DEF PlanForRelease, first, second

LEMMA PlanOfComponent ==
    ASSUME NEW c \in Components, NEW resource, NEW reached,
           Firsts(ComponentPaths(c)) \subseteq reached
    PROVE  PlanFits(PlanForComponent(c), ComponentPaths(c), resource, reached)
<1> DEFINE first == RulesAt({AllProducts})
           second == RulesAt({<<"component", c>>})
<1>1. first \in Items /\ second \in Items
  BY ItemsAre, ScopesAre
<1>2. <<AllProducts, c>> \in ComponentPaths(c) /\ <<<<"component", c>>, c>> \in ComponentPaths(c)
  BY DEF ComponentPaths, Through
<1>3. AllProducts \in reached /\ <<"component", c>> \in reached
  <2>1. \A s, x : <<s, x>>[1] = s
    OBVIOUS
  <2> QED  BY <1>2, <2>1 DEF Firsts
<1>4. Allowed(first, resource, reached) /\ Allowed(second, resource, reached)
  BY <1>3, ItemsFit
<1>5. \A path \in ComponentPaths(c) : path = <<AllProducts, c>> \/ path = <<<<"component", c>>, c>>
  BY DEF ComponentPaths, Through
<1>6. \A path \in ComponentPaths(c) : Basic(first, path) \/ Basic(second, path)
  BY <1>5, ItemsFit
<1> HIDE DEF first, second
<1>7. <<first, second>> \in Seq(Items) /\ Elems(<<first, second>>) = {first, second}
  BY <1>1, ElemsOfShort
<1>8. PlanFits(<<first, second>>, ComponentPaths(c), resource, reached)
  BY <1>4, <1>6, <1>7 DEF PlanFits, InPlan
<1> QED  BY <1>8 DEF PlanForComponent, first, second

LEMMA PlanOfComponentRelease ==
    ASSUME NEW r \in ComponentReleases, NEW resource, NEW reached,
           Firsts(ComponentReleasePaths(r)) \subseteq reached
    PROVE  PlanFits(PlanForComponentRelease(r), ComponentReleasePaths(r), resource, reached)
<1> DEFINE scope == <<"component_release", r>>
<1>1. ComponentOf[r] \in Components /\ scope \in Scopes
  BY ScopesAre, GraphAssumption
<1>2. /\ ComponentReleasePaths(r) = ComponentPaths(ComponentOf[r]) \cup Through(r, {scope})
      /\ <<scope, r>> \in Through(r, {scope}) /\ <<scope, r>>[1] = scope
  BY DEF ComponentReleasePaths, Through
<1> HIDE DEF scope
<1>3. scope \in reached /\ Firsts(ComponentPaths(ComponentOf[r])) \subseteq reached
  BY <1>2 DEF Firsts
<1>4. PlanFits(PlanForComponent(ComponentOf[r]), ComponentPaths(ComponentOf[r]), resource, reached)
  BY <1>1, <1>3, PlanOfComponent
<1>5. PlanFits(<<RulesAt({scope})>>, Through(r, {scope}), resource, reached)
  BY <1>1, <1>3, OneScope
<1> DEFINE plan == PlanForComponent(ComponentOf[r])
           last == <<RulesAt({scope})>>
           inner == ComponentPaths(ComponentOf[r])
           own == Through(r, {scope})
<1>6. PlanForComponentRelease(r) = plan \o last /\ ComponentReleasePaths(r) = inner \cup own
  BY <1>2 DEF PlanForComponentRelease, scope
<1> HIDE DEF plan, last, inner, own
<1>7. PlanFits(plan \o last, inner \cup own, resource, reached)
  <2>1. PlanFits(plan, inner, resource, reached) /\ PlanFits(last, own, resource, reached)
    BY <1>4, <1>5 DEF plan, last, inner, own
  <2> QED  BY <2>1, PlansJoin
<1> QED  BY <1>6, <1>7

LEMMA PlanOfCollection ==
    ASSUME NEW c \in ProductReleases \cup ComponentReleases, NEW resource, NEW reached,
           c \in ProductReleases =>
                ProductOf[c] \in ProductsOf(resource) /\ c \in ReleasesOf(resource),
           Firsts(CollectionPaths(c)) \subseteq reached
    PROVE  PlanFits(PlanForCollection(c), CollectionPaths(c), resource, reached)
<1> DEFINE scope == <<"collection", c>>
           inner == IF c \in ProductReleases THEN ReleasePaths(c) ELSE ComponentReleasePaths(c)
           plan == IF c \in ProductReleases THEN PlanForRelease(c) ELSE PlanForComponentRelease(c)
<1>1. scope \in Scopes
  BY ScopesAre
<1>2. /\ CollectionPaths(c) = inner \cup Through(c, {scope})
      /\ <<scope, c>> \in Through(c, {scope}) /\ <<scope, c>>[1] = scope
      /\ PlanForCollection(c) = plan \o <<RulesAt({scope})>>
  BY DEF CollectionPaths, Through, PlanForCollection
<1> HIDE DEF scope
<1>3. scope \in reached /\ Firsts(inner) \subseteq reached
  <2> HIDE DEF inner
  <2> QED  BY <1>2 DEF Firsts
<1>4. PlanFits(plan, inner, resource, reached)
  BY <1>3, PlanOfRelease, PlanOfComponentRelease
<1>5. PlanFits(<<RulesAt({scope})>>, Through(c, {scope}), resource, reached)
  BY <1>1, <1>3, OneScope
<1> DEFINE last == <<RulesAt({scope})>>
           own == Through(c, {scope})
<1>6. PlanForCollection(c) = plan \o last /\ CollectionPaths(c) = inner \cup own
  BY <1>2
<1> HIDE DEF plan, last, inner, own
<1>7. PlanFits(plan \o last, inner \cup own, resource, reached)
  <2>1. PlanFits(last, own, resource, reached)
    BY <1>5 DEF last, own
  <2> QED  BY <1>4, <2>1, PlansJoin
<1> QED  BY <1>6, <1>7

\* The scope of a path is one of a group only while that has the member.
InGroups(S, G, x) == {S} \X GroupsWith(G, x)
PathFits(path) ==
    /\ path[1] \in Scopes
    /\ path[1][1] = "product_group" => path[1] \in InGroups("product_group", ProductGroups, path[2])
    /\ path[1][1] = "release_group" => path[1] \in InGroups("release_group", ReleaseGroups, path[2])

LEMMA PathsFit ==
    /\ \A p \in Products : \A path \in ProductPaths(p) : PathFits(path)
    /\ \A r \in ProductReleases : \A path \in ReleasePaths(r) : PathFits(path)
    /\ \A c \in Components : \A path \in ComponentPaths(c) : PathFits(path)
    /\ \A r \in ComponentReleases : \A path \in ComponentReleasePaths(r) : PathFits(path)
    /\ \A c \in ProductReleases \cup ComponentReleases :
          \A path \in CollectionPaths(c) : PathFits(path)
    /\ \A a \in Artifacts : \A path \in ArtifactPaths(a) : PathFits(path)
<1>0. \A s, t, x : <<s, x>>[1] = s /\ <<s, x>>[2] = x /\ <<<<s, t>>, x>>[1][1] = s
  OBVIOUS
<1>1. \A s \in Scopes : \A x : s[1] \notin {"product_group", "release_group"} => PathFits(<<s, x>>)
  BY <1>0 DEF PathFits
<1>2. /\ AllProducts[1] = "all_products"
      /\ \A x : /\ <<"product", x>>[1] = "product" /\ <<"component", x>>[1] = "component"
                /\ <<"product_release", x>>[1] = "product_release"
                /\ <<"component_release", x>>[1] = "component_release"
                /\ <<"collection", x>>[1] = "collection" /\ <<"artifact", x>>[1] = "artifact"
  BY DEF AllProducts
<1>3. \A p, g : g \in GroupsWith(ProductGroups, p) => PathFits(<<<<"product_group", g>>, p>>)
  <2> TAKE p, g
  <2> HAVE g \in GroupsWith(ProductGroups, p)
  <2>1. <<"product_group", g>> \in Scopes
    BY ScopesAre DEF GroupsWith
  <2>2. <<"product_group", g>> \in InGroups("product_group", ProductGroups, p)
    BY DEF InGroups
  <2> QED  BY <1>0, <2>1, <2>2 DEF PathFits
<1>4. \A r, g : g \in GroupsWith(ReleaseGroups, r) => PathFits(<<<<"release_group", g>>, r>>)
  <2> TAKE r, g
  <2> HAVE g \in GroupsWith(ReleaseGroups, r)
  <2>1. <<"release_group", g>> \in Scopes
    BY ScopesAre DEF GroupsWith
  <2>2. <<"release_group", g>> \in InGroups("release_group", ReleaseGroups, r)
    BY DEF InGroups
  <2> QED  BY <1>0, <2>1, <2>2 DEF PathFits
<1>5. \A p \in Products : \A path \in ProductPaths(p) : PathFits(path)
  <2> TAKE p \in Products
  <2>1. \A path \in ProductPaths(p) :
            path = <<AllProducts, p>> \/ path = <<<<"product", p>>, p>>
            \/ \E g \in GroupsWith(ProductGroups, p) : path = <<<<"product_group", g>>, p>>
    BY DEF ProductPaths, Through
  <2>2. PathFits(<<AllProducts, p>>) /\ PathFits(<<<<"product", p>>, p>>)
    BY <1>1, <1>2, ScopesAre
  <2> QED  BY <1>3, <2>1, <2>2
<1>6. \A r \in ProductReleases : \A path \in ReleasePaths(r) : PathFits(path)
  <2> TAKE r \in ProductReleases
  <2>1. \A path \in ReleasePaths(r) :
            path \in ProductPaths(ProductOf[r]) \/ path = <<<<"product_release", r>>, r>>
            \/ \E g \in GroupsWith(ReleaseGroups, r) : path = <<<<"release_group", g>>, r>>
    BY DEF ReleasePaths, Through
  <2>2. PathFits(<<<<"product_release", r>>, r>>) /\ ProductOf[r] \in Products
    BY <1>1, <1>2, ScopesAre, GraphAssumption
  <2> QED  BY <1>4, <1>5, <2>1, <2>2
<1>7. \A c \in Components : \A path \in ComponentPaths(c) : PathFits(path)
  <2> TAKE c \in Components
  <2>1. \A path \in ComponentPaths(c) : path = <<AllProducts, c>> \/ path = <<<<"component", c>>, c>>
    BY DEF ComponentPaths, Through
  <2>2. PathFits(<<AllProducts, c>>) /\ PathFits(<<<<"component", c>>, c>>)
    BY <1>1, <1>2, ScopesAre
  <2> QED  BY <2>1, <2>2
<1>8. \A r \in ComponentReleases : \A path \in ComponentReleasePaths(r) : PathFits(path)
  <2> TAKE r \in ComponentReleases
  <2>1. \A path \in ComponentReleasePaths(r) :
            path \in ComponentPaths(ComponentOf[r]) \/ path = <<<<"component_release", r>>, r>>
    BY DEF ComponentReleasePaths, Through
  <2>2. PathFits(<<<<"component_release", r>>, r>>) /\ ComponentOf[r] \in Components
    BY <1>1, <1>2, ScopesAre, GraphAssumption
  <2> QED  BY <1>7, <2>1, <2>2
<1>9. \A c \in ProductReleases \cup ComponentReleases :
          \A path \in CollectionPaths(c) : PathFits(path)
  <2> TAKE c \in ProductReleases \cup ComponentReleases
  <2>1. \A path \in CollectionPaths(c) :
            \/ path = <<<<"collection", c>>, c>>
            \/ c \in ProductReleases /\ path \in ReleasePaths(c)
            \/ c \in ComponentReleases /\ path \in ComponentReleasePaths(c)
    BY DEF CollectionPaths, Through
  <2>2. PathFits(<<<<"collection", c>>, c>>)
    BY <1>1, <1>2, ScopesAre
  <2> QED  BY <1>6, <1>8, <2>1, <2>2
<1>10. \A a \in Artifacts : \A path \in ArtifactPaths(a) : PathFits(path)
  <2> TAKE a \in Artifacts
  <2>1. \A path \in ArtifactPaths(a) :
            path = <<AllProducts, a>> \/ path = <<<<"artifact", a>>, a>>
            \/ \E c \in CollectionsOf[a] : path \in CollectionPaths(c)
    BY DEF ArtifactPaths, Through
  <2>2. /\ PathFits(<<AllProducts, a>>) /\ PathFits(<<<<"artifact", a>>, a>>)
        /\ CollectionsOf[a] \subseteq ProductReleases \cup ComponentReleases
    BY <1>1, <1>2, ScopesAre, GraphAssumption
  <2> QED  BY <1>9, <2>1, <2>2
<1> QED  BY <1>5, <1>6, <1>7, <1>8, <1>9, <1>10

\* What the paths and the plan of each kind of resource are.
LEMMA KindsOfResources ==
    /\ \A p \in Products : LET resource == <<"product", p>> IN
          /\ PathsOf(resource) = ProductPaths(p) /\ CandidateRules(resource) = PlanForProduct(p)
          /\ ProductsOf(resource) = {p} /\ ReleasesOf(resource) = {}
    /\ \A r \in ProductReleases : LET resource == <<"product_release", r>> IN
          /\ PathsOf(resource) = ReleasePaths(r) /\ CandidateRules(resource) = PlanForRelease(r)
          /\ ProductsOf(resource) = {ProductOf[r]} /\ ReleasesOf(resource) = {r}
    /\ \A c \in Components : LET resource == <<"component", c>> IN
          /\ PathsOf(resource) = ComponentPaths(c) /\ CandidateRules(resource) = PlanForComponent(c)
          /\ ProductsOf(resource) = {} /\ ReleasesOf(resource) = {}
    /\ \A r \in ComponentReleases : LET resource == <<"component_release", r>> IN
          /\ PathsOf(resource) = ComponentReleasePaths(r)
          /\ CandidateRules(resource) = PlanForComponentRelease(r)
          /\ ProductsOf(resource) = {} /\ ReleasesOf(resource) = {}
    /\ \A c : LET resource == <<"collection", c>> IN
          /\ PathsOf(resource) = CollectionPaths(c)
          /\ CandidateRules(resource) = PlanForCollection(c)
          /\ ReleasesOf(resource) = {c} \cap ProductReleases
          /\ ProductsOf(resource) = {ProductOf[r] : r \in {c} \cap ProductReleases}
    /\ \A a : LET resource == <<"artifact", a>> IN
          /\ PathsOf(resource) = ArtifactPaths(a)
          /\ CandidateRules(resource) = PlanForArtifact(a)
          /\ ReleasesOf(resource) = CollectionsOf[a] \cap ProductReleases
          /\ ProductsOf(resource) = {ProductOf[r] : r \in CollectionsOf[a] \cap ProductReleases}
<1>0. \A s, x : <<s, x>>[1] = s /\ <<s, x>>[2] = x
  OBVIOUS
<1>1. \A p : /\ PathsOf(<<"product", p>>) = ProductPaths(p)
             /\ CandidateRules(<<"product", p>>) = PlanForProduct(p)
             /\ ReleasesOf(<<"product", p>>) = {}
             /\ ProductsOf(<<"product", p>>) = {p}
  BY <1>0 DEF PathsOf, CandidateRules, ProductsOf, ReleasesOf
<1>2. \A r : /\ PathsOf(<<"product_release", r>>) = ReleasePaths(r)
             /\ CandidateRules(<<"product_release", r>>) = PlanForRelease(r)
             /\ ReleasesOf(<<"product_release", r>>) = {r} \cap ProductReleases
  BY <1>0 DEF PathsOf, CandidateRules, ReleasesOf
<1>3. \A c : /\ PathsOf(<<"component", c>>) = ComponentPaths(c)
             /\ CandidateRules(<<"component", c>>) = PlanForComponent(c)
             /\ ReleasesOf(<<"component", c>>) = {}
  BY <1>0 DEF PathsOf, CandidateRules, ReleasesOf
<1>4. \A r : /\ PathsOf(<<"component_release", r>>) = ComponentReleasePaths(r)
             /\ CandidateRules(<<"component_release", r>>) = PlanForComponentRelease(r)
             /\ ReleasesOf(<<"component_release", r>>) = {}
  BY <1>0 DEF PathsOf, CandidateRules, ReleasesOf
<1>5. \A c : /\ PathsOf(<<"collection", c>>) = CollectionPaths(c)
             /\ CandidateRules(<<"collection", c>>) = PlanForCollection(c)
             /\ ReleasesOf(<<"collection", c>>) = {c} \cap ProductReleases
  BY <1>0 DEF PathsOf, CandidateRules, ReleasesOf
<1>6. \A a : /\ PathsOf(<<"artifact", a>>) = ArtifactPaths(a)
             /\ CandidateRules(<<"artifact", a>>) = PlanForArtifact(a)
             /\ ReleasesOf(<<"artifact", a>>) = CollectionsOf[a] \cap ProductReleases
  BY <1>0 DEF PathsOf, CandidateRules, ReleasesOf
<1>7. \A resource : resource[1] # "product" =>
          ProductsOf(resource) = {ProductOf[r] : r \in ReleasesOf(resource)}
  BY DEF ProductsOf
<1>8. \A s, x : s # "product" =>
          ProductsOf(<<s, x>>) = {ProductOf[r] : r \in ReleasesOf(<<s, x>>)}
  BY <1>0, <1>7
<1>9. \A x : /\ ProductsOf(<<"product_release", x>>)
                  = {ProductOf[r] : r \in ReleasesOf(<<"product_release", x>>)}
             /\ ProductsOf(<<"component", x>>)
                  = {ProductOf[r] : r \in ReleasesOf(<<"component", x>>)}
             /\ ProductsOf(<<"component_release", x>>)
                  = {ProductOf[r] : r \in ReleasesOf(<<"component_release", x>>)}
             /\ ProductsOf(<<"collection", x>>)
                  = {ProductOf[r] : r \in ReleasesOf(<<"collection", x>>)}
             /\ ProductsOf(<<"artifact", x>>)
                  = {ProductOf[r] : r \in ReleasesOf(<<"artifact", x>>)}
  BY <1>8
<1>10. \A r \in ProductReleases : {r} \cap ProductReleases = {r} /\ {ProductOf[x] : x \in {r}} = {ProductOf[r]}
  OBVIOUS
<1>11. {ProductOf[x] : x \in {}} = {}
  OBVIOUS
<1>12. \A r \in ProductReleases : ProductsOf(<<"product_release", r>>) = {ProductOf[r]}
          /\ ReleasesOf(<<"product_release", r>>) = {r}
  BY <1>2, <1>9, <1>10
<1>13. \A x : ProductsOf(<<"component", x>>) = {} /\ ProductsOf(<<"component_release", x>>) = {}
  BY <1>3, <1>4, <1>9, <1>11
<1>14. \A x : /\ ProductsOf(<<"collection", x>>) = {ProductOf[r] : r \in {x} \cap ProductReleases}
              /\ ProductsOf(<<"artifact", x>>)
                   = {ProductOf[r] : r \in CollectionsOf[x] \cap ProductReleases}
  BY <1>5, <1>6, <1>9
<1> QED  BY <1>1, <1>2, <1>3, <1>4, <1>5, <1>6, <1>12, <1>13, <1>14

\* The groups of each product and of each release are among the paths.
GroupsReached(resource) ==
    /\ \A p \in ProductsOf(resource) :
          InGroups("product_group", ProductGroups, p) \subseteq Firsts(PathsOf(resource))
    /\ \A r \in ReleasesOf(resource) :
          InGroups("release_group", ReleaseGroups, r) \subseteq Firsts(PathsOf(resource))

LEMMA GroupsOfPaths ==
    /\ \A p \in Products : InGroups("product_group", ProductGroups, p) \subseteq Firsts(ProductPaths(p))
    /\ \A r \in ProductReleases :
          /\ InGroups("product_group", ProductGroups, ProductOf[r]) \subseteq Firsts(ReleasePaths(r))
          /\ InGroups("release_group", ReleaseGroups, r) \subseteq Firsts(ReleasePaths(r))
          /\ Firsts(ReleasePaths(r)) \subseteq Firsts(CollectionPaths(r))
    /\ \A a \in Artifacts : \A c \in CollectionsOf[a] :
          Firsts(CollectionPaths(c)) \subseteq Firsts(ArtifactPaths(a))
<1>0. \A s, x : <<s, x>>[1] = s
  OBVIOUS
<1>1. \A p : InGroups("product_group", ProductGroups, p) \subseteq Firsts(ProductPaths(p))
  <2>1. \A p : \A s \in InGroups("product_group", ProductGroups, p) : <<s, p>> \in ProductPaths(p)
    BY DEF InGroups, ProductPaths, Through
  <2> QED  BY <1>0, <2>1 DEF Firsts
<1>2. \A r : /\ InGroups("release_group", ReleaseGroups, r) \subseteq Firsts(ReleasePaths(r))
             /\ Firsts(ProductPaths(ProductOf[r])) \subseteq Firsts(ReleasePaths(r))
  <2>1. \A r : \A s \in InGroups("release_group", ReleaseGroups, r) : <<s, r>> \in ReleasePaths(r)
    BY DEF InGroups, ReleasePaths, Through
  <2>2. \A r : ProductPaths(ProductOf[r]) \subseteq ReleasePaths(r)
    BY DEF ReleasePaths
  <2> QED  BY <1>0, <2>1, <2>2 DEF Firsts
<1>3. \A r \in ProductReleases : Firsts(ReleasePaths(r)) \subseteq Firsts(CollectionPaths(r))
  <2>1. \A r \in ProductReleases : ReleasePaths(r) \subseteq CollectionPaths(r)
    BY DEF CollectionPaths
  <2> QED  BY <2>1 DEF Firsts
<1>4. \A a \in Artifacts : \A c \in CollectionsOf[a] :
          Firsts(CollectionPaths(c)) \subseteq Firsts(ArtifactPaths(a))
  <2>1. \A a \in Artifacts : \A c \in CollectionsOf[a] : CollectionPaths(c) \subseteq ArtifactPaths(a)
    BY DEF ArtifactPaths
  <2> QED  BY <2>1 DEF Firsts
<1> QED  BY <1>1, <1>2, <1>3, <1>4

LEMMA ResourcesAre ==
    ASSUME NEW resource \in Resources
    PROVE  \/ \E p \in Products : resource = <<"product", p>>
           \/ \E r \in ProductReleases : resource = <<"product_release", r>>
           \/ \E c \in Components : resource = <<"component", c>>
           \/ \E r \in ComponentReleases : resource = <<"component_release", r>>
           \/ \E c \in ProductReleases \cup ComponentReleases : resource = <<"collection", c>>
           \/ \E a \in Artifacts : resource = <<"artifact", a>>
  BY DEF Resources

LEMMA PathsOfResource ==
    \A resource \in Resources :
        GroupsReached(resource) /\ \A path \in PathsOf(resource) : PathFits(path)
<1> SUFFICES ASSUME NEW resource \in Resources
             PROVE  GroupsReached(resource) /\ \A path \in PathsOf(resource) : PathFits(path)
  OBVIOUS
<1>1. ASSUME NEW p \in Products, resource = <<"product", p>>
      PROVE  GroupsReached(resource) /\ \A path \in PathsOf(resource) : PathFits(path)
  <2>1. PathsOf(resource) = ProductPaths(p) /\ ProductsOf(resource) = {p} /\ ReleasesOf(resource) = {}
    BY <1>1, KindsOfResources
  <2> QED  BY <2>1, PathsFit, GroupsOfPaths DEF GroupsReached
<1>2. ASSUME NEW r \in ProductReleases, resource = <<"product_release", r>>
      PROVE  GroupsReached(resource) /\ \A path \in PathsOf(resource) : PathFits(path)
  <2>1. /\ PathsOf(resource) = ReleasePaths(r) /\ ProductsOf(resource) = {ProductOf[r]}
        /\ ReleasesOf(resource) = {r}
    BY <1>2, KindsOfResources
  <2> QED  BY <2>1, PathsFit, GroupsOfPaths DEF GroupsReached
<1>3. ASSUME NEW c \in Components, resource = <<"component", c>>
      PROVE  GroupsReached(resource) /\ \A path \in PathsOf(resource) : PathFits(path)
  <2>1. PathsOf(resource) = ComponentPaths(c) /\ ProductsOf(resource) = {} /\ ReleasesOf(resource) = {}
    BY <1>3, KindsOfResources
  <2> QED  BY <2>1, PathsFit DEF GroupsReached
<1>4. ASSUME NEW r \in ComponentReleases, resource = <<"component_release", r>>
      PROVE  GroupsReached(resource) /\ \A path \in PathsOf(resource) : PathFits(path)
  <2>1. /\ PathsOf(resource) = ComponentReleasePaths(r) /\ ProductsOf(resource) = {}
        /\ ReleasesOf(resource) = {}
    BY <1>4, KindsOfResources
  <2> QED  BY <2>1, PathsFit DEF GroupsReached
<1>5. ASSUME NEW c \in ProductReleases \cup ComponentReleases, resource = <<"collection", c>>
      PROVE  GroupsReached(resource) /\ \A path \in PathsOf(resource) : PathFits(path)
  <2>1. /\ PathsOf(resource) = CollectionPaths(c)
        /\ ReleasesOf(resource) = {c} \cap ProductReleases
        /\ ProductsOf(resource) = {ProductOf[r] : r \in {c} \cap ProductReleases}
    BY <1>5, KindsOfResources
  <2>2. \A r \in ReleasesOf(resource) : r = c /\ c \in ProductReleases
    BY <2>1
  <2>3. \A p \in ProductsOf(resource) : p = ProductOf[c] /\ c \in ProductReleases
    BY <2>1
  <2>4. GroupsReached(resource)
    BY <2>1, <2>2, <2>3, GroupsOfPaths DEF GroupsReached
  <2> QED  BY <2>1, <2>4, PathsFit
<1>6. ASSUME NEW a \in Artifacts, resource = <<"artifact", a>>
      PROVE  GroupsReached(resource) /\ \A path \in PathsOf(resource) : PathFits(path)
  <2>1. /\ PathsOf(resource) = ArtifactPaths(a)
        /\ ReleasesOf(resource) = CollectionsOf[a] \cap ProductReleases
        /\ ProductsOf(resource) = {ProductOf[r] : r \in CollectionsOf[a] \cap ProductReleases}
    BY <1>6, KindsOfResources
  <2>2. \A r \in CollectionsOf[a] \cap ProductReleases :
            Firsts(ReleasePaths(r)) \subseteq Firsts(ArtifactPaths(a))
    BY GroupsOfPaths
  <2>3. \A r \in CollectionsOf[a] \cap ProductReleases :
            /\ InGroups("release_group", ReleaseGroups, r) \subseteq Firsts(ArtifactPaths(a))
            /\ InGroups("product_group", ProductGroups, ProductOf[r]) \subseteq Firsts(ArtifactPaths(a))
    BY <2>2, GroupsOfPaths
  <2>4. \A p \in ProductsOf(resource) :
            \E r \in CollectionsOf[a] \cap ProductReleases : p = ProductOf[r]
    BY <2>1
  <2>5. GroupsReached(resource)
    BY <2>1, <2>3, <2>4 DEF GroupsReached
  <2> QED  BY <2>1, <2>5, PathsFit
<1> QED  BY <1>1, <1>2, <1>3, <1>4, <1>5, <1>6, ResourcesAre

\* A decision starts with a plan that looks at every path of its resource.
Starts(resource, reached) ==
    /\ CandidateRules(resource) \in Seq(Items)
    /\ \A item \in Elems(CandidateRules(resource)) : Allowed(item, resource, reached)
    /\ \A path \in PathsOf(resource) : Pending(CandidateRules(resource), path)

LEMMA PlanStarts ==
    ASSUME NEW resource, NEW reached,
           PlanFits(CandidateRules(resource), PathsOf(resource), resource, reached)
    PROVE  Starts(resource, reached)
  BY DEF PlanFits, Starts, Pending, Covers, InPlan

\* Entering a collection of an artifact: its plan is one for the artifact.
LEMMA PlanEntered ==
    ASSUME NEW a \in Artifacts, NEW c \in CollectionsOf[a], NEW reached,
           Firsts(ArtifactPaths(a)) \subseteq reached
    PROVE  PlanFits(PlanForCollection(c), CollectionPaths(c), <<"artifact", a>>, reached)
<1> DEFINE resource == <<"artifact", a>>
<1>1. /\ ReleasesOf(resource) = CollectionsOf[a] \cap ProductReleases
      /\ ProductsOf(resource) = {ProductOf[r] : r \in CollectionsOf[a] \cap ProductReleases}
  BY KindsOfResources
<1>2. c \in ProductReleases \cup ComponentReleases
  BY GraphAssumption
<1>3. c \in ProductReleases => ProductOf[c] \in ProductsOf(resource) /\ c \in ReleasesOf(resource)
  BY <1>1
<1>4. Firsts(CollectionPaths(c)) \subseteq reached
  BY GroupsOfPaths
<1> HIDE DEF resource
<1>5. PlanFits(PlanForCollection(c), CollectionPaths(c), resource, reached)
  BY <1>2, <1>3, <1>4, PlanOfCollection
<1> QED  BY <1>5 DEF resource

LEMMA PlanOfArtifact ==
    ASSUME NEW a \in Artifacts, NEW reached, Firsts(ArtifactPaths(a)) \subseteq reached
    PROVE  Starts(<<"artifact", a>>, reached)
<1> DEFINE resource == <<"artifact", a>>
           first == RulesAt({AllProducts})
           second == RulesAt({resource})
           third == ListCollections(a)
<1>0. \A s, x : <<s, x>>[1] = s /\ <<s, x>>[2] = x
  OBVIOUS
<1>1. first \in Items /\ second \in Items /\ third \in Items
  BY ItemsAre, ScopesAre
<1>2. <<AllProducts, a>> \in ArtifactPaths(a) /\ <<resource, a>> \in ArtifactPaths(a)
  BY DEF ArtifactPaths, Through
<1>3. AllProducts \in reached /\ resource \in reached
  BY <1>0, <1>2 DEF Firsts
<1>4. Allowed(third, resource, reached)
  BY <1>0, FieldsAre DEF Allowed
<1>5. \A path \in ArtifactPaths(a) :
          path = <<AllProducts, a>> \/ path = <<resource, a>>
          \/ \E c \in CollectionsOf[a] : path \in CollectionPaths(c)
  BY DEF ArtifactPaths, Through
<1>6. \A c \in CollectionsOf[a] : \A path \in CollectionPaths(c) : Covers(third, path)
  <2>1. \A c \in CollectionsOf[a] : \A path \in CollectionPaths(c) : InPlan(PlanForCollection(c), path)
    BY PlanEntered DEF PlanFits
  <2>2. third.do = "collections of" /\ third.of = {a}
    BY FieldsAre
  <2> HIDE DEF third
  <2> QED  BY <2>1, <2>2 DEF Covers
<1>7. Covers(first, <<AllProducts, a>>) /\ Covers(second, <<resource, a>>)
  BY ItemsFit DEF Covers
<1>8. Allowed(first, resource, reached) /\ Allowed(second, resource, reached)
  BY <1>3, ItemsFit
<1>9. CandidateRules(resource) = <<first, second, third>> /\ PathsOf(resource) = ArtifactPaths(a)
  BY KindsOfResources DEF PlanForArtifact
<1> HIDE DEF first, second, third, resource
<1>10. <<first, second, third>> \in Seq(Items)
       /\ Elems(<<first, second, third>>) = {first, second, third}
  BY <1>1, ElemsOfShort
<1>11. Starts(resource, reached)
  BY <1>4, <1>5, <1>6, <1>7, <1>8, <1>9, <1>10 DEF Starts, Pending
<1> QED  BY <1>11 DEF resource

LEMMA PlanOfResource ==
    ASSUME NEW resource \in Resources, NEW reached, Firsts(PathsOf(resource)) \subseteq reached
    PROVE  Starts(resource, reached)
<1>1. ASSUME NEW p \in Products, resource = <<"product", p>> PROVE Starts(resource, reached)
  <2>1. /\ PathsOf(resource) = ProductPaths(p) /\ ProductsOf(resource) = {p}
        /\ CandidateRules(resource) = PlanForProduct(p)
    BY <1>1, KindsOfResources
  <2>2. PlanFits(PlanForProduct(p), ProductPaths(p), resource, reached)
    BY <2>1, PlanOfProduct
  <2> QED  BY <2>1, <2>2, PlanStarts
<1>2. ASSUME NEW r \in ProductReleases, resource = <<"product_release", r>>
      PROVE  Starts(resource, reached)
  <2>1. /\ PathsOf(resource) = ReleasePaths(r) /\ ProductsOf(resource) = {ProductOf[r]}
        /\ ReleasesOf(resource) = {r} /\ CandidateRules(resource) = PlanForRelease(r)
    BY <1>2, KindsOfResources
  <2>2. PlanFits(PlanForRelease(r), ReleasePaths(r), resource, reached)
    BY <2>1, PlanOfRelease
  <2> QED  BY <2>1, <2>2, PlanStarts
<1>3. ASSUME NEW c \in Components, resource = <<"component", c>> PROVE Starts(resource, reached)
  <2>1. PathsOf(resource) = ComponentPaths(c) /\ CandidateRules(resource) = PlanForComponent(c)
    BY <1>3, KindsOfResources
  <2>2. PlanFits(PlanForComponent(c), ComponentPaths(c), resource, reached)
    BY <2>1, PlanOfComponent
  <2> QED  BY <2>1, <2>2, PlanStarts
<1>4. ASSUME NEW r \in ComponentReleases, resource = <<"component_release", r>>
      PROVE  Starts(resource, reached)
  <2>1. /\ PathsOf(resource) = ComponentReleasePaths(r)
        /\ CandidateRules(resource) = PlanForComponentRelease(r)
    BY <1>4, KindsOfResources
  <2>2. PlanFits(PlanForComponentRelease(r), ComponentReleasePaths(r), resource, reached)
    BY <2>1, PlanOfComponentRelease
  <2> QED  BY <2>1, <2>2, PlanStarts
<1>5. ASSUME NEW c \in ProductReleases \cup ComponentReleases, resource = <<"collection", c>>
      PROVE  Starts(resource, reached)
  <2>1. /\ PathsOf(resource) = CollectionPaths(c)
        /\ CandidateRules(resource) = PlanForCollection(c)
        /\ ReleasesOf(resource) = {c} \cap ProductReleases
        /\ ProductsOf(resource) = {ProductOf[r] : r \in {c} \cap ProductReleases}
    BY <1>5, KindsOfResources
  <2>2. c \in ProductReleases => ProductOf[c] \in ProductsOf(resource) /\ c \in ReleasesOf(resource)
    BY <2>1
  <2>3. PlanFits(PlanForCollection(c), CollectionPaths(c), resource, reached)
    BY <2>1, <2>2, PlanOfCollection
  <2> QED  BY <2>1, <2>3, PlanStarts
<1>6. ASSUME NEW a \in Artifacts, resource = <<"artifact", a>> PROVE Starts(resource, reached)
  <2>1. PathsOf(resource) = ArtifactPaths(a)
    BY <1>6, KindsOfResources
  <2> QED  BY <1>6, <2>1, PlanOfArtifact
<1> QED  BY <1>1, <1>2, <1>3, <1>4, <1>5, <1>6, ResourcesAre

-----------------------------------------------------------------------------
(* Requests.                                                               *)

CandidateRow ==
    [entitlement : Entitlements, scope : 0..6, subject : 0..2, decision : {"allow", "deny"}]

LEMMA RanksAre ==
    /\ \A scope \in Scopes : Rank[scope[1]] \in 0..6
    /\ \A subject \in Subjects : subjectRank[subject[1]] \in 0..2
<1>1. \A scope \in Scopes : scope[1] \in {"all_products", "product_group", "product", "component",
          "release_group", "product_release", "component_release", "collection", "artifact"}
  BY DEF Scopes, Resources, AllProducts
<1>2. \A subject \in Subjects : subject[1] \in {"everyone", "authenticated", "principal"}
  BY DEF Subjects
<1> QED  BY <1>1, <1>2 DEF Rank, subjectRank

LEMMA RulesAreRows ==
    TablesInv => \A query, scope : candidateRulesAtScope(query, scope) \subseteq CandidateRow
<1> SUFFICES ASSUME TablesInv, NEW query, NEW scope,
                    NEW c \in candidateRulesAtScope(query, scope)
             PROVE  c \in CandidateRow
  OBVIOUS
<1>1. PICK e \in Entitlements : entitlement[e] # NULL /\ \E rule \in RulesOf(e) : c = Candidate(e, rule)
  BY DEF candidateRulesAtScope
<1>2. PICK rule \in RulesOf(e) : c = Candidate(e, rule)
  BY <1>1
<1>3. entitlement[e] \in Entitlement
  BY <1>1 DEF TablesInv, TypeOK
<1>4. entitlement[e].scope \in Scopes /\ entitlement[e].subject \in Subjects
      /\ entitlement[e].template \in Templates
  BY <1>3 DEF Entitlement
<1>5. rule \in Rule
  <2> DEFINE t == entitlement[e].template
             n == entitlement[e].templateRevision
  <2>1. template[t] # NULL /\ n \in 1..Len(template[t].revisions)
    BY <1>1 DEF TablesInv, GrantsResolve
  <2>2. template[t].revisions \in Seq(SUBSET Rule)
    BY <1>4, <2>1 DEF TablesInv, TypeOK, Template
  <2>3. RulesOf(e) \in {{}, template[t].revisions[n]}
    BY DEF RulesOf
  <2> HIDE DEF t, n
  <2>4. template[t].revisions[n] \in SUBSET Rule
    BY <2>1, <2>2
  <2> QED  BY <1>2, <2>3, <2>4
<1>6. rule.decision \in {"allow", "deny"}
  BY <1>5 DEF Rule
<1> QED  BY <1>2, <1>4, <1>6, RanksAre DEF Candidate, CandidateRow

\* What applies, by a path: a rule of its scope.
LEMMA ApplyingAre ==
    \A query \in Queries :
        /\ PathsFor[query] = PathsOf(query.resource) /\ query.resource \in Resources
        /\ \A scope \in Scopes : RulesFor[query][scope] = candidateRulesAtScope(query, scope)
        /\ \A path \in PathsFor[query] : path[1] \in Scopes
        /\ \A held \in ApplyingFor[query] :
              held[1] \in PathsFor[query] /\ held[2] \in RulesFor[query][held[1][1]]
<1> SUFFICES ASSUME NEW query \in Queries
             PROVE  /\ PathsFor[query] = PathsOf(query.resource) /\ query.resource \in Resources
                    /\ \A scope \in Scopes :
                          RulesFor[query][scope] = candidateRulesAtScope(query, scope)
                    /\ \A path \in PathsFor[query] : path[1] \in Scopes
                    /\ \A held \in ApplyingFor[query] :
                          held[1] \in PathsFor[query] /\ held[2] \in RulesFor[query][held[1][1]]
  OBVIOUS
<1>1. PathsFor[query] = PathsOf(query.resource)
  BY DEF PathsFor
<1>2. query.resource \in Resources
  BY InputsAssumption DEF Query
<1>3. \A scope \in Scopes : RulesFor[query][scope] = candidateRulesAtScope(query, scope)
  BY DEF RulesFor
<1>4. \A path \in PathsFor[query] : path[1] \in Scopes
  BY <1>1, <1>2, PathsOfResource DEF PathFits
<1>5. ApplyingFor[query] = UNION {{path} \X RulesFor[query][path[1]] : path \in PathsFor[query]}
  BY DEF ApplyingFor
<1>6. ASSUME NEW held \in ApplyingFor[query]
      PROVE  held[1] \in PathsFor[query] /\ held[2] \in RulesFor[query][held[1][1]]
  <2>1. PICK path \in PathsFor[query] : held \in {path} \X RulesFor[query][path[1]]
    BY <1>5
  <2> QED  BY <2>1
<1> QED  BY <1>1, <1>2, <1>3, <1>4, <1>6

\* A request as a record, and what updating it gives.
Row(q, t, c, a, e, h) ==
    [query |-> q, todo |-> t, candidates |-> c, reached |-> a, ever |-> e, standing |-> h]

LEMMA RowsAre ==
    \A q, t, c, a, e, h :
        /\ Row(q, t, c, a, e, h).query = q
        /\ Row(q, t, c, a, e, h).todo = t
        /\ Row(q, t, c, a, e, h).candidates = c
        /\ Row(q, t, c, a, e, h).reached = a
        /\ Row(q, t, c, a, e, h).ever = e
        /\ Row(q, t, c, a, e, h).standing = h
  BY DEF Row

Later(r, x) == [r EXCEPT !.todo = x]
Found(r, x, y) == [r EXCEPT !.todo = x, !.candidates = y]
Grown(r, x, y, z) == [r EXCEPT !.reached = x, !.ever = y, !.standing = z]

LEMMA RowsChange ==
    ASSUME NEW r, NEW x, NEW y, NEW z,
           r = Row(r.query, r.todo, r.candidates, r.reached, r.ever, r.standing)
    PROVE  /\ Later(r, x) = Row(r.query, x, r.candidates, r.reached, r.ever, r.standing)
           /\ Found(r, x, y) = Row(r.query, x, y, r.reached, r.ever, r.standing)
           /\ Grown(r, x, y, z) = Row(r.query, r.todo, r.candidates, x, y, z)
<1>0. PICK q, t, c, a, e, h : /\ q = r.query /\ t = r.todo /\ c = r.candidates
                              /\ a = r.reached /\ e = r.ever /\ h = r.standing
  OBVIOUS
<1>1. [Row(q, t, c, a, e, h) EXCEPT !.todo = x] = Row(q, x, c, a, e, h)
  BY ONLY TRUE DEF Row
<1>2. [Row(q, x, c, a, e, h) EXCEPT !.candidates = y] = Row(q, x, y, a, e, h)
  BY ONLY TRUE DEF Row
<1>3. [Row(q, t, c, a, e, h) EXCEPT !.reached = x] = Row(q, t, c, x, e, h)
  BY ONLY TRUE DEF Row
<1>4. [Row(q, t, c, x, e, h) EXCEPT !.ever = y] = Row(q, t, c, x, y, h)
  BY ONLY TRUE DEF Row
<1>5. [Row(q, t, c, x, y, h) EXCEPT !.standing = z] = Row(q, t, c, x, y, z)
  BY ONLY TRUE DEF Row
<1>6. [Row(q, t, c, a, e, h) EXCEPT !.todo = x, !.candidates = y] = Row(q, x, y, a, e, h)
  BY ONLY <1>1, <1>2
<1>7. [Row(q, t, c, a, e, h) EXCEPT !.reached = x, !.ever = y, !.standing = z]
        = Row(q, t, c, x, y, z)
  BY ONLY <1>3, <1>4, <1>5
<1>8. PICK s : s = Row(q, t, c, a, e, h)
  OBVIOUS
<1>9. /\ Later(s, x) = Row(q, x, c, a, e, h) /\ Found(s, x, y) = Row(q, x, y, a, e, h)
      /\ Grown(s, x, y, z) = Row(q, t, c, x, y, z)
  BY ONLY <1>1, <1>6, <1>7, <1>8 DEF Later, Found, Grown
<1>10. r = s
  BY <1>0, <1>8
<1> QED  BY ONLY <1>0, <1>9, <1>10

\* What a decision holds between its queries.  Until its rules are candidates,
\* a path by which they have applied from the beginning is looked at later.
Good(r, paths, rules, applying) ==
    /\ r = Row(r.query, r.todo, r.candidates, r.reached, r.ever, r.standing)
    /\ r.query \in Queries
    /\ r.todo \in Seq(Items)
    /\ Firsts(paths[r.query]) \subseteq r.reached /\ r.reached \subseteq Scopes
    /\ \A s \in r.reached : rules[r.query][s] \subseteq r.ever
    /\ r.candidates \subseteq r.ever /\ r.ever \subseteq CandidateRow
    /\ \A item \in Elems(r.todo) : Allowed(item, r.query.resource, r.reached)
    /\ \A held \in r.standing :
          /\ held \in applying[r.query]
          /\ held[2] \in r.candidates \/ Pending(r.todo, held[1])

GoodRequests(req, paths, rules, applying) ==
    /\ req = [q \in Requests |-> req[q]]
    /\ \A q \in Requests : req[q] # NULL => Good(req[q], paths, rules, applying)
RequestInv == GoodRequests(request, PathsFor, RulesFor, ApplyingFor)

\* A step of a request changes what is to do and the candidates.
LEMMA GoodUpdate ==
    ASSUME NEW r, NEW paths, NEW rules, NEW applying, Good(r, paths, rules, applying),
           NEW todo \in Seq(Items), NEW candidates,
           r.candidates \subseteq candidates, candidates \subseteq r.ever,
           \A item \in Elems(todo) : Allowed(item, r.query.resource, r.reached),
           \A held \in r.standing : held[2] \in candidates \/ Pending(todo, held[1])
    PROVE  Good(Row(r.query, todo, candidates, r.reached, r.ever, r.standing),
                paths, rules, applying)
<1>1. PICK s : s = Row(r.query, todo, candidates, r.reached, r.ever, r.standing)
  OBVIOUS
<1>2. /\ s.query = r.query /\ s.todo = todo /\ s.candidates = candidates
      /\ s.reached = r.reached /\ s.ever = r.ever /\ s.standing = r.standing
  BY <1>1, RowsAre
<1>3. s = Row(s.query, s.todo, s.candidates, s.reached, s.ever, s.standing)
  BY <1>1, <1>2
<1>4. Good(s, paths, rules, applying)
  BY <1>2, <1>3 DEF Good
<1> QED  BY <1>1, <1>4

\* An administrator's change grows what was reached and what was ever held.
LEMMA GoodSeen ==
    ASSUME NEW r, NEW paths, NEW rules, NEW applying, Good(r, paths, rules, applying),
           NEW paths2, NEW rules2, NEW applying2, NEW reached, NEW ever, NEW standing,
           standing = r.standing \cap applying2[r.query],
           r.reached \subseteq reached, reached \subseteq Scopes,
           Firsts(paths2[r.query]) \subseteq reached,
           r.ever \subseteq ever, ever \subseteq CandidateRow,
           \A x \in reached : rules2[r.query][x] \subseteq ever
    PROVE  Good(Row(r.query, r.todo, r.candidates, reached, ever, standing),
                paths2, rules2, applying2)
<1>1. PICK s : s = Row(r.query, r.todo, r.candidates, reached, ever, standing)
  OBVIOUS
<1>2. /\ s.query = r.query /\ s.todo = r.todo /\ s.candidates = r.candidates
      /\ s.reached = reached /\ s.ever = ever /\ s.standing = standing
  BY <1>1, RowsAre
<1>3. s = Row(s.query, s.todo, s.candidates, s.reached, s.ever, s.standing)
  BY <1>1, <1>2
<1>4. \A item : Allowed(item, r.query.resource, r.reached) => Allowed(item, r.query.resource, reached)
  BY DEF Allowed
<1>5. Good(s, paths2, rules2, applying2)
  BY <1>2, <1>3, <1>4 DEF Good
<1> QED  BY <1>1, <1>5

\* A change of an administrator, or of the clock, keeps the requests good.
LEMMA ObserveStep ==
    ASSUME RequestInv, TablesInv', Observe
    PROVE  RequestInv'
<1> DEFINE Reached(r) == r.reached \cup Firsts(PathsFor'[r.query])
           Ever(r) == r.ever \cup UNION {RulesFor'[r.query][s] : s \in Reached(r)}
           Standing(r) == r.standing \cap ApplyingFor'[r.query]
<1>1. ASSUME NEW r, Good(r, PathsFor, RulesFor, ApplyingFor)
      PROVE  Seen(r) = Row(r.query, r.todo, r.candidates, Reached(r), Ever(r), Standing(r))
  <2>1. Seen(r) = [r EXCEPT !.reached = Reached(r), !.ever = Ever(r), !.standing = Standing(r)]
    BY <1>1 DEF Seen, Firsts, Good, Row
  <2>2. r = Row(r.query, r.todo, r.candidates, r.reached, r.ever, r.standing)
    BY <1>1 DEF Good
  <2>3. PICK reached, ever, standing :
            reached = Reached(r) /\ ever = Ever(r) /\ standing = Standing(r)
    OBVIOUS
  <2> HIDE DEF Reached, Ever, Standing
  <2>4. Grown(r, reached, ever, standing)
          = Row(r.query, r.todo, r.candidates, reached, ever, standing)
    BY ONLY <2>2, RowsChange
  <2> QED  BY ONLY <2>1, <2>3, <2>4 DEF Grown
<1>2. /\ \A query, scope : candidateRulesAtScope(query, scope)' \subseteq CandidateRow
      /\ \A query \in Queries :
            /\ \A scope \in Scopes : RulesFor'[query][scope] \subseteq CandidateRow
            /\ \A path \in PathsFor'[query] : path[1] \in Scopes
  <2>1. (TablesInv => \A query, scope : candidateRulesAtScope(query, scope) \subseteq CandidateRow)'
    BY RulesAreRows, PTL
  <2>2. (\A query \in Queries :
            /\ PathsFor[query] = PathsOf(query.resource) /\ query.resource \in Resources
            /\ \A scope \in Scopes : RulesFor[query][scope] = candidateRulesAtScope(query, scope)
            /\ \A path \in PathsFor[query] : path[1] \in Scopes
            /\ \A held \in ApplyingFor[query] :
                  held[1] \in PathsFor[query] /\ held[2] \in RulesFor[query][held[1][1]])'
    BY ApplyingAre, PTL
  <2> QED  BY <2>1, <2>2
<1>3. ASSUME NEW r, Good(r, PathsFor, RulesFor, ApplyingFor)
      PROVE  Good(Seen(r), PathsFor', RulesFor', ApplyingFor')
  <2>1. r.query \in Queries /\ r.reached \subseteq Scopes /\ r.ever \subseteq CandidateRow
    BY <1>3 DEF Good
  <2>2. PICK reached, ever, standing :
            reached = Reached(r) /\ ever = Ever(r) /\ standing = Standing(r)
    OBVIOUS
  <2>3. r.reached \subseteq reached /\ reached \subseteq Scopes
        /\ Firsts(PathsFor'[r.query]) \subseteq reached
    BY <1>2, <2>1, <2>2 DEF Firsts
  <2>4. /\ r.ever \subseteq ever /\ ever \subseteq CandidateRow
        /\ \A x \in reached : RulesFor'[r.query][x] \subseteq ever
    BY <1>2, <2>1, <2>2, <2>3
  <2>5. Good(Row(r.query, r.todo, r.candidates, reached, ever, standing),
             PathsFor', RulesFor', ApplyingFor')
    <3>1. standing = r.standing \cap ApplyingFor'[r.query]
      BY <2>2
    <3>2. PICK p2, r2, a2 : p2 = PathsFor' /\ r2 = RulesFor' /\ a2 = ApplyingFor'
      OBVIOUS
    <3>3. PICK p1, r1, a1 : p1 = PathsFor /\ r1 = RulesFor /\ a1 = ApplyingFor
      OBVIOUS
    <3>4. Good(Row(r.query, r.todo, r.candidates, reached, ever, standing), p2, r2, a2)
      <4>1. Good(r, p1, r1, a1)
        BY <1>3, <3>3
      <4>2. standing = r.standing \cap a2[r.query] /\ Firsts(p2[r.query]) \subseteq reached
            /\ \A x \in reached : r2[r.query][x] \subseteq ever
        BY <2>3, <2>4, <3>1, <3>2
      <4>3. r.reached \subseteq reached /\ reached \subseteq Scopes /\ r.ever \subseteq ever
            /\ ever \subseteq CandidateRow
        BY <2>3, <2>4
      <4> QED  BY ONLY <4>1, <4>2, <4>3, GoodSeen
    <3> QED  BY <3>2, <3>4
  <2>6. Seen(r) = Row(r.query, r.todo, r.candidates, reached, ever, standing)
    BY <1>1, <1>3, <2>2
  <2> QED  BY <2>5, <2>6
<1>4. /\ request' = [q \in Requests |-> request'[q]]
      /\ \A q \in Requests : request'[q] # NULL =>
            request[q] # NULL /\ request'[q] = Seen(request[q])
  BY DEF Observe
<1>5. \A q \in Requests : request'[q] # NULL => Good(request'[q], PathsFor', RulesFor', ApplyingFor')
  BY <1>3, <1>4 DEF RequestInv, GoodRequests
<1> QED  BY <1>4, <1>5 DEF RequestInv, GoodRequests

\* A request's own steps change no table.
LEMMA TablesSame ==
    ASSUME UNCHANGED <<tables, now>>
    PROVE  PathsFor' = PathsFor /\ RulesFor' = RulesFor /\ ApplyingFor' = ApplyingFor
<1>0. UNCHANGED <<template, entitlement, group, now>>
  BY DEF tables
<1>1. \A G, m : GroupsWith(G, m)' = GroupsWith(G, m)
  BY <1>0 DEF GroupsWith
<1>2. \A p : ProductPaths(p)' = ProductPaths(p)
  BY <1>1 DEF ProductPaths, Through
<1>3. \A r : ReleasePaths(r)' = ReleasePaths(r)
  BY <1>1, <1>2 DEF ReleasePaths, Through
<1>4. \A c : CollectionPaths(c)' = CollectionPaths(c)
  BY <1>3 DEF CollectionPaths
<1>5. \A a : ArtifactPaths(a)' = ArtifactPaths(a)
  BY <1>4 DEF ArtifactPaths
<1>6. \A resource : PathsOf(resource)' = PathsOf(resource)
  BY <1>2, <1>3, <1>4, <1>5 DEF PathsOf
<1>7. PathsFor' = PathsFor
  BY <1>6 DEF PathsFor
<1>8. \A e : RulesOf(e)' = RulesOf(e) /\ InForce(e)' = InForce(e)
  BY <1>0 DEF RulesOf, InForce
<1>9. \A query, scope : candidateRulesAtScope(query, scope)' = candidateRulesAtScope(query, scope)
  BY <1>0, <1>8 DEF candidateRulesAtScope, Candidate
<1>10. RulesFor' = RulesFor
  BY <1>9 DEF RulesFor
<1> QED  BY <1>7, <1>10 DEF ApplyingFor

LEMMA RequestKept ==
    ASSUME RequestInv, UNCHANGED <<tables, now>>, NEW q \in Requests, NEW row,
           request' = [request EXCEPT ![q] = row],
           row # NULL => Good(row, PathsFor, RulesFor, ApplyingFor)
    PROVE  RequestInv'
<1>1. PathsFor' = PathsFor /\ RulesFor' = RulesFor /\ ApplyingFor' = ApplyingFor
  BY TablesSame
<1>2. /\ request = [x \in Requests |-> request[x]]
      /\ \A x \in Requests : request[x] # NULL => Good(request[x], PathsFor, RulesFor, ApplyingFor)
  BY DEF RequestInv, GoodRequests
<1>3. /\ request' = [x \in Requests |-> request'[x]] /\ request'[q] = row
      /\ \A x \in Requests \ {q} : request'[x] = request[x]
  BY <1>2
<1>4. \A x \in Requests : request'[x] # NULL => Good(request'[x], PathsFor, RulesFor, ApplyingFor)
  BY <1>2, <1>3
<1> QED  BY <1>1, <1>3, <1>4 DEF RequestInv, GoodRequests

\* What is left when an item takes the place of the first one.
LEMMA LeftIs ==
    ASSUME NEW item \in Items, NEW s \in Seq(Items), NEW left,
           left = (IF item.of = {} THEN <<>> ELSE <<item>>) \o s
    PROVE  /\ left \in Seq(Items) /\ Elems(left) \subseteq {item} \cup Elems(s)
           /\ \A path : Covers(item, path) \/ Pending(s, path) => Pending(left, path)
<1>1. CASE item.of = {}
  <2>1. <<>> \in Seq(Items) /\ Elems(<<>>) = {}
    BY ElemsOfShort
  <2>2. left \in Seq(Items) /\ Elems(left) = Elems(s)
    BY <1>1, <2>1, ElemsOfConcat
  <2>3. \A path : ~Covers(item, path)
    BY <1>1 DEF Covers, Basic
  <2> QED  BY <2>2, <2>3 DEF Pending
<1>2. CASE item.of # {}
  <2>1. <<item>> \in Seq(Items) /\ Elems(<<item>>) = {item}
    BY ElemsOfShort
  <2>2. left \in Seq(Items) /\ Elems(left) = {item} \cup Elems(s)
    BY <1>2, <2>1, ElemsOfConcat
  <2> QED  BY <2>2 DEF Pending
<1> QED  BY <1>1, <1>2

\* The first item gives way to one that covers its paths, and what it finds.
LEMMA ReplaceStep ==
    ASSUME NEW r, NEW paths, NEW rules, NEW applying, Good(r, paths, rules, applying),
           r.todo # <<>>, NEW item \in Items, NEW left,
           left = (IF item.of = {} THEN <<>> ELSE <<item>>) \o Tail(r.todo),
           NEW candidates, r.candidates \subseteq candidates, candidates \subseteq r.ever,
           Allowed(item, r.query.resource, r.reached),
           \A held \in r.standing : Covers(Head(r.todo), held[1]) =>
                held[2] \in candidates \/ Covers(item, held[1])
    PROVE  Good(Row(r.query, left, candidates, r.reached, r.ever, r.standing),
                paths, rules, applying)
<1>1. /\ Head(r.todo) \in Items /\ Tail(r.todo) \in Seq(Items)
      /\ Elems(r.todo) = {Head(r.todo)} \cup Elems(Tail(r.todo))
  BY ElemsOfTail DEF Good
<1>2. /\ left \in Seq(Items) /\ Elems(left) \subseteq {item} \cup Elems(Tail(r.todo))
      /\ \A path : Covers(item, path) \/ Pending(Tail(r.todo), path) => Pending(left, path)
  <2>1. PICK s \in Seq(Items) : s = Tail(r.todo)
    BY <1>1
  <2>2. left = (IF item.of = {} THEN <<>> ELSE <<item>>) \o s
    BY <2>1
  <2>3. /\ left \in Seq(Items) /\ Elems(left) \subseteq {item} \cup Elems(s)
        /\ \A path : Covers(item, path) \/ Pending(s, path) => Pending(left, path)
    BY ONLY <2>2, item \in Items, s \in Seq(Items), LeftIs
  <2> QED  BY <2>1, <2>3
<1>3. \A x \in Elems(left) : Allowed(x, r.query.resource, r.reached)
  BY <1>1, <1>2 DEF Good
<1>4. ASSUME NEW held \in r.standing PROVE held[2] \in candidates \/ Pending(left, held[1])
  <2>1. CASE held[2] \in r.candidates
    BY <2>1
  <2>2. CASE Pending(r.todo, held[1])
    <3>1. Covers(Head(r.todo), held[1]) \/ Pending(Tail(r.todo), held[1])
      BY <1>1, <2>2 DEF Pending
    <3> QED  BY <1>2, <3>1
  <2> QED  BY <2>1, <2>2 DEF Good
<1>5. left \in Seq(Items)
  BY <1>2
<1>6. r.candidates \subseteq candidates /\ candidates \subseteq r.ever
  OBVIOUS
<1>7. Good(r, paths, rules, applying)
  OBVIOUS
<1> QED  BY ONLY <1>3, <1>4, <1>5, <1>6, <1>7, GoodUpdate

\* A new request: nothing is found, everything is to be looked at.
LEMMA BeginStep ==
    ASSUME TablesInv, RequestInv, NEW q \in Requests, NEW query \in Queries, Begin(q, query)
    PROVE  RequestInv'
<1> DEFINE todo == CandidateRules(query.resource)
           reached == Firsts(PathsFor[query])
           ever == {held[2] : held \in ApplyingFor[query]}
           row == Row(query, todo, {}, reached, ever, ApplyingFor[query])
<1>1. request' = [request EXCEPT ![q] = row] /\ UNCHANGED <<tables, now>>
  BY DEF Begin, Row, Firsts
<1>2. /\ PathsFor[query] = PathsOf(query.resource) /\ query.resource \in Resources
      /\ \A scope \in Scopes : RulesFor[query][scope] = candidateRulesAtScope(query, scope)
      /\ \A path \in PathsFor[query] : path[1] \in Scopes
      /\ \A held \in ApplyingFor[query] :
            held[1] \in PathsFor[query] /\ held[2] \in RulesFor[query][held[1][1]]
  BY ApplyingAre
<1>3. Starts(query.resource, reached)
  BY <1>2, PlanOfResource
<1>4. reached \subseteq Scopes
  BY <1>2 DEF Firsts
<1>5. \A s \in reached : RulesFor[query][s] \subseteq ever
  <2> SUFFICES ASSUME NEW path \in PathsFor[query], NEW rule \in RulesFor[query][path[1]]
               PROVE  rule \in ever
    BY DEF Firsts
  <2>1. ApplyingFor[query] = UNION {{x} \X RulesFor[query][x[1]] : x \in PathsFor[query]}
    BY DEF ApplyingFor
  <2>2. <<path, rule>> \in ApplyingFor[query] /\ <<path, rule>>[2] = rule
    BY <2>1
  <2> QED  BY <2>2
<1>6. ever \subseteq CandidateRow
  <2>1. \A held \in ApplyingFor[query] : held[2] \in candidateRulesAtScope(query, held[1][1])
    BY <1>2
  <2> QED  BY <2>1, RulesAreRows
<1>7. \A held \in ApplyingFor[query] : Pending(todo, held[1])
  BY <1>2, <1>3 DEF Starts
<1>8. todo \in Seq(Items) /\ \A item \in Elems(todo) : Allowed(item, query.resource, reached)
  BY <1>3 DEF Starts
<1>9. /\ row.query = query /\ row.todo = todo /\ row.candidates = {} /\ row.reached = reached
      /\ row.ever = ever /\ row.standing = ApplyingFor[query]
  BY RowsAre
<1>10. row = Row(row.query, row.todo, row.candidates, row.reached, row.ever, row.standing)
  BY <1>9
<1> HIDE DEF row, ever, reached, todo
<1>11. Good(row, PathsFor, RulesFor, ApplyingFor)
  BY <1>4, <1>5, <1>6, <1>7, <1>8, <1>9, <1>10 DEF Good, reached
<1> QED  BY <1>1, <1>11, RequestKept

\* What the invariant says of a request that looks at its first item.
LEMMA AtWork ==
    ASSUME RequestInv, NEW q \in Requests, NEW do, Busy(q, do)
    PROVE  LET r == request[q] IN
           /\ Good(r, PathsFor, RulesFor, ApplyingFor) /\ r.todo # <<>>
           /\ Head(r.todo).do = do /\ Head(r.todo) \in Items
           /\ Allowed(Head(r.todo), r.query.resource, r.reached)
           /\ r = Row(r.query, r.todo, r.candidates, r.reached, r.ever, r.standing)
<1>1. /\ Good(request[q], PathsFor, RulesFor, ApplyingFor) /\ request[q].todo # <<>>
      /\ Head(request[q].todo).do = do
  BY DEF RequestInv, GoodRequests, Busy
<1>2. PICK r : r = request[q]
  OBVIOUS
<1>3. r.todo \in Seq(Items) /\ r.todo # <<>>
      /\ \A item \in Elems(r.todo) : Allowed(item, r.query.resource, r.reached)
  BY <1>1, <1>2 DEF Good
<1>4. Head(r.todo) \in Items /\ Head(r.todo) \in Elems(r.todo)
  BY <1>3, ElemsOfTail
<1>5. r = Row(r.query, r.todo, r.candidates, r.reached, r.ever, r.standing)
  BY <1>1, <1>2 DEF Good
<1> QED  BY <1>1, <1>2, <1>3, <1>4, <1>5

LEMMA QueryStep ==
    ASSUME RequestInv, NEW q \in Requests, NEW scope \in Scopes, QueryRules(q, scope)
    PROVE  RequestInv'
<1>1. PICK r : r = request[q]
  OBVIOUS
<1>2. /\ Good(r, PathsFor, RulesFor, ApplyingFor) /\ r.todo # <<>>
      /\ Head(r.todo).do = "rules" /\ Head(r.todo) \in Items
      /\ Allowed(Head(r.todo), r.query.resource, r.reached)
      /\ r = Row(r.query, r.todo, r.candidates, r.reached, r.ever, r.standing)
  BY <1>1, AtWork DEF QueryRules
<1>3. PICK item : item = RulesAt(Head(r.todo).of \ {scope})
  OBVIOUS
<1>4. PICK left : left = (IF item.of = {} THEN <<>> ELSE <<item>>) \o Tail(r.todo)
  OBVIOUS
<1>5. PICK found : found = candidateRulesAtScope(r.query, scope)
  OBVIOUS
<1>6. PICK row : row = Found(r, left, r.candidates \cup found)
  OBVIOUS
<1>7. request' = [request EXCEPT ![q] = row] /\ UNCHANGED <<tables, now>>
  BY <1>1, <1>3, <1>4, <1>5, <1>6 DEF QueryRules, Left, Found
<1>8. row = Row(r.query, left, r.candidates \cup found, r.reached, r.ever, r.standing)
  BY <1>2, <1>6, RowsChange
<1>9. Head(r.todo).of \subseteq r.reached /\ r.reached \subseteq Scopes /\ r.query \in Queries
      /\ scope \in Head(r.todo).of
  BY <1>1, <1>2 DEF Allowed, Good, QueryRules
<1>10. item \in Items /\ item.do = "rules" /\ item.of = Head(r.todo).of \ {scope}
  BY <1>3, <1>9, ItemsAre, FieldsAre
<1>11. Allowed(item, r.query.resource, r.reached)
  BY <1>9, <1>10 DEF Allowed
<1>12. found = RulesFor[r.query][scope]
  BY <1>5, <1>9, ApplyingAre
<1>13. found \subseteq r.ever
  BY <1>2, <1>9, <1>12 DEF Good
<1>14. r.candidates \subseteq r.candidates \cup found /\ r.candidates \cup found \subseteq r.ever
  BY <1>2, <1>13 DEF Good
<1>15. \A held \in r.standing : Covers(Head(r.todo), held[1]) =>
            held[2] \in r.candidates \cup found \/ Covers(item, held[1])
  <2> SUFFICES ASSUME NEW held \in r.standing, Covers(Head(r.todo), held[1])
               PROVE  held[2] \in r.candidates \cup found \/ Covers(item, held[1])
    OBVIOUS
  <2>1. held[1][1] \in Head(r.todo).of
    BY <1>2 DEF Covers, Basic
  <2>2. held \in ApplyingFor[r.query]
    BY <1>2 DEF Good
  <2>3. held[2] \in RulesFor[r.query][held[1][1]]
    BY <1>9, <2>2, ApplyingAre
  <2>4. CASE held[1][1] = scope
    BY <1>12, <2>3, <2>4
  <2>5. CASE held[1][1] # scope
    BY <1>10, <2>1, <2>5 DEF Covers, Basic
  <2> QED  BY <2>4, <2>5
<1>16. Good(row, PathsFor, RulesFor, ApplyingFor)
  <2>1. PICK paths, rules, applying : paths = PathsFor /\ rules = RulesFor /\ applying = ApplyingFor
    OBVIOUS
  <2>2. PICK candidates : candidates = r.candidates \cup found
    OBVIOUS
  <2>3. /\ Good(r, paths, rules, applying) /\ r.todo # <<>> /\ r.candidates \subseteq candidates
        /\ candidates \subseteq r.ever
        /\ \A held \in r.standing : Covers(Head(r.todo), held[1]) =>
              held[2] \in candidates \/ Covers(item, held[1])
    BY <1>2, <1>14, <1>15, <2>1, <2>2
  <2>4. Good(Row(r.query, left, candidates, r.reached, r.ever, r.standing), paths, rules, applying)
    BY ONLY <1>4, <1>10, <1>11, <2>3, ReplaceStep
  <2> QED  BY <1>8, <2>1, <2>2, <2>4
<1> QED  BY <1>7, <1>16, RequestKept

\* A lookup is replaced by what it found.
LEMMA LookupStep ==
    ASSUME RequestInv, NEW q \in Requests, NEW do, Busy(q, do), NEW item \in Items, Replace(q, item),
           NEW r, r = request[q], Allowed(item, r.query.resource, r.reached),
           \A held \in r.standing : Covers(Head(r.todo), held[1]) => Covers(item, held[1])
    PROVE  RequestInv'
<1>2. /\ Good(r, PathsFor, RulesFor, ApplyingFor) /\ r.todo # <<>>
      /\ r = Row(r.query, r.todo, r.candidates, r.reached, r.ever, r.standing)
  BY AtWork
<1>3. PICK left : left = (IF item.of = {} THEN <<>> ELSE <<item>>) \o Tail(r.todo)
  OBVIOUS
<1>4. PICK row : row = Later(r, left)
  OBVIOUS
<1>5. request' = [request EXCEPT ![q] = row] /\ UNCHANGED <<tables, now>>
  BY <1>3, <1>4 DEF Replace, Left, Later
<1>6. row = Row(r.query, left, r.candidates, r.reached, r.ever, r.standing)
  BY <1>2, <1>4, RowsChange
<1>7. Good(row, PathsFor, RulesFor, ApplyingFor)
  <2>1. PICK paths, rules, applying : paths = PathsFor /\ rules = RulesFor /\ applying = ApplyingFor
    OBVIOUS
  <2>2. PICK candidates : candidates = r.candidates
    OBVIOUS
  <2>3. /\ Good(r, paths, rules, applying) /\ r.todo # <<>> /\ r.candidates \subseteq candidates
        /\ candidates \subseteq r.ever
        /\ \A held \in r.standing : Covers(Head(r.todo), held[1]) =>
              held[2] \in candidates \/ Covers(item, held[1])
    BY <1>2, <2>1, <2>2 DEF Good
  <2>4. item \in Items /\ Allowed(item, r.query.resource, r.reached)
    OBVIOUS
  <2>5. Good(Row(r.query, left, candidates, r.reached, r.ever, r.standing), paths, rules, applying)
    BY ONLY <1>3, <2>3, <2>4, ReplaceStep
  <2> QED  BY <1>6, <2>1, <2>2, <2>5
<1> QED  BY <1>5, <1>7, RequestKept

\* The groups found are groups that the resource is in now, by the member.
LEMMA ProductGroupsStep ==
    ASSUME RequestInv, NEW q \in Requests, ListProductGroupsContaining(q)
    PROVE  RequestInv'
<1>1. PICK r : r = request[q]
  OBVIOUS
<1>2. PICK p \in Head(r.todo).of :
          Replace(q, RulesAt({"product_group"} \X GroupsWith(ProductGroups, p)))
  BY <1>1 DEF ListProductGroupsContaining
<1>3. Busy(q, "product groups")
  BY DEF ListProductGroupsContaining
<1>4. /\ Good(r, PathsFor, RulesFor, ApplyingFor) /\ Head(r.todo).do = "product groups"
      /\ Allowed(Head(r.todo), r.query.resource, r.reached)
  BY <1>1, <1>3, AtWork
<1>5. PICK found : found = InGroups("product_group", ProductGroups, p)
  OBVIOUS
<1>6. PICK item : item = RulesAt(found)
  OBVIOUS
<1>7. Replace(q, item)
  BY <1>2, <1>5, <1>6 DEF InGroups
<1>8. p \in ProductsOf(r.query.resource) /\ Head(r.todo).of = {p}
  BY <1>2, <1>4 DEF Allowed
<1>9. /\ r.query \in Queries /\ r.query.resource \in Resources
      /\ PathsFor[r.query] = PathsOf(r.query.resource)
      /\ Firsts(PathsFor[r.query]) \subseteq r.reached /\ r.reached \subseteq Scopes
  BY <1>4, ApplyingAre DEF Good
<1>10. found \subseteq r.reached
  BY <1>5, <1>8, <1>9, PathsOfResource DEF GroupsReached
<1>11. item \in Items /\ item.do = "rules" /\ item.of = found
  BY <1>6, <1>9, <1>10, ItemsAre, FieldsAre
<1>12. Allowed(item, r.query.resource, r.reached)
  BY <1>10, <1>11 DEF Allowed
<1>13. ASSUME NEW held \in r.standing, Covers(Head(r.todo), held[1]) PROVE Covers(item, held[1])
  <2>1. held[1][1][1] = "product_group" /\ held[1][2] = p
    BY <1>4, <1>8, <1>13 DEF Covers, Basic
  <2>2. held \in ApplyingFor[r.query]
    BY <1>4 DEF Good
  <2>3. held[1] \in PathsOf(r.query.resource)
    BY <1>9, <2>2, ApplyingAre
  <2>4. held[1][1] \in InGroups("product_group", ProductGroups, held[1][2])
    BY <1>9, <2>1, <2>3, PathsOfResource DEF PathFits
  <2> QED  BY <1>5, <1>11, <2>1, <2>4 DEF Covers, Basic
<1> QED  BY <1>1, <1>3, <1>7, <1>11, <1>12, <1>13, LookupStep

LEMMA ReleaseGroupsStep ==
    ASSUME RequestInv, NEW q \in Requests, ListReleaseGroupsContaining(q)
    PROVE  RequestInv'
<1>1. PICK r : r = request[q]
  OBVIOUS
<1>2. PICK p \in Head(r.todo).of :
          Replace(q, RulesAt({"release_group"} \X GroupsWith(ReleaseGroups, p)))
  BY <1>1 DEF ListReleaseGroupsContaining
<1>3. Busy(q, "release groups")
  BY DEF ListReleaseGroupsContaining
<1>4. /\ Good(r, PathsFor, RulesFor, ApplyingFor) /\ Head(r.todo).do = "release groups"
      /\ Allowed(Head(r.todo), r.query.resource, r.reached)
  BY <1>1, <1>3, AtWork
<1>5. PICK found : found = InGroups("release_group", ReleaseGroups, p)
  OBVIOUS
<1>6. PICK item : item = RulesAt(found)
  OBVIOUS
<1>7. Replace(q, item)
  BY <1>2, <1>5, <1>6 DEF InGroups
<1>8. p \in ReleasesOf(r.query.resource) /\ Head(r.todo).of = {p}
  BY <1>2, <1>4 DEF Allowed
<1>9. /\ r.query \in Queries /\ r.query.resource \in Resources
      /\ PathsFor[r.query] = PathsOf(r.query.resource)
      /\ Firsts(PathsFor[r.query]) \subseteq r.reached /\ r.reached \subseteq Scopes
  BY <1>4, ApplyingAre DEF Good
<1>10. found \subseteq r.reached
  BY <1>5, <1>8, <1>9, PathsOfResource DEF GroupsReached
<1>11. item \in Items /\ item.do = "rules" /\ item.of = found
  BY <1>6, <1>9, <1>10, ItemsAre, FieldsAre
<1>12. Allowed(item, r.query.resource, r.reached)
  BY <1>10, <1>11 DEF Allowed
<1>13. ASSUME NEW held \in r.standing, Covers(Head(r.todo), held[1]) PROVE Covers(item, held[1])
  <2>1. held[1][1][1] = "release_group" /\ held[1][2] = p
    BY <1>4, <1>8, <1>13 DEF Covers, Basic
  <2>2. held \in ApplyingFor[r.query]
    BY <1>4 DEF Good
  <2>3. held[1] \in PathsOf(r.query.resource)
    BY <1>9, <2>2, ApplyingAre
  <2>4. held[1][1] \in InGroups("release_group", ReleaseGroups, held[1][2])
    BY <1>9, <2>1, <2>3, PathsOfResource DEF PathFits
  <2> QED  BY <1>5, <1>11, <2>1, <2>4 DEF Covers, Basic
<1> QED  BY <1>1, <1>3, <1>7, <1>11, <1>12, <1>13, LookupStep

\* An artifact's collections are looked at one after the other.
LEMMA ArtifactOf ==
    ASSUME NEW resource \in Resources, resource[1] = "artifact"
    PROVE  /\ resource[2] \in Artifacts /\ resource = <<"artifact", resource[2]>>
           /\ CollectionsIn(resource) = CollectionsOf[resource[2]]
           /\ CollectionsIn(resource) \subseteq ProductReleases \cup ComponentReleases
<1>1. PICK a \in Artifacts : resource = <<"artifact", a>>
  BY DEF Resources
<1>2. resource[2] = a
  BY <1>1
<1> QED  BY <1>1, <1>2, GraphAssumption DEF CollectionsIn

LEMMA CollectionsStep ==
    ASSUME RequestInv, NEW q \in Requests, listCollectionsContainingArtifact(q)
    PROVE  RequestInv'
<1>1. PICK r : r = request[q]
  OBVIOUS
<1>2. PICK a \in Head(r.todo).of : Replace(q, EachCollection(CollectionsOf[a]))
  BY <1>1 DEF listCollectionsContainingArtifact
<1>3. Busy(q, "collections of")
  BY DEF listCollectionsContainingArtifact
<1>4. /\ Good(r, PathsFor, RulesFor, ApplyingFor) /\ Head(r.todo).do = "collections of"
      /\ Allowed(Head(r.todo), r.query.resource, r.reached)
  BY <1>1, <1>3, AtWork
<1>5. r.query \in Queries /\ r.query.resource \in Resources
  BY <1>4, ApplyingAre DEF Good
<1>6. r.query.resource[1] = "artifact" /\ r.query.resource[2] = a /\ Head(r.todo).of = {a}
  BY <1>2, <1>4 DEF Allowed
<1>7. PICK item : item = EachCollection(CollectionsOf[a])
  OBVIOUS
<1>8. /\ CollectionsIn(r.query.resource) = CollectionsOf[a]
      /\ CollectionsOf[a] \subseteq ProductReleases \cup ComponentReleases
  BY <1>5, <1>6, ArtifactOf
<1>9. item \in Items /\ item.do = "collections" /\ item.of = CollectionsOf[a]
  BY <1>7, <1>8, ItemsAre, FieldsAre
<1>10. Allowed(item, r.query.resource, r.reached)
  BY <1>8, <1>9 DEF Allowed
<1>11. \A path : Covers(Head(r.todo), path) => Covers(item, path)
  BY <1>4, <1>6, <1>9 DEF Covers, Basic
<1>12. Replace(q, item)
  BY <1>2, <1>7
<1> QED  BY <1>1, <1>3, <1>9, <1>10, <1>11, <1>12, LookupStep

LEMMA EnterStep ==
    ASSUME RequestInv, NEW q \in Requests, NEW c, EnterCollection(q, c)
    PROVE  RequestInv'
<1>1. PICK r : r = request[q]
  OBVIOUS
<1>2. /\ Good(r, PathsFor, RulesFor, ApplyingFor) /\ r.todo # <<>>
      /\ Head(r.todo).do = "collections" /\ Head(r.todo) \in Items
      /\ Allowed(Head(r.todo), r.query.resource, r.reached)
      /\ r = Row(r.query, r.todo, r.candidates, r.reached, r.ever, r.standing)
      /\ c \in Head(r.todo).of
  BY <1>1, AtWork DEF EnterCollection
<1>3. PICK item : item = EachCollection(Head(r.todo).of \ {c})
  OBVIOUS
<1>4. PICK rest : rest = Tail(r.todo)
  OBVIOUS
<1>5. PICK left : left = (IF item.of = {} THEN <<>> ELSE <<item>>) \o rest
  OBVIOUS
<1>6. PICK plan : plan = PlanForCollection(c)
  OBVIOUS
<1>7. PICK row : row = Later(r, plan \o left)
  OBVIOUS
<1>8. request' = [request EXCEPT ![q] = row] /\ UNCHANGED <<tables, now>>
  BY <1>1, <1>3, <1>4, <1>5, <1>6, <1>7 DEF EnterCollection, Left, Later
<1>9. row = Row(r.query, plan \o left, r.candidates, r.reached, r.ever, r.standing)
  BY <1>2, <1>7, RowsChange
<1>10. /\ r.query \in Queries /\ r.query.resource \in Resources
       /\ PathsFor[r.query] = PathsOf(r.query.resource)
       /\ Firsts(PathsFor[r.query]) \subseteq r.reached
  BY <1>2, ApplyingAre DEF Good
<1>11. Head(r.todo).of \subseteq CollectionsIn(r.query.resource)
  BY <1>2 DEF Allowed
<1>12. r.query.resource[1] = "artifact"
  BY <1>2, <1>11 DEF CollectionsIn
<1>13. PICK a \in Artifacts : /\ r.query.resource = <<"artifact", a>>
                              /\ CollectionsIn(r.query.resource) = CollectionsOf[a]
                              /\ CollectionsOf[a] \subseteq ProductReleases \cup ComponentReleases
  BY <1>10, <1>12, ArtifactOf
<1>14. item \in Items /\ item.do = "collections" /\ item.of = Head(r.todo).of \ {c}
  BY <1>3, <1>11, <1>13, ItemsAre, FieldsAre
<1>15. PlanFits(plan, CollectionPaths(c), r.query.resource, r.reached)
  <2>1. Firsts(ArtifactPaths(a)) \subseteq r.reached /\ c \in CollectionsOf[a]
    BY <1>2, <1>10, <1>11, <1>13, KindsOfResources
  <2> QED  BY <1>6, <1>13, <2>1, PlanEntered
<1>16. /\ rest \in Seq(Items) /\ Elems(r.todo) = {Head(r.todo)} \cup Elems(rest)
  BY <1>2, <1>4, ElemsOfTail DEF Good
<1>17. /\ left \in Seq(Items) /\ Elems(left) \subseteq {item} \cup Elems(rest)
       /\ \A path : Covers(item, path) \/ Pending(rest, path) => Pending(left, path)
  <2>1. item \in Items /\ rest \in Seq(Items)
    BY <1>14, <1>16
  <2> QED  BY ONLY <1>5, <2>1, LeftIs
<1>18. plan \o left \in Seq(Items) /\ Elems(plan \o left) = Elems(plan) \cup Elems(left)
  BY <1>15, <1>17, ElemsOfConcat DEF PlanFits
<1>19. Allowed(item, r.query.resource, r.reached)
  BY <1>11, <1>14 DEF Allowed
<1>20. \A x \in Elems(plan \o left) : Allowed(x, r.query.resource, r.reached)
  <2>1. \A x \in Elems(rest) : Allowed(x, r.query.resource, r.reached)
    BY <1>2, <1>16 DEF Good
  <2>2. \A x \in Elems(plan) : Allowed(x, r.query.resource, r.reached)
    BY <1>15 DEF PlanFits
  <2> QED  BY <1>17, <1>18, <1>19, <2>1, <2>2
<1>21. \A held \in r.standing : held[2] \in r.candidates \/ Pending(plan \o left, held[1])
  <2> SUFFICES ASSUME NEW held \in r.standing, held[2] \notin r.candidates
               PROVE  Pending(plan \o left, held[1])
    OBVIOUS
  <2>1. Pending(r.todo, held[1])
    BY <1>2 DEF Good
  <2>2. Covers(Head(r.todo), held[1]) \/ Pending(rest, held[1])
    BY <1>16, <2>1 DEF Pending
  <2>3. Pending(left, held[1]) => Pending(plan \o left, held[1])
    BY <1>18 DEF Pending
  <2>4. CASE Covers(Head(r.todo), held[1])
    <3>1. PICK d \in Head(r.todo).of : InPlan(PlanForCollection(d), held[1])
      BY <1>2, <2>4 DEF Covers, Basic
    <3>2. CASE d = c
      <4>1. InPlan(plan, held[1])
        BY <1>6, <3>1, <3>2
      <4> QED  BY <1>18, <4>1 DEF InPlan, Pending, Covers
    <3>3. CASE d # c
      <4>1. Covers(item, held[1])
        BY <1>14, <3>1, <3>3 DEF Covers
      <4> QED  BY <1>17, <2>3, <4>1
    <3> QED  BY <3>2, <3>3
  <2> QED  BY <1>17, <2>2, <2>3, <2>4
<1>22. Good(row, PathsFor, RulesFor, ApplyingFor)
  <2>1. PICK paths, rules, applying : paths = PathsFor /\ rules = RulesFor /\ applying = ApplyingFor
    OBVIOUS
  <2>2. PICK candidates, todo : candidates = r.candidates /\ todo = plan \o left
    OBVIOUS
  <2>3. /\ Good(r, paths, rules, applying) /\ todo \in Seq(Items)
        /\ r.candidates \subseteq candidates /\ candidates \subseteq r.ever
    BY <1>2, <1>18, <2>1, <2>2 DEF Good
  <2>4. /\ \A x \in Elems(todo) : Allowed(x, r.query.resource, r.reached)
        /\ \A held \in r.standing : held[2] \in candidates \/ Pending(todo, held[1])
    BY <1>20, <1>21, <2>2
  <2>5. Good(Row(r.query, todo, candidates, r.reached, r.ever, r.standing), paths, rules, applying)
    BY ONLY <2>3, <2>4, GoodUpdate
  <2> QED  BY <1>9, <2>1, <2>2, <2>5
<1> QED  BY <1>8, <1>22, RequestKept

LEMMA RequestSteps ==
    ASSUME TablesInv, RequestInv, NEW q \in Requests, RequestStep(q)
    PROVE  RequestInv'
<1>1. ASSUME Answer(q) PROVE RequestInv'
  BY <1>1, RequestKept DEF Answer
<1> QED
  BY <1>1, BeginStep, QueryStep, ProductGroupsStep, ReleaseGroupsStep, CollectionsStep, EnterStep
     DEF RequestStep

\* The inductive invariant of the requests.
LEMMA RequestInvHolds == Spec => [](TablesInv /\ RequestInv)
<1>1. Init => RequestInv
  BY DEF Init, RequestInv, GoodRequests
<1>2. ASSUME TablesInv, TablesInv', RequestInv, [Next]_vars PROVE RequestInv'
  <2>1. CASE UNCHANGED vars
    <3>1. request' = request /\ UNCHANGED <<tables, now>>
      BY <2>1 DEF vars
    <3>2. PathsFor' = PathsFor /\ RulesFor' = RulesFor /\ ApplyingFor' = ApplyingFor
      BY <3>1, TablesSame
    <3> QED  BY <1>2, <3>1, <3>2 DEF RequestInv
  <2> QED  BY <1>2, <2>1, ObserveStep, RequestSteps DEF Next
<1>3. TablesInv /\ TablesInv' /\ RequestInv /\ [Next]_vars => RequestInv'
  BY <1>2
<1> QED  BY <1>1, <1>3, TablesInvHolds, PTL DEF Spec

-----------------------------------------------------------------------------
(* The decision.                                                           *)

LEMMA Highest ==
    /\ \A S \in SUBSET (0..6) : S # {} => \E m \in S : \A x \in S : x <= m
    /\ \A S \in SUBSET (0..2) : S # {} => \E m \in S : \A x \in S : x <= m
<1>1. ASSUME NEW S \in SUBSET (0..6), S # {} PROVE \E m \in S : \A x \in S : x <= m
  <2>0. \A x \in S : x \in 0..6
    OBVIOUS
  <2>6. CASE 6 \in S
    BY <2>6, <2>0
  <2>5. CASE 6 \notin S /\ 5 \in S
    BY <2>5, <2>0
  <2>4. CASE 6 \notin S /\ 5 \notin S /\ 4 \in S
    BY <2>4, <2>0
  <2>3. CASE 6 \notin S /\ 5 \notin S /\ 4 \notin S /\ 3 \in S
    BY <2>3, <2>0
  <2>2. CASE \A x \in S : x \in 0..2
    <3>2. CASE 2 \in S
      BY <2>2, <3>2
    <3>1. CASE 2 \notin S /\ 1 \in S
      BY <2>2, <3>1
    <3>0. CASE 2 \notin S /\ 1 \notin S
      <4>1. \A x \in S : x = 0
        BY <2>2, <3>0
      <4>2. PICK m \in S : TRUE
        BY <1>1
      <4>3. \A x \in S : x <= m
        BY <4>1, <4>2
      <4> QED  BY <4>3
    <3> QED  BY <3>0, <3>1, <3>2
  <2>1. CASE 6 \notin S /\ 5 \notin S /\ 4 \notin S /\ 3 \notin S
    <3>1. \A x \in S : x \in 0..2
      BY <2>0, <2>1
    <3> QED  BY <2>2, <3>1
  <2> QED  BY <2>1, <2>3, <2>4, <2>5, <2>6
<1>2. 0..2 \subseteq 0..6
  OBVIOUS
<1>3. ASSUME NEW S \in SUBSET (0..2), S # {} PROVE \E m \in S : \A x \in S : x <= m
  <2>1. S \in SUBSET (0..6)
    BY <1>2
  <2> QED  BY <1>1, <1>3, <2>1
<1> QED  BY <1>1, <1>3

\* Some candidate has the narrowest scope and, of those, the narrowest subject.
LEMMA NarrowestExists ==
    ASSUME NEW C \in SUBSET CandidateRow, C # {}
    PROVE  narrowestBySubject(narrowestByResourceScope(C)) # {}
<1> DEFINE N == narrowestByResourceScope(C)
<1>1. N # {}
  <2>1. PICK m \in {c.scope : c \in C} : \A x \in {c.scope : c \in C} : x <= m
    <3> DEFINE S == {c.scope : c \in C}
    <3>1. S \in SUBSET (0..6) /\ S # {}
      BY DEF CandidateRow
    <3> HIDE DEF S
    <3>2. \E m \in S : \A x \in S : x <= m
      BY <3>1, Highest
    <3> QED  BY <3>2 DEF S
  <2> QED  BY <2>1 DEF narrowestByResourceScope
<1>2. N \subseteq C
  BY DEF narrowestByResourceScope
<1> HIDE DEF N
<1>3. narrowestBySubject(N) # {}
  <2>1. PICK m \in {c.subject : c \in N} : \A x \in {c.subject : c \in N} : x <= m
    <3> DEFINE S == {c.subject : c \in N}
    <3>1. S \in SUBSET (0..2) /\ S # {}
      BY <1>1, <1>2 DEF CandidateRow
    <3> HIDE DEF S
    <3>2. \E m \in S : \A x \in S : x <= m
      BY <3>1, Highest
    <3> QED  BY <3>2 DEF S
  <2> QED  BY <2>1 DEF narrowestBySubject
<1> QED  BY <1>3 DEF N

\* The narrowest candidate is no wider than any, and narrower than all but its peers.
LEMMA NarrowestIs ==
    ASSUME NEW C \in SUBSET CandidateRow,
           NEW n \in narrowestBySubject(narrowestByResourceScope(C)), NEW c \in C
    PROVE  /\ n \in C /\ ~Narrower(c, n)
           /\ Narrower(n, c) \/ c \in narrowestBySubject(narrowestByResourceScope(C))
<1>1. /\ n \in C /\ \A d \in C : d.scope <= n.scope
      /\ \A d \in narrowestByResourceScope(C) : d.subject <= n.subject
  BY DEF narrowestBySubject, narrowestByResourceScope
<1>2. /\ n.scope \in 0..6 /\ c.scope \in 0..6 /\ n.subject \in 0..2 /\ c.subject \in 0..2
      /\ \A d \in C : d.scope \in 0..6 /\ d.subject \in 0..2
  BY <1>1 DEF CandidateRow
<1>3. c.scope <= n.scope
  BY <1>1
<1>4. c.scope = n.scope => c \in narrowestByResourceScope(C)
  BY <1>1 DEF narrowestByResourceScope
<1>5. c.scope = n.scope => c.subject <= n.subject
  BY <1>1, <1>4
<1>6. c.scope = n.scope /\ c.subject = n.subject
        => c \in narrowestBySubject(narrowestByResourceScope(C))
  BY <1>1, <1>4 DEF narrowestBySubject
<1>7. ~Narrower(c, n)
  BY <1>2, <1>3, <1>5 DEF Narrower
<1>8. Narrower(n, c) \/ (c.scope = n.scope /\ c.subject = n.subject)
  BY <1>2, <1>3, <1>5 DEF Narrower
<1> QED  BY <1>1, <1>6, <1>7, <1>8

\* Every decision is explained by the rules that applied while it was made: it
\* has looked at each path by which rules applied from its beginning to its end,
\* and at no scope that the resource was never in.
THEOREM VerdictExplainedHolds == Spec => []VerdictExplained
<1>1. RequestInv => VerdictExplained
  <2> SUFFICES ASSUME RequestInv, NEW q \in Requests, Decided(q)
               PROVE  LET ever == request[q].ever
                          standing == {held[2] : held \in request[q].standing} IN
                      IF Decide(request[q].candidates)
                      THEN \E a \in ever : a.decision = "allow"
                              /\ \A d \in standing : d.decision = "deny" => Narrower(a, d)
                      ELSE \A a \in standing : a.decision = "allow" =>
                              \E d \in ever : d.decision = "deny" /\ ~Narrower(a, d)
    BY DEF VerdictExplained
  <2>1. PICK r : r = request[q]
    OBVIOUS
  <2>2. Good(r, PathsFor, RulesFor, ApplyingFor) /\ r.todo = <<>>
    BY <2>1 DEF RequestInv, GoodRequests, Decided
  <2>3. PICK C, ever, standing : /\ C = r.candidates /\ ever = r.ever
                                 /\ standing = {held[2] : held \in r.standing}
    OBVIOUS
  <2>4. C \subseteq ever /\ C \in SUBSET CandidateRow
    BY <2>2, <2>3 DEF Good
  <2>5. standing \subseteq C
    <3>1. \A path : ~Pending(r.todo, path)
      BY <2>2, ElemsOfShort DEF Pending
    <3> QED  BY <2>2, <2>3, <3>1 DEF Good
  <2>6. \A c \in C : c.decision \in {"allow", "deny"}
    BY <2>4 DEF CandidateRow
  <2>7. PICK N : N = narrowestBySubject(narrowestByResourceScope(C))
    OBVIOUS
  <2>8. \A n \in N : n \in C /\ \A c \in C : ~Narrower(c, n) /\ (Narrower(n, c) \/ c \in N)
    <3>1. N \subseteq C
      BY <2>7 DEF narrowestBySubject, narrowestByResourceScope
    <3> QED  BY <2>4, <2>7, <3>1, NarrowestIs
  <2>9. C # {} => N # {}
    BY <2>4, <2>7, NarrowestExists
  <2>10. Decide(C) <=> C # {} /\ \A c \in N : c.decision = "allow"
    BY <2>7 DEF Decide
  <2>11. CASE Decide(C)
    <3>1. PICK n \in N : TRUE
      BY <2>9, <2>10, <2>11
    <3>2. n \in ever /\ n.decision = "allow"
      BY <2>4, <2>8, <2>10, <2>11, <3>1
    <3>3. \A d \in standing : d.decision = "deny" => Narrower(n, d)
      BY <2>5, <2>8, <2>10, <2>11, <3>1
    <3> QED  BY <2>1, <2>3, <2>11, <3>2, <3>3
  <2>12. CASE ~Decide(C)
    <3>1. ASSUME NEW a \in standing PROVE \E d \in ever : d.decision = "deny" /\ ~Narrower(a, d)
      <4>1. a \in C
        BY <2>5
      <4>2. PICK n \in N : n.decision # "allow"
        BY <2>10, <2>12, <4>1
      <4>3. n \in ever /\ n.decision = "deny" /\ ~Narrower(a, n)
        BY <2>4, <2>6, <2>8, <4>1, <4>2
      <4> QED  BY <4>3
    <3> QED  BY <2>1, <2>3, <2>12, <3>1
  <2> QED  BY <2>11, <2>12
<1> QED  BY <1>1, RequestInvHolds, PTL
=============================================================================
