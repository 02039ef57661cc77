--------------------------- MODULE MCAuthorisation ---------------------------
(* Instances of Authorisation for TLC.                                     *)
EXTENDS Authorisation

CONSTANTS t0, t1, e0, e1, u1, p1, r1, a1, pg1, rg1

\* One artifact in the collection of one release of one product.
OneProduct == [r \in ProductReleases |-> p1]
NoComponents == [r \in ComponentReleases |-> NULL]
OneCollection == [a \in Artifacts |-> {r1}]

AllowAll == {[capability |-> "read", artifactType |-> NULL, decision |-> "allow"]}
DenyAll == {[capability |-> "read", artifactType |-> NULL, decision |-> "deny"]}
Denying == {DenyAll}

\* Grants through the groups of products and of releases.
SomeGrants ==
    {[subject |-> <<"everyone", NULL>>, scope |-> <<"product_group", pg1>>],
     [subject |-> <<"principal", u1>>, scope |-> <<"release_group", rg1>>]}

Lapsing == [from |-> NULL, until |-> 0]

UserReadsArtifact ==
    [principal |-> u1, capability |-> "read", artifactType |-> NULL,
     resource |-> <<"artifact", a1>>]
Reads == {UserReadsArtifact}
Windows == {Lapsing}
=============================================================================
