---------------------------- MODULE MCCatalogue ----------------------------
(* Instances of Catalogue for TLC.                                         *)
EXTENDS Catalogue, TLC

CONSTANTS p1, c1, r1, r2, d1

\* Lifecycle data of a component, which is deleted with it.
SomeCLEOwners == {Component(c1)}
NoCLEOwners == {}

\* What the clients read.
CLEAndComponents == {<<"cle", Component(c1)>>, <<"list", "components">>}
ReleaseLists == Lists({"productReleases"})

\* What a consumer may be let read: nothing or all of it.
ComponentGrants == {{}, {"read", "lifecycle"} \X {Component(c1)}}
ReleaseGrants == {{}, {"read"} \X ProductReleaseOwners}

\* Consumers read while there is nothing but the component: the lists that this
\* instance reads show no products and no releases, and what the writes of those
\* must keep has no consumer in it.
Reading(c) == granted[c] # {} \/ suffix[c] # 0 \/ request[c] # NULL \/ copy[c] # NULL

Focus ==
    (\E c \in Clients : Reading(c)) =>
        /\ creator = [h \in Creators |-> NULL]
        /\ \A o \in Owners \ ComponentOwners : ~Exists(o)

Symmetric == Permutations(Releases)
=============================================================================
