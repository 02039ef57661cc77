----------------------------- MODULE MCListing -----------------------------
\* Values for the constants of Listing.
EXTENDS Listing

CONSTANTS products, components, releases, versions

By(l, f, o) == [list |-> l, field |-> f, order |-> o]

MCQueries ==
    {By(products, "name", "asc"), By(components, "name", "asc"),
     By(releases, "releaseDate", "asc"), By(releases, "releaseDate", "desc"),
     By(versions, "version", "asc")}

\* Products and components of one name, undated releases and releases of one date.
MCRows ==
    {r \in RowType :
        /\ r.list \in ProductLists => r.value["name"] = 1
        /\ r.list \in ReleaseLists => r.value["createdDate"] = 1
                                     /\ r.value["releaseDate"] \in {NULL, 1}}

\* Catalogues of at least two rows, of one list or of products and components.
MCCatalogues ==
    {c \in Storable :
        LET listed == {c[u].list : u \in UUIDs} \ {"absent"}
        IN  /\ Cardinality({u \in UUIDs : c[u] # Absent}) >= 2
            /\ \/ listed = {products, components}
               \/ \E l \in {products, releases, versions} : listed = {l}}
=============================================================================
