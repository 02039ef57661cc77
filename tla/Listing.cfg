SPECIFICATION Spec
CONSTANTS
    products = products
    components = components
    releases = releases
    versions = versions
    UUIDs = {1, 2, 3}
    ProductLists = {products, components}
    ReleaseLists = {releases}
    CollectionLists = {versions}
    MaxValue = 2
    Queries <- MCQueries
    Rows <- MCRows
    Catalogues <- MCCatalogues
    PageSize = 1
    MaxWrites = 2
INVARIANTS
    NoGaps
    DeliveredInOrder
    TokenNamesShown
PROPERTY
    ListingEnds
