------------------------------ MODULE Listing ------------------------------
(***************************************************************************)
(* The paged lists of the consumer API and the client that reads them to   *)
(* the end: parsePageParams, filterAuthorized and the list handlers of     *)
(* internal/api, the keyset queries of internal/repo (pageQuery), the page *)
(* token of internal/pagination, and ListAll of pkg/teaclient.             *)
(*                                                                         *)
(* A page is made of many statements: the query of a batch, the load of    *)
(* each release it named, an authorisation decision per row, and again for *)
(* the next batch.  Between any two of them rows are created, deleted and  *)
(* imported, and the caller's entitlements change.  One reader is          *)
(* modelled: readers share nothing but the rows and the entitlements.      *)
(***************************************************************************)
EXTENDS Integers, SequencesExt

CONSTANTS
    UUIDs,           \* row uuids, numbered in the order of their text
    ProductLists,    \* lists of products or components (rows come from one query)
    ReleaseLists,    \* lists of releases (a query names them, then each is loaded)
    CollectionLists, \* lists of the versions of one collection
    MaxValue,        \* bound: sort values are 1 .. MaxValue
    PageSize,        \* the pageSize parameter
    Queries,         \* what clients ask for: a list, a sort field and an order
    Rows,            \* rows that writers make
    Catalogues,      \* contents of the database when the first listing starts
    MaxWrites        \* bound: writes around the listings

ASSUME ListingAssumption ==
    /\ UUIDs \subseteq Nat
    /\ MaxValue \in Nat /\ MaxWrites \in Nat
    /\ PageSize \in 1 .. 100

VARIABLES
    rows,       \* the rows, by uuid
    readable,   \* rows, and collections, the authorisation engine lets the caller read
    listing,    \* the client's listing and the request being served for it
    writes      \* writes so far

vars == <<rows, readable, listing, writes>>

Lists == ProductLists \cup ReleaseLists \cup CollectionLists

(***************************************************************************)
(* The sort columns.  release_date can be NULL; NULL is 0 here, and so is  *)
(* the empty string that a cursor carries for it.                          *)
(***************************************************************************)
NULL == 0

SortFields(l) ==
    CASE l \in ProductLists    -> {"name"}
      [] l \in ReleaseLists    -> {"createdDate", "releaseDate"}
      [] l \in CollectionLists -> {"version"}

Values(f) == IF f = "releaseDate" THEN NULL .. MaxValue ELSE 1 .. MaxValue

Params ==
    UNION {[list : {l}, field : SortFields(l), order : {"asc", "desc"}] : l \in Lists}

Absent == [list |-> "absent"]

RowType ==
    UNION {{r \in [list : {l}, value : [SortFields(l) -> NULL .. MaxValue]] :
               \A f \in SortFields(l) : r.value[f] \in Values(f)} : l \in Lists}

\* What the tables can hold: the versions of one collection differ.
Storable ==
    {c \in [UUIDs -> Rows \cup {Absent}] :
        \A u, w \in UUIDs :
            (u # w /\ c[u].list \in CollectionLists /\ c[w].list = c[u].list) =>
                c[u].value # c[w].value}

ASSUME CatalogueAssumption ==
    Rows \subseteq RowType /\ Catalogues \subseteq Storable /\ Queries \subseteq Params

Present == {u \in UUIDs : rows[u] # Absent}

NoToken == [uuid |-> "none"]

Cursors ==
    [uuid : UUIDs, value : NULL .. MaxValue, params : Params]

\* A row as the handler holds it: its uuid and the value of the sort field.
Entry == [uuid : UUIDs, value : NULL .. MaxValue]

Serving == {"sent", "query", "load", "decide"}

Ended == {"done", "refused", "failed"}

\* The client holds nothing: no listing yet, or ListAll returned an error.
Nothing(at) == [at |-> at]

InHand == listing.at \in Serving \cup {"done"}

-----------------------------------------------------------------------------
(***************************************************************************)
(* Keyset pagination.                                                      *)
(***************************************************************************)

\* whereClause that takes the row of the cursor again.
whereClauseInclusive(value, u, cursor, order) ==
    \/ cursor = NoToken
    \/ /\ value # NULL
       /\ IF order = "asc"
            THEN value > cursor.value \/ (value = cursor.value /\ u >= cursor.uuid)
            ELSE value < cursor.value \/ (value = cursor.value /\ u <= cursor.uuid)

\* whereClause, as SQL evaluates it: a comparison with NULL is not true.
whereClause(value, u, cursor, order) ==
    \/ cursor = NoToken
    \/ /\ value # NULL
       /\ IF order = "asc"
            THEN value > cursor.value \/ (value = cursor.value /\ u > cursor.uuid)
            ELSE value < cursor.value \/ (value = cursor.value /\ u < cursor.uuid)

\* orderByClause: NULL sorts before every value.
orderByClause(a, b, order) ==
    LET below(x, y) == x.value < y.value \/ (x.value = y.value /\ x.uuid < y.uuid)
    IN  IF order = "asc" THEN below(a, b) ELSE below(b, a)

\* What ORDER BY and LIMIT leave of a set of rows: the first ones in order, as
\* many as the limit admits.  There is one such sequence.
Limited(entries, order, limit) ==
    {s \in UNION {[1 .. n -> entries] : n \in 0 .. limit} :
        /\ \A i, j \in DOMAIN s : i < j => orderByClause(s[i], s[j], order)
        /\ \A e \in entries \ ToSet(s) :
              Len(s) = limit /\ \A i \in DOMAIN s : orderByClause(s[i], e, order)}

\* What a list query returns for a cursor and a limit.
SelectPage(p, cursor, limit) ==
    LET matching ==
            {u \in Present : /\ rows[u].list = p.list
                             /\ whereClause(rows[u].value[p.field], u, cursor, p.order)}
        entries == {[uuid |-> u, value |-> rows[u].value[p.field]] : u \in matching}
    IN  Limited(entries, p.order, limit)

\* Encode of the cursor that a row and the request's parameters make.
nextPageToken(entry, p) == [uuid |-> entry.uuid, value |-> entry.value, params |-> p]

\* parsePageParams: a token goes only with the request it was issued for.
TokenFitsSort(token, p) ==
    token = NoToken \/ (token.params.field = p.field /\ token.params.order = p.order)

TokenFits(token, p) == token = NoToken \/ token.params = p

-----------------------------------------------------------------------------
(***************************************************************************)
(* The client.                                                             *)
(***************************************************************************)

(***************************************************************************)
(* ListAll asks for the first page.  steady holds the rows that have been  *)
(* there, and readable, ever since; deleted the rows removed since.        *)
(***************************************************************************)
ListAll(p) ==
    /\ listing.at \in Ended \cup {"idle"}
    /\ listing' = [at |-> "sent", params |-> p, token |-> NoToken, cursor |-> NoToken,
                   batch |-> <<>>, index |-> 0, page |-> <<>>, got |-> <<>>,
                   steady |-> Present \cap readable, deleted |-> {}, reused |-> FALSE]
    /\ UNCHANGED <<rows, readable, writes>>

\* A client keeps the token and asks for another list or another order.
SwitchParams(p) ==
    /\ listing.at = "sent"
    /\ listing.token # NoToken
    /\ p # listing.params
    /\ listing' = [listing EXCEPT !.params = p]
    /\ UNCHANGED <<rows, readable, writes>>

\* The connection fails, or the client's timeout passes: ListAll gives up.
ConnectionFails ==
    /\ listing.at \in Serving
    /\ listing' = Nothing("failed")
    /\ UNCHANGED <<rows, readable, writes>>

-----------------------------------------------------------------------------
(***************************************************************************)
(* The list handlers.                                                      *)
(***************************************************************************)

(***************************************************************************)
(* parsePageParams, after the check of the whole collection that the       *)
(* collection lists make.                                                  *)
(***************************************************************************)
Parse ==
    LET p == listing.params
        admitted == p.list \in CollectionLists => p.list \in readable
    IN  /\ listing.at = "sent"
        /\ listing' = IF admitted /\ TokenFits(listing.token, p)
                        THEN [listing EXCEPT !.at = "query", !.cursor = listing.token,
                                             !.page = <<>>]
                        ELSE Nothing("refused")
        /\ UNCHANGED <<rows, readable, writes>>

\* fetch: one statement reads a batch of uuids, or of whole products.
Query ==
    LET p == listing.params
    IN  /\ listing.at = "query"
        /\ \E batch \in SelectPage(p, listing.cursor, PageSize + 1) :
              listing' = [listing EXCEPT
                             !.at = IF p.list \in ProductLists \/ batch = <<>>
                                      THEN "decide" ELSE "load",
                             !.batch = batch, !.index = 0]
        /\ UNCHANGED <<rows, readable, writes>>

(***************************************************************************)
(* Each release, or collection version, that the query named is read by a  *)
(* statement of its own.  One that is gone by then fails the request; one  *)
(* that was imported again counts with what it holds now.                  *)
(***************************************************************************)
Load ==
    LET i == listing.index + 1
        u == listing.batch[i].uuid
        p == listing.params
    IN  /\ listing.at = "load"
        /\ listing' =
             IF rows[u] = Absent \/ p.field \notin DOMAIN rows[u].value
               THEN Nothing("failed")
               ELSE [listing EXCEPT
                        !.batch[i] = [uuid |-> u, value |-> rows[u].value[p.field]],
                        !.index = IF i = Len(listing.batch) THEN 0 ELSE i,
                        !.at = IF i = Len(listing.batch) THEN "decide" ELSE "load"]
        /\ UNCHANGED <<rows, readable, writes>>

\* authorized: one decision for each row of the batch, in order.
Decide ==
    LET e == listing.batch[listing.index + 1]
        ok == listing.params.list \in CollectionLists \/ e.uuid \in readable
    IN  /\ listing.at = "decide"
        /\ listing.index < Len(listing.batch)
        /\ listing' = [listing EXCEPT
                          !.page = IF ok THEN Append(listing.page, e) ELSE listing.page,
                          !.index = @ + 1]
        /\ UNCHANGED <<rows, readable, writes>>

\* filterAuthorized goes on after the last row it read, shown or not.
ResumeAtShown(l) ==
    IF l.page = <<>> THEN l.cursor ELSE nextPageToken(Last(l.page), l.params)

ResumeAt(l) == nextPageToken(Last(l.batch), l.params)

\* The page token names the last row of the page.
TokenAfterRead(l) == nextPageToken(Last(l.batch), l.params)

TokenAfter(l) == nextPageToken(l.page[PageSize], l.params)

(***************************************************************************)
(* The batch is decided.  filterAuthorized reads another one unless the    *)
(* page has a row to spare or the query ran out of rows; otherwise the     *)
(* handler answers, and ListAll asks for the next page if it was told      *)
(* that there is one.                                                      *)
(***************************************************************************)
NextBatch ==
    /\ listing.at = "decide"
    /\ listing.index = Len(listing.batch)
    /\ Len(listing.page) <= PageSize
    /\ Len(listing.batch) > PageSize
    /\ listing' = [listing EXCEPT !.at = "query", !.cursor = ResumeAt(listing)]
    /\ UNCHANGED <<rows, readable, writes>>

Reply ==
    LET hasNext == Len(listing.page) > PageSize
    IN  /\ listing.at = "decide"
        /\ listing.index = Len(listing.batch)
        /\ hasNext \/ Len(listing.batch) <= PageSize
        /\ listing' = [listing EXCEPT
                          !.at = IF hasNext THEN "sent" ELSE "done",
                          !.got = @ \o IF hasNext THEN SubSeq(listing.page, 1, PageSize)
                                                  ELSE listing.page,
                          !.token = IF hasNext THEN TokenAfter(listing) ELSE NoToken,
                          !.cursor = NoToken, !.page = <<>>, !.batch = <<>>, !.index = 0]
        /\ UNCHANGED <<rows, readable, writes>>

-----------------------------------------------------------------------------
(***************************************************************************)
(* The writers.                                                            *)
(***************************************************************************)

(***************************************************************************)
(* A row is created or imported.  An import may bring back the uuid of a   *)
(* row that was deleted, with other content.  A collection only gains      *)
(* versions, each above the ones it has.                                   *)
(***************************************************************************)
Insert(u, row) ==
    /\ writes < MaxWrites
    /\ rows[u] = Absent
    /\ row.list \in CollectionLists =>
         \A w \in Present : rows[w].list = row.list =>
            rows[w].value["version"] < row.value["version"]
    /\ rows' = [rows EXCEPT ![u] = row]
    /\ writes' = writes + 1
    /\ listing' = IF InHand
                    THEN [listing EXCEPT !.reused = @ \/ u \in listing.deleted]
                    ELSE listing
    /\ UNCHANGED readable

\* A product, component or release is deleted; versions of a collection are not.
Delete(u) ==
    /\ writes < MaxWrites
    /\ u \in Present
    /\ rows[u].list \notin CollectionLists
    /\ rows' = [rows EXCEPT ![u] = Absent]
    /\ writes' = writes + 1
    /\ listing' = IF InHand
                    THEN [listing EXCEPT !.steady = @ \ {u}, !.deleted = @ \cup {u}]
                    ELSE listing
    /\ UNCHANGED readable

\* The caller's entitlements change.
Entitle(x) ==
    /\ writes < MaxWrites
    /\ x \notin readable
    /\ readable' = readable \cup {x}
    /\ writes' = writes + 1
    /\ UNCHANGED <<rows, listing>>

Revoke(x) ==
    /\ writes < MaxWrites
    /\ x \in readable
    /\ readable' = readable \ {x}
    /\ writes' = writes + 1
    /\ listing' = IF InHand THEN [listing EXCEPT !.steady = @ \ {x}] ELSE listing
    /\ UNCHANGED rows

-----------------------------------------------------------------------------
Init ==
    /\ rows \in Catalogues
    /\ readable \in SUBSET (UUIDs \cup CollectionLists)
    /\ listing = Nothing("idle")
    /\ writes = 0

Serve == Parse \/ Query \/ Load \/ Decide \/ NextBatch \/ Reply

Client == \/ \E p \in Queries : ListAll(p) \/ SwitchParams(p)
          \/ ConnectionFails

Write == \/ \E u \in UUIDs : Delete(u) \/ \E r \in Rows : Insert(u, r)
         \/ \E x \in UUIDs \cup CollectionLists : Entitle(x) \/ Revoke(x)

Next == Serve \/ Client \/ Write

(***************************************************************************)
(* The handler's goroutine and the client's loop keep running: a request   *)
(* that is being served takes its next step.  Nothing is assumed of the    *)
(* writers, nor that a connection fails or that a client starts.           *)
(***************************************************************************)
Spec == Init /\ [][Next]_vars /\ WF_vars(Serve)

-----------------------------------------------------------------------------
(***************************************************************************)
(* Properties.                                                             *)
(***************************************************************************)

Listings ==
    [at : Serving \cup {"done"}, params : Params,
     token : Cursors \cup {NoToken}, cursor : Cursors \cup {NoToken},
     batch : Seq(Entry), index : Nat, page : Seq(Entry), got : Seq(Entry),
     steady : SUBSET UUIDs, deleted : SUBSET UUIDs, reused : BOOLEAN]

\* Every variable holds a value of its kind; a listing in progress has its parts.
TypeOK ==
    /\ rows \in [UUIDs -> Rows \cup {Absent}]
    /\ readable \subseteq UUIDs \cup CollectionLists
    /\ writes \in 0 .. MaxWrites
    /\ ~InHand => listing \in {Nothing(at) : at \in {"idle", "refused", "failed"}}
    /\ InHand => /\ listing \in Listings
                 /\ Len(listing.batch) <= PageSize + 1
                 /\ listing.index <= Len(listing.batch)

(***************************************************************************)
(* No gaps (filterAuthorized: "pagination must operate on the authorized   *)
(* set, no gaps"): a listing read to its end holds every row of the list   *)
(* that was there, and readable, from its first request to its last answer *)
(* and has a value to sort by, whatever was written around it and however  *)
(* the unreadable rows fell into batches and pages.  Two cases are outside *)
(* the promise: rows whose release date is NULL, which the keyset          *)
(* comparison never finds again after the first batch, and a uuid imported *)
(* again, with another sort value, while the listing runs.                 *)
(***************************************************************************)
NoGaps ==
    (listing.at = "done" /\ ~listing.reused) =>
        \A u \in listing.steady \cap Present :
            LET p == listing.params IN
            (rows[u].list = p.list /\ rows[u].value[p.field] # NULL) =>
                \E i \in DOMAIN listing.got : listing.got[i].uuid = u

(***************************************************************************)
(* No repeats: across pages and batches the rows are delivered strictly in *)
(* the order asked for, so that no row is delivered twice although rows    *)
(* come and go between the pages (keyset pagination's purpose).            *)
(***************************************************************************)
DeliveredInOrder ==
    (InHand /\ listing.at # "sent" /\ ~listing.reused) =>
        \A i \in 1 .. Len(listing.got) - 1 :
            orderByClause(listing.got[i], listing.got[i + 1], listing.params.order)

(***************************************************************************)
(* No leaks (filterAuthorized: "no gaps or leaks via cursor or count"): a  *)
(* page token names a row the caller was shown, never a row that the       *)
(* filter read and withheld.                                               *)
(***************************************************************************)
TokenNamesShown ==
    (InHand /\ listing.token # NoToken) =>
        \E i \in DOMAIN listing.got : listing.got[i].uuid = listing.token.uuid

(***************************************************************************)
(* Liveness: a request that was sent is answered or fails, and ListAll     *)
(* comes to an end; in particular filterAuthorized does not read the same  *)
(* batch for ever when it holds too few readable rows, and ListAll is not  *)
(* sent in circles by its tokens.                                          *)
(***************************************************************************)
ListingEnds == (listing.at = "sent") ~> (listing.at \in Ended)
=============================================================================
