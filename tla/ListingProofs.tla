---------------------------- MODULE ListingProofs ----------------------------
(***************************************************************************)
(* Proofs about Listing, for any rows, page size and number of writes.     *)
(***************************************************************************)
EXTENDS Listing, SequenceTheorems, FiniteSetTheorems, TLAPS

\* Two rows of one place in the order, or the first before the second.
UpTo(a, b, o) == (a.uuid = b.uuid /\ a.value = b.value) \/ orderByClause(a, b, o)

InOrder(s, o) == \A i, j \in DOMAIN s : i < j => orderByClause(s[i], s[j], o)

Shown(u, s) == \E i \in DOMAIN s : s[i].uuid = u

\* The parameters the listing began with.
Asked == IF listing.token = NoToken THEN listing.params ELSE listing.token.params

\* A batch is in hand, and so many of its rows were decided on.
Deciding == listing.at \in {"load", "decide"}

Decided == IF listing.at = "load" THEN 0 ELSE listing.index

\* What was delivered, or is about to be.
Taken == ToSet(listing.got) \cup ToSet(listing.page)

RowOf(u, v) == [uuid |-> u, value |-> v]

EntryOf(u) == RowOf(u, rows[u].value[Asked.field])

Listed(u) == rows[u] # Absent /\ rows[u].list = Asked.list

\* The rows that the listing must deliver.
Due == {u \in listing.steady : Listed(u) /\ rows[u].value[Asked.field] # NULL}

-----------------------------------------------------------------------------
(* The inductive invariant, in parts.                                      *)

\* The parts of a listing that go with its phase.
ShapeInv ==
    InHand =>
        /\ listing.at \in {"query", "load", "decide"} => Asked = listing.params
        /\ listing.at \in {"sent", "done"} => listing.page = <<>> /\ listing.batch = <<>>
        /\ listing.at = "done" => listing.token = NoToken
        /\ listing.at = "load" => listing.index < Len(listing.batch)

\* The rows kept in steady are there and readable.
SteadyInv ==
    InHand => /\ listing.steady \subseteq readable
              /\ \A u \in listing.steady : rows[u] # Absent

\* The rows in hand are as the tables have them, or were deleted.
RowsInv ==
    InHand /\ ~listing.reused =>
        /\ \A u \in listing.deleted : rows[u] = Absent
        /\ \A e \in ToSet(listing.page) \cup ToSet(listing.batch) :
              e.uuid \in listing.deleted \/ (Listed(e.uuid) /\ e = EntryOf(e.uuid))

\* What was taken is in order and before what will be read.
OrderInv ==
    InHand /\ ~listing.reused =>
        /\ InOrder(listing.got, Asked.order)
        /\ InOrder(listing.page, Asked.order)
        /\ InOrder(listing.batch, Asked.order)
        /\ \A e \in ToSet(listing.got), f \in ToSet(listing.page) : orderByClause(e, f, Asked.order)
        /\ Deciding => \A e \in Taken :
             /\ \A j \in DOMAIN listing.batch :
                   j > Decided => orderByClause(e, listing.batch[j], Asked.order)
             /\ listing.batch # <<>> => UpTo(e, Last(listing.batch), Asked.order)
        /\ listing.at = "query" => \A e \in Taken :
              listing.cursor # NoToken /\ UpTo(e, listing.cursor, Asked.order)
        /\ listing.at = "sent" => \A e \in Taken :
              listing.token # NoToken /\ UpTo(e, listing.token, Asked.order)

\* What is due was taken, or is still to be read.
DueInv ==
    InHand /\ ~listing.reused =>
        \A u \in Due :
            \/ Shown(u, listing.got)
            \/ Shown(u, listing.page)
            \/ /\ listing.at = "sent"
               /\ listing.token = NoToken \/ orderByClause(listing.token, EntryOf(u), Asked.order)
            \/ /\ listing.at = "query"
               /\ listing.cursor = NoToken \/ orderByClause(listing.cursor, EntryOf(u), Asked.order)
            \/ Deciding /\ \E j \in DOMAIN listing.batch : j > Decided /\ listing.batch[j].uuid = u
            \/ /\ Deciding /\ Len(listing.batch) > PageSize
               /\ orderByClause(Last(listing.batch), EntryOf(u), Asked.order)

Inv == /\ TypeOK /\ ShapeInv /\ SteadyInv /\ TokenNamesShown
       /\ RowsInv /\ OrderInv /\ DueInv

-----------------------------------------------------------------------------
(* Facts about rows, the order and the query.                              *)

Keyed(e) == e.uuid \in Nat /\ e.value \in Nat

LEMMA OrderIsTransitive ==
    ASSUME NEW a, NEW b, NEW c, NEW o, Keyed(a), Keyed(b), Keyed(c)
    PROVE  /\ orderByClause(a, b, o) /\ orderByClause(b, c, o) => orderByClause(a, c, o)
           /\ UpTo(a, b, o) /\ orderByClause(b, c, o) => orderByClause(a, c, o)
           /\ orderByClause(a, b, o) /\ UpTo(b, c, o) => orderByClause(a, c, o)
           /\ UpTo(a, b, o) /\ UpTo(b, c, o) => UpTo(a, c, o)
BY DEF Keyed, orderByClause, UpTo

LEMMA EntriesAreKeyed ==
    /\ \A e \in Entry : Keyed(e) /\ e = RowOf(e.uuid, e.value)
    /\ \A c \in Cursors : Keyed(c)
    /\ \A u \in UUIDs, v \in NULL .. MaxValue : RowOf(u, v) \in Entry
<1>1. NULL .. MaxValue \subseteq Nat /\ UUIDs \subseteq Nat
  BY ListingAssumption DEF NULL
<1>2. \A e \in Entry : Keyed(e)
  BY <1>1 DEF Entry, Keyed
<1>3. \A e \in Entry : e = RowOf(e.uuid, e.value)
  BY DEF Entry, RowOf
<1>4. \A c \in Cursors : Keyed(c)
  BY <1>1 DEF Cursors, Keyed
<1>5. \A u \in UUIDs, v \in NULL .. MaxValue : RowOf(u, v) \in Entry
  BY DEF Entry, RowOf
<1> QED  BY <1>2, <1>3, <1>4, <1>5

\* The value that a row of a list has in a sort field of that list.
LEMMA RowValue ==
    ASSUME NEW p \in Params, NEW r \in Rows, r.list = p.list \/ p.field \in DOMAIN r.value
    PROVE  p.field \in DOMAIN r.value /\ r.value[p.field] \in NULL .. MaxValue
<1>1. p.field \in SortFields(p.list)
  BY DEF Params
<1>2. r.value \in [SortFields(r.list) -> NULL .. MaxValue]
  BY CatalogueAssumption DEF RowType
<1> QED  BY <1>1, <1>2

\* The keyset comparison takes up where the cursor is.
LEMMA KeysetOrder ==
    ASSUME NEW u \in Nat, NEW v \in Nat, NEW c, Keyed(c), c # NoToken, NEW o
    PROVE  /\ whereClause(v, u, c, o) => orderByClause(c, RowOf(u, v), o)
           /\ v # NULL /\ orderByClause(c, RowOf(u, v), o) => whereClause(v, u, c, o)
BY DEF whereClause, orderByClause, RowOf, Keyed

LEMMA NoTokenIsNoCursor ==
    NoToken \notin Cursors /\ \A e \in Entry, p \in Params : nextPageToken(e, p) \in Cursors
<1>1. \A c \in Cursors : "value" \in DOMAIN c
  BY DEF Cursors
<1>2. "value" \notin DOMAIN NoToken
  BY DEF NoToken
<1>3. \A e \in Entry, p \in Params : nextPageToken(e, p) \in Cursors
  BY DEF Entry, nextPageToken, Cursors
<1> QED  BY <1>1, <1>2, <1>3

\* What a list query returns.
LEMMA PageSelected ==
    ASSUME TypeOK, NEW p \in Params, NEW c \in Cursors \cup {NoToken},
           NEW s \in SelectPage(p, c, PageSize + 1)
    PROVE  /\ s \in Seq(Entry) /\ Len(s) <= PageSize + 1 /\ InOrder(s, p.order)
           /\ \A e \in ToSet(s) :
                /\ e.uuid \in UUIDs /\ rows[e.uuid] # Absent /\ rows[e.uuid].list = p.list
                /\ e = RowOf(e.uuid, rows[e.uuid].value[p.field])
                /\ c # NoToken => orderByClause(c, e, p.order)
           /\ \A u \in UUIDs :
                /\ rows[u] # Absent /\ rows[u].list = p.list
                /\ \/ c = NoToken
                   \/ /\ rows[u].value[p.field] # NULL
                      /\ orderByClause(c, RowOf(u, rows[u].value[p.field]), p.order)
                => \/ Shown(u, s)
                   \/ /\ Len(s) > PageSize
                      /\ orderByClause(Last(s), RowOf(u, rows[u].value[p.field]), p.order)
<1> DEFINE Matching == {u \in Present : /\ rows[u].list = p.list
                                        /\ whereClause(rows[u].value[p.field], u, c, p.order)}
           Entries == {RowOf(u, rows[u].value[p.field]) : u \in Matching}
<1>1. s \in Limited(Entries, p.order, PageSize + 1)
  BY DEF SelectPage, RowOf
<1>2. \A u \in UUIDs : rows[u] # Absent /\ rows[u].list = p.list =>
         /\ rows[u].value[p.field] \in NULL .. MaxValue /\ rows[u].value[p.field] \in Nat
         /\ u \in Nat /\ RowOf(u, rows[u].value[p.field]) \in Entry
  <2> SUFFICES ASSUME NEW u \in UUIDs, rows[u] # Absent, rows[u].list = p.list
               PROVE  /\ rows[u].value[p.field] \in NULL .. MaxValue /\ rows[u].value[p.field] \in Nat
                      /\ u \in Nat /\ RowOf(u, rows[u].value[p.field]) \in Entry
    OBVIOUS
  <2>1. rows[u] \in Rows
    BY DEF TypeOK
  <2>2. rows[u].value[p.field] \in NULL .. MaxValue
    BY <2>1, RowValue
  <2> QED  BY <2>2, EntriesAreKeyed, ListingAssumption DEF NULL
<1>3. Matching \subseteq UUIDs /\ \A u \in Matching : rows[u] # Absent /\ rows[u].list = p.list
  BY DEF Present
<1>4. Entries \subseteq Entry
  BY <1>2, <1>3
<1>5. c # NoToken => Keyed(c)
  BY EntriesAreKeyed
<1> HIDE DEF Matching, Entries
<1>6. PICK n \in 0 .. PageSize + 1 : s \in [1 .. n -> Entries]
  BY <1>1 DEF Limited
<1>7. PageSize \in Nat
  BY ListingAssumption
<1>8. s \in Seq(Entry) /\ Len(s) = n /\ DOMAIN s = 1 .. n /\ n \in Nat
  <2>1. n \in Nat /\ s \in [1 .. n -> Entry]
    BY <1>4, <1>6, <1>7
  <2>2. s \in Seq(Entry)
    BY <2>1, SeqDef
  <2> QED  BY <2>1, <2>2
<1>9. InOrder(s, p.order)
  BY <1>1 DEF Limited, InOrder
<1>10. ASSUME NEW e \in ToSet(s)
       PROVE  /\ e.uuid \in UUIDs /\ rows[e.uuid] # Absent /\ rows[e.uuid].list = p.list
              /\ e = RowOf(e.uuid, rows[e.uuid].value[p.field])
              /\ c # NoToken => orderByClause(c, e, p.order)
  <2>1. e \in Entries
    BY <1>6 DEF ToSet
  <2>2. PICK u \in Matching : e = RowOf(u, rows[u].value[p.field])
    BY <2>1 DEF Entries
  <2>3. e.uuid = u
    BY <2>2 DEF RowOf
  <2>4. whereClause(rows[u].value[p.field], u, c, p.order)
    BY DEF Matching
  <2>5. c # NoToken => orderByClause(c, e, p.order)
    BY <1>2, <1>3, <1>5, <2>2, <2>4, KeysetOrder
  <2> QED  BY <1>3, <2>2, <2>3, <2>5
<1>11. ASSUME NEW u \in UUIDs, rows[u] # Absent, rows[u].list = p.list,
              \/ c = NoToken
              \/ /\ rows[u].value[p.field] # NULL
                 /\ orderByClause(c, RowOf(u, rows[u].value[p.field]), p.order)
       PROVE  \/ Shown(u, s)
              \/ /\ Len(s) > PageSize
                 /\ orderByClause(Last(s), RowOf(u, rows[u].value[p.field]), p.order)
  <2>1. whereClause(rows[u].value[p.field], u, c, p.order)
    <3>1. CASE c = NoToken
      BY <3>1 DEF whereClause
    <3>2. CASE c # NoToken
      BY <1>2, <1>5, <1>11, <3>2, KeysetOrder
    <3> QED  BY <3>1, <3>2
  <2>2. PICK e : e = RowOf(u, rows[u].value[p.field])
    OBVIOUS
  <2>3. e \in Entries /\ e.uuid = u
    BY <1>11, <2>1, <2>2 DEF Entries, Matching, Present, RowOf
  <2>4. CASE e \in ToSet(s)
    BY <2>3, <2>4 DEF ToSet, Shown
  <2>5. CASE e \notin ToSet(s)
    <3>1. Len(s) = PageSize + 1 /\ \A i \in DOMAIN s : orderByClause(s[i], e, p.order)
      BY <1>1, <2>3, <2>5 DEF Limited
    <3>2. Len(s) \in DOMAIN s /\ Len(s) > PageSize
      BY <1>7, <1>8, <3>1
    <3> QED  BY <2>2, <3>1, <3>2 DEF Last
  <2> QED  BY <2>4, <2>5
<1> QED  BY <1>6, <1>7, <1>8, <1>9, <1>10, <1>11

-----------------------------------------------------------------------------
(* Facts about sequences of entries.                                       *)

LEMMA ShownIs ==
    ASSUME NEW s, NEW u
    PROVE  Shown(u, s) <=> \E e \in ToSet(s) : e.uuid = u
BY DEF Shown, ToSet

LEMMA AppendInOrder ==
    ASSUME NEW s \in Seq(Entry), NEW e \in Entry, NEW o, InOrder(s, o),
           \A f \in ToSet(s) : orderByClause(f, e, o)
    PROVE  /\ Append(s, e) \in Seq(Entry) /\ ToSet(Append(s, e)) = ToSet(s) \cup {e}
           /\ InOrder(Append(s, e), o)
<1>1. PICK t : t = Append(s, e)
  OBVIOUS
<1>2. /\ t \in Seq(Entry) /\ Len(t) = Len(s) + 1 /\ Len(s) \in Nat
      /\ DOMAIN t = 1 .. Len(s) + 1 /\ DOMAIN s = 1 .. Len(s)
      /\ t[Len(s) + 1] = e /\ \A i \in 1 .. Len(s) : t[i] = s[i]
  BY <1>1
<1>3. \A i \in DOMAIN t : i = Len(s) + 1 \/ i \in DOMAIN s
  BY <1>2
<1>4. DOMAIN s \subseteq DOMAIN t /\ Len(s) + 1 \in DOMAIN t
  BY <1>2
<1>5. ToSet(t) = ToSet(s) \cup {e}
  BY <1>2, <1>3, <1>4 DEF ToSet
<1>6. ASSUME NEW i \in DOMAIN t, NEW j \in DOMAIN t, i < j
      PROVE  orderByClause(t[i], t[j], o)
  <2>1. i \in DOMAIN s
    BY <1>2, <1>6
  <2>2. CASE j \in DOMAIN s
    BY <1>2, <1>6, <2>1, <2>2 DEF InOrder
  <2>3. CASE j = Len(s) + 1
    BY <1>2, <2>1, <2>3 DEF ToSet
  <2> QED  BY <1>3, <2>2, <2>3
<1> QED  BY <1>1, <1>2, <1>5, <1>6 DEF InOrder

LEMMA ConcatElements ==
    ASSUME NEW s \in Seq(Entry), NEW t \in Seq(Entry)
    PROVE  s \o t \in Seq(Entry) /\ ToSet(s \o t) = ToSet(s) \cup ToSet(t)
<1>1. PICK r : r = s \o t
  OBVIOUS
<1>2. /\ r \in Seq(Entry) /\ Len(s) \in Nat /\ Len(t) \in Nat /\ Len(r) = Len(s) + Len(t)
      /\ DOMAIN r = 1 .. Len(s) + Len(t) /\ DOMAIN s = 1 .. Len(s) /\ DOMAIN t = 1 .. Len(t)
      /\ \A i \in 1 .. Len(s) + Len(t) : r[i] = IF i <= Len(s) THEN s[i] ELSE t[i - Len(s)]
  BY <1>1
<1>3. \A i \in DOMAIN r : \/ i \in DOMAIN s /\ r[i] = s[i]
                          \/ i - Len(s) \in DOMAIN t /\ r[i] = t[i - Len(s)]
  BY <1>2
<1>4. /\ \A i \in DOMAIN s : i \in DOMAIN r /\ r[i] = s[i]
      /\ \A i \in DOMAIN t : Len(s) + i \in DOMAIN r /\ r[Len(s) + i] = t[i]
  BY <1>2
<1>5. ToSet(r) = ToSet(s) \cup ToSet(t)
  BY <1>3, <1>4 DEF ToSet
<1> QED  BY <1>1, <1>2, <1>5

LEMMA ConcatInOrder ==
    ASSUME NEW s \in Seq(Entry), NEW t \in Seq(Entry), NEW o, InOrder(s, o), InOrder(t, o),
           \A e \in ToSet(s), f \in ToSet(t) : orderByClause(e, f, o)
    PROVE  InOrder(s \o t, o)
<1>1. PICK r : r = s \o t
  OBVIOUS
<1>2. /\ r \in Seq(Entry) /\ Len(s) \in Nat /\ Len(t) \in Nat /\ Len(r) = Len(s) + Len(t)
      /\ DOMAIN r = 1 .. Len(s) + Len(t) /\ DOMAIN s = 1 .. Len(s) /\ DOMAIN t = 1 .. Len(t)
      /\ \A i \in 1 .. Len(s) + Len(t) : r[i] = IF i <= Len(s) THEN s[i] ELSE t[i - Len(s)]
  BY <1>1
<1>3. ASSUME NEW i \in DOMAIN r, NEW j \in DOMAIN r, i < j
      PROVE  orderByClause(r[i], r[j], o)
  <2>0. i \in Nat /\ j \in Nat /\ Len(s) \in Nat
    BY <1>2
  <2>1. CASE j <= Len(s)
    <3>1. i \in DOMAIN s /\ j \in DOMAIN s /\ r[i] = s[i] /\ r[j] = s[j]
      BY <1>2, <1>3, <2>1
    <3> QED  BY <1>3, <3>1 DEF InOrder
  <2>2. CASE i > Len(s)
    <3>1. /\ i - Len(s) \in DOMAIN t /\ j - Len(s) \in DOMAIN t /\ i - Len(s) < j - Len(s)
          /\ r[i] = t[i - Len(s)] /\ r[j] = t[j - Len(s)]
      BY <1>2, <1>3, <2>2
    <3> QED  BY <3>1 DEF InOrder
  <2>3. CASE i <= Len(s) /\ j > Len(s)
    <3>1. i \in DOMAIN s /\ j - Len(s) \in DOMAIN t /\ r[i] = s[i] /\ r[j] = t[j - Len(s)]
      BY <1>2, <2>3
    <3> QED  BY <3>1 DEF ToSet
  <2> QED  BY <2>0, <2>1, <2>2, <2>3
<1> QED  BY <1>1, <1>3 DEF InOrder

\* The first n entries, and those behind them.
LEMMA FrontInOrder ==
    ASSUME NEW s \in Seq(Entry), NEW n \in Nat, n > 0, n <= Len(s), NEW o, InOrder(s, o)
    PROVE  /\ SubSeq(s, 1, n) \in Seq(Entry) /\ InOrder(SubSeq(s, 1, n), o)
           /\ s[n] \in ToSet(SubSeq(s, 1, n)) /\ s[n] \in Entry
           /\ ToSet(SubSeq(s, 1, n)) \subseteq ToSet(s)
           /\ \A e \in ToSet(SubSeq(s, 1, n)) : UpTo(e, s[n], o)
           /\ \A e \in ToSet(s) : e \in ToSet(SubSeq(s, 1, n)) \/ orderByClause(s[n], e, o)
<1>1. PICK t : t = SubSeq(s, 1, n)
  OBVIOUS
<1>2. /\ t \in Seq(Entry) /\ Len(t) = n /\ Len(s) \in Nat /\ \A i \in 1 .. n : t[i] = s[i]
      /\ DOMAIN t = 1 .. n /\ DOMAIN s = 1 .. Len(s)
  BY <1>1
<1>3. n \in DOMAIN t /\ n \in DOMAIN s /\ DOMAIN t \subseteq DOMAIN s
  BY <1>2
<1>4. InOrder(t, o)
  BY <1>2, <1>3 DEF InOrder
<1>5. ToSet(t) \subseteq ToSet(s) /\ s[n] \in ToSet(t) /\ s[n] \in Entry
  BY <1>2, <1>3 DEF ToSet
<1>6. \A e \in ToSet(t) : UpTo(e, s[n], o)
  <2> SUFFICES ASSUME NEW i \in DOMAIN t PROVE UpTo(t[i], s[n], o)
    BY DEF ToSet
  <2>1. i = n \/ i < n
    BY <1>2
  <2> QED  BY <1>2, <1>3, <2>1 DEF UpTo, InOrder
<1>7. \A e \in ToSet(s) : e \in ToSet(t) \/ orderByClause(s[n], e, o)
  <2> SUFFICES ASSUME NEW i \in DOMAIN s PROVE s[i] \in ToSet(t) \/ orderByClause(s[n], s[i], o)
    BY DEF ToSet
  <2>1. i > n \/ (i \in DOMAIN t /\ t[i] = s[i])
    BY <1>2
  <2> QED  BY <1>3, <2>1 DEF ToSet, InOrder
<1> QED  BY <1>1, <1>2, <1>4, <1>5, <1>6, <1>7

-----------------------------------------------------------------------------
(* The steps of the client.                                                *)

LEMMA PartsAre ==
    ASSUME TypeOK, InHand
    PROVE  /\ listing \in Listings /\ listing.params \in Params /\ Asked \in Params
           /\ listing.token \in Cursors \cup {NoToken} /\ listing.cursor \in Cursors \cup {NoToken}
           /\ listing.batch \in Seq(Entry) /\ listing.page \in Seq(Entry) /\ listing.got \in Seq(Entry)
           /\ listing.index \in Nat /\ listing.index <= Len(listing.batch)
           /\ Len(listing.batch) <= PageSize + 1 /\ Len(listing.batch) \in Nat
           /\ listing.steady \subseteq UUIDs /\ listing.deleted \subseteq UUIDs
           /\ listing.reused \in BOOLEAN
           /\ PageSize \in Nat /\ PageSize > 0
           /\ ToSet(listing.batch) \subseteq Entry /\ ToSet(listing.page) \subseteq Entry
           /\ ToSet(listing.got) \subseteq Entry
<1>1. listing \in Listings /\ Len(listing.batch) <= PageSize + 1 /\ listing.index <= Len(listing.batch)
  BY DEF TypeOK
<1>2. /\ listing.params \in Params
      /\ listing.token \in Cursors \cup {NoToken} /\ listing.cursor \in Cursors \cup {NoToken}
      /\ listing.batch \in Seq(Entry) /\ listing.page \in Seq(Entry) /\ listing.got \in Seq(Entry)
      /\ listing.index \in Nat
      /\ listing.steady \subseteq UUIDs /\ listing.deleted \subseteq UUIDs
      /\ listing.reused \in BOOLEAN
  BY <1>1 DEF Listings
<1>3. Asked \in Params
  BY <1>2 DEF Asked, Cursors
<1>4. \A s \in Seq(Entry) : ToSet(s) \subseteq Entry /\ Len(s) \in Nat
  BY DEF ToSet
<1> QED  BY <1>1, <1>2, <1>3, <1>4, ListingAssumption

\* The client holds nothing: only the types matter.
LEMMA NothingInHand ==
    ASSUME TypeOK, UNCHANGED <<rows, readable, writes>>, NEW at \in {"idle", "refused", "failed"},
           listing' = Nothing(at)
    PROVE  Inv'
<1>1. ~InHand'
  BY DEF InHand, Nothing, Serving
<1>2. TypeOK'
  BY <1>1 DEF TypeOK
<1> QED
  BY <1>1, <1>2 DEF Inv, ShapeInv, SteadyInv, RowsInv, OrderInv, DueInv, TokenNamesShown

LEMMA ListAllStep ==
    ASSUME Inv, NEW p \in Queries, ListAll(p)
    PROVE  Inv'
<1>1. /\ listing'.at = "sent" /\ listing'.params = p /\ listing'.token = NoToken
      /\ listing'.batch = <<>> /\ listing'.page = <<>> /\ listing'.got = <<>> /\ listing'.index = 0
      /\ listing'.steady = Present \cap readable /\ listing'.deleted = {} /\ listing'.reused = FALSE
      /\ UNCHANGED <<rows, readable, writes>>
  BY DEF ListAll
<1>2. p \in Params
  BY CatalogueAssumption
<1>3. TypeOK'
  <2>1. listing' \in Listings
    BY <1>2 DEF ListAll, Listings, Serving, Present
  <2>2. InHand'
    BY <1>1 DEF InHand, Serving
  <2>3. Len(listing'.batch) = 0
    BY <1>1
  <2> QED  BY <1>1, <2>1, <2>2, <2>3, ListingAssumption DEF Inv, TypeOK
<1>4. ToSet(listing'.got) = {} /\ ToSet(listing'.page) = {} /\ ToSet(listing'.batch) = {}
  BY <1>1 DEF ToSet
<1>5. ShapeInv' /\ TokenNamesShown'
  BY <1>1 DEF ShapeInv, TokenNamesShown
<1>6. SteadyInv'
  BY <1>1 DEF SteadyInv, Present
<1>7. RowsInv'
  BY <1>1, <1>4 DEF RowsInv
<1>8. OrderInv'
  BY <1>1, <1>4 DEF OrderInv, Taken, InOrder, Deciding
<1>9. DueInv'
  BY <1>1 DEF DueInv
<1> QED  BY <1>3, <1>5, <1>6, <1>7, <1>8, <1>9 DEF Inv

LEMMA SwitchParamsStep ==
    ASSUME Inv, NEW p \in Queries, SwitchParams(p)
    PROVE  Inv'
<1>0. TypeOK /\ InHand /\ listing \in Listings /\ p \in Params
  BY CatalogueAssumption DEF Inv, TypeOK, SwitchParams, InHand, Serving
<1>1. /\ listing.at = "sent" /\ listing'.at = "sent" /\ listing.token # NoToken
      /\ listing'.params = p /\ listing'.token = listing.token
      /\ listing'.batch = listing.batch /\ listing'.page = listing.page /\ listing'.got = listing.got
      /\ listing'.index = listing.index /\ listing'.steady = listing.steady
      /\ listing'.deleted = listing.deleted /\ listing'.reused = listing.reused
      /\ UNCHANGED <<rows, readable, writes>>
  BY <1>0 DEF SwitchParams, Listings
<1>2. InHand' /\ listing' \in Listings
  BY <1>0, <1>1 DEF SwitchParams, Listings, InHand, Serving
<1>3. TypeOK'
  BY <1>0, <1>1, <1>2 DEF TypeOK
<1>4. Asked' = Asked
  BY <1>1 DEF Asked
<1>5. ShapeInv' /\ TokenNamesShown' /\ SteadyInv'
  BY <1>0, <1>1 DEF Inv, ShapeInv, TokenNamesShown, SteadyInv
<1>6. RowsInv'
  BY <1>0, <1>1, <1>4 DEF Inv, RowsInv, Listed, EntryOf
<1>7. OrderInv'
  BY <1>0, <1>1, <1>4 DEF Inv, OrderInv, Taken, Deciding
<1>8. DueInv'
  BY <1>0, <1>1, <1>4 DEF Inv, DueInv, Due, Listed, EntryOf, Deciding
<1> QED  BY <1>3, <1>5, <1>6, <1>7, <1>8 DEF Inv

-----------------------------------------------------------------------------
(* The steps of the handler.                                               *)

LEMMA ParseStep ==
    ASSUME Inv, Parse
    PROVE  Inv'
<1>0. TypeOK /\ InHand /\ listing \in Listings /\ listing.at = "sent"
  BY DEF Inv, TypeOK, Parse, InHand, Serving
<1>1. CASE listing' = Nothing("refused")
  BY <1>0, <1>1, NothingInHand DEF Parse
<1>2. CASE /\ TokenFits(listing.token, listing.params)
           /\ listing' = [listing EXCEPT !.at = "query", !.cursor = listing.token, !.page = <<>>]
  <2>1. /\ listing'.at = "query" /\ listing'.cursor = listing.token /\ listing'.page = <<>>
        /\ listing'.params = listing.params /\ listing'.token = listing.token
        /\ listing'.batch = listing.batch /\ listing'.got = listing.got
        /\ listing'.index = listing.index /\ listing'.steady = listing.steady
        /\ listing'.deleted = listing.deleted /\ listing'.reused = listing.reused
        /\ UNCHANGED <<rows, readable, writes>>
    BY <1>0, <1>2 DEF Parse, Listings
  <2>2. InHand' /\ listing' \in Listings
    <3>1. InHand'
      BY <2>1 DEF InHand, Serving
    <3>2. <<>> \in Seq(Entry) /\ "query" \in Serving
      BY DEF Serving
    <3>3. listing.token \in Cursors \cup {NoToken}
      BY <1>0, PartsAre
    <3> QED  BY <1>0, <1>2, <3>1, <3>2, <3>3 DEF Listings
  <2>3. TypeOK'
    BY <1>0, <2>1, <2>2 DEF TypeOK
  <2>4. Asked' = Asked /\ Asked = listing.params
    BY <1>2, <2>1 DEF Asked, TokenFits
  <2>5. ShapeInv' /\ TokenNamesShown' /\ SteadyInv'
    BY <1>0, <2>1, <2>4 DEF Inv, ShapeInv, TokenNamesShown, SteadyInv
  <2>6. listing.page = <<>> /\ listing.batch = <<>>
    BY <1>0 DEF Inv, ShapeInv
  <2>7. RowsInv'
    BY <1>0, <2>1, <2>4, <2>6 DEF Inv, RowsInv, Listed, EntryOf
  <2>8. OrderInv'
    BY <1>0, <2>1, <2>4, <2>6 DEF Inv, OrderInv, Taken, Deciding
  <2>9. DueInv'
    BY <1>0, <2>1, <2>4, <2>6 DEF Inv, DueInv, Due, Listed, EntryOf, Deciding
  <2> QED  BY <2>3, <2>5, <2>7, <2>8, <2>9 DEF Inv
<1> QED  BY <1>1, <1>2 DEF Parse

LEMMA QueryStep ==
    ASSUME Inv, Query
    PROVE  Inv'
<1>0. TypeOK /\ InHand /\ listing \in Listings /\ listing.at = "query"
  BY DEF Inv, TypeOK, Query, InHand, Serving
<1>1. PICK p : p = listing.params
  OBVIOUS
<1>2. PICK c : c = listing.cursor
  OBVIOUS
<1>3. Asked = p /\ p \in Params /\ c \in Cursors \cup {NoToken}
  BY <1>0, <1>1, <1>2, PartsAre DEF Inv, ShapeInv
<1>4. PICK s \in SelectPage(p, c, PageSize + 1) :
          listing' = [listing EXCEPT !.at = IF p.list \in ProductLists \/ s = <<>>
                                              THEN "decide" ELSE "load",
                                     !.batch = s, !.index = 0]
  BY <1>1, <1>2 DEF Query
<1>5. /\ s \in Seq(Entry) /\ Len(s) <= PageSize + 1 /\ InOrder(s, p.order)
      /\ \A e \in ToSet(s) :
           /\ e.uuid \in UUIDs /\ rows[e.uuid] # Absent /\ rows[e.uuid].list = p.list
           /\ e = RowOf(e.uuid, rows[e.uuid].value[p.field])
           /\ c # NoToken => orderByClause(c, e, p.order)
      /\ \A u \in UUIDs :
           /\ rows[u] # Absent /\ rows[u].list = p.list
           /\ \/ c = NoToken
              \/ /\ rows[u].value[p.field] # NULL
                 /\ orderByClause(c, RowOf(u, rows[u].value[p.field]), p.order)
           => \/ Shown(u, s)
              \/ /\ Len(s) > PageSize
                 /\ orderByClause(Last(s), RowOf(u, rows[u].value[p.field]), p.order)
  BY <1>0, <1>3, <1>4, PageSelected
<1>6. /\ listing'.at \in {"decide", "load"} /\ (listing'.at = "load" => s # <<>>)
      /\ listing'.batch = s /\ listing'.index = 0
      /\ listing'.params = listing.params /\ listing'.token = listing.token
      /\ listing'.page = listing.page /\ listing'.got = listing.got
      /\ listing'.steady = listing.steady
      /\ listing'.deleted = listing.deleted /\ listing'.reused = listing.reused
      /\ UNCHANGED <<rows, readable, writes>>
  BY <1>0, <1>4 DEF Query, Listings
<1>7. Len(s) \in Nat /\ DOMAIN s = 1 .. Len(s) /\ (s # <<>> => Len(s) > 0)
  BY <1>5
<1>8. InHand' /\ listing' \in Listings
  <2>1. InHand'
    BY <1>6 DEF InHand, Serving
  <2>2. {"decide", "load"} \subseteq Serving /\ 0 \in Nat
    BY DEF Serving
  <2> QED  BY <1>0, <1>4, <1>5, <2>1, <2>2 DEF Listings
<1>9. TypeOK'
  BY <1>0, <1>5, <1>6, <1>7, <1>8 DEF TypeOK
<1>10. Asked' = p
  BY <1>3, <1>6 DEF Asked
<1>11. ShapeInv' /\ TokenNamesShown' /\ SteadyInv'
  BY <1>0, <1>1, <1>6, <1>7, <1>10 DEF Inv, ShapeInv, TokenNamesShown, SteadyInv
<1>12. RowsInv'
  <2> SUFFICES ASSUME ~listing.reused
               PROVE  /\ \A u \in listing.deleted : rows[u] = Absent
                      /\ \A e \in ToSet(listing.page) \cup ToSet(s) :
                           \/ e.uuid \in listing.deleted
                           \/ /\ rows[e.uuid] # Absent /\ rows[e.uuid].list = p.list
                              /\ e = RowOf(e.uuid, rows[e.uuid].value[p.field])
    BY <1>6, <1>10 DEF RowsInv, Listed, EntryOf
  <2> QED  BY <1>0, <1>3, <1>5 DEF Inv, RowsInv, Listed, EntryOf
<1>13. OrderInv'
  <2> SUFFICES ASSUME ~listing.reused PROVE OrderInv'
    BY <1>6 DEF OrderInv
  <2>1. /\ InOrder(listing.got, p.order) /\ InOrder(listing.page, p.order)
        /\ \A e \in ToSet(listing.got), f \in ToSet(listing.page) : orderByClause(e, f, p.order)
        /\ \A e \in Taken : c # NoToken /\ UpTo(e, c, p.order)
    BY <1>0, <1>2, <1>3 DEF Inv, OrderInv
  <2>2. ASSUME NEW e \in Taken, NEW f \in ToSet(s) PROVE orderByClause(e, f, p.order)
    <3>1. e \in Entry /\ f \in Entry /\ c \in Cursors
      <4>1. e \in Entry
        BY <1>0, PartsAre DEF Taken
      <4>2. f \in Entry
        BY <1>5 DEF ToSet
      <4>3. c \in Cursors
        BY <1>3, <2>1
      <4> QED  BY <4>1, <4>2, <4>3
    <3>2. Keyed(e) /\ Keyed(f) /\ Keyed(c)
      BY <3>1, EntriesAreKeyed
    <3>3. UpTo(e, c, p.order) /\ orderByClause(c, f, p.order)
      BY <1>5, <2>1
    <3> QED  BY <3>2, <3>3, OrderIsTransitive
  <2>3. \A j \in DOMAIN s : s[j] \in ToSet(s)
    BY DEF ToSet
  <2>4. s # <<>> => Last(s) \in ToSet(s)
    BY <1>7 DEF Last, ToSet
  <2> QED
    BY <1>5, <1>6, <1>10, <2>1, <2>2, <2>3, <2>4 DEF OrderInv, Taken, UpTo
<1>14. DueInv'
  <2> SUFFICES ASSUME ~listing.reused, NEW u \in Due
               PROVE  \/ Shown(u, listing.got) \/ Shown(u, listing.page)
                      \/ Shown(u, s)
                      \/ Len(s) > PageSize /\ orderByClause(Last(s), EntryOf(u), p.order)
    <3>1. Due' = Due /\ \A u \in Due : EntryOf(u)' = EntryOf(u)
      BY <1>3, <1>6, <1>10 DEF Due, Listed, EntryOf
    <3>2. \A j \in DOMAIN s : j > 0
      BY <1>7
    <3>3. Deciding' /\ Decided' = 0
      BY <1>6 DEF Deciding, Decided
    <3> QED  BY <1>6, <1>10, <3>1, <3>2, <3>3 DEF DueInv, Shown
  <2>1. u \in UUIDs /\ rows[u] # Absent /\ rows[u].list = p.list /\ rows[u].value[p.field] # NULL
        /\ EntryOf(u) = RowOf(u, rows[u].value[p.field])
    BY <1>0, <1>3, PartsAre DEF Due, Listed, EntryOf
  <2>2. \/ Shown(u, listing.got) \/ Shown(u, listing.page)
        \/ c = NoToken \/ orderByClause(c, EntryOf(u), p.order)
    BY <1>0, <1>2, <1>3 DEF Inv, DueInv, Deciding
  <2> QED  BY <1>5, <2>1, <2>2
<1> QED  BY <1>9, <1>11, <1>12, <1>13, <1>14 DEF Inv

\* Without a uuid that was used again, a load finds what the query found.
LEMMA LoadStep ==
    ASSUME Inv, Load
    PROVE  Inv'
<1>0. TypeOK /\ InHand /\ listing \in Listings /\ listing.at = "load"
  BY DEF Inv, TypeOK, Load, InHand, Serving
<1>1. PICK i : i = listing.index + 1
  OBVIOUS
<1>2. PICK b : b = listing.batch
  OBVIOUS
<1>3. PICK u : u = b[i].uuid
  OBVIOUS
<1>4. PICK p : p = listing.params
  OBVIOUS
<1>5. /\ b \in Seq(Entry) /\ Len(b) \in Nat /\ DOMAIN b = 1 .. Len(b) /\ Len(b) <= PageSize + 1
      /\ i \in DOMAIN b /\ i \in Nat /\ b[i] \in Entry /\ u \in UUIDs /\ p \in Params
      /\ Asked = p
  <2>1. /\ b \in Seq(Entry) /\ listing.index \in Nat /\ p \in Params /\ Len(b) <= PageSize + 1
    BY <1>0, <1>2, <1>4, PartsAre
  <2>2. listing.index < Len(b) /\ Asked = p
    BY <1>0, <1>2, <1>4 DEF Inv, ShapeInv
  <2>3. Len(b) \in Nat /\ DOMAIN b = 1 .. Len(b)
    BY <2>1
  <2>4. i \in DOMAIN b /\ i \in Nat
    BY <1>1, <2>1, <2>2, <2>3
  <2>5. b[i] \in Entry
    BY <2>1, <2>4
  <2> QED  BY <1>3, <2>1, <2>2, <2>3, <2>4, <2>5 DEF Entry
<1>6. CASE listing' = Nothing("failed")
  BY <1>0, <1>6, NothingInHand DEF Load
<1>7. CASE listing' # Nothing("failed")
  <2>1. rows[u] # Absent /\ p.field \in DOMAIN rows[u].value
    BY <1>1, <1>2, <1>3, <1>4, <1>7 DEF Load
  <2>2. PICK v : v = rows[u].value[p.field]
    OBVIOUS
  <2>3. PICK a : a = [b EXCEPT ![i] = RowOf(u, v)]
    OBVIOUS
  <2>4. PICK n : n = IF i = Len(b) THEN 0 ELSE i
    OBVIOUS
  <2>5. PICK t : t = IF i = Len(b) THEN "decide" ELSE "load"
    OBVIOUS
  <2>6. listing' = [listing EXCEPT !.batch = a, !.index = n, !.at = t]
    BY <1>0, <1>1, <1>2, <1>3, <1>4, <2>1, <2>2, <2>3, <2>4, <2>5 DEF Load, RowOf, Listings
  <2>7. rows[u] \in Rows /\ v \in NULL .. MaxValue
    <3>1. rows[u] \in Rows
      BY <1>0, <1>5, <2>1 DEF TypeOK
    <3> QED  BY <1>5, <2>1, <2>2, <3>1, RowValue
  <2>8. a \in Seq(Entry) /\ Len(a) = Len(b)
    <3>1. RowOf(u, v) \in Entry
      BY <1>5, <2>7, EntriesAreKeyed
    <3> QED  BY <1>5, <2>3, <3>1
  <2>9. n \in Nat /\ n <= Len(b) /\ t \in {"decide", "load"} /\ (t = "load" => n < Len(b))
        /\ (t = "decide" => n = 0)
    BY <1>5, <2>4, <2>5
  <2>10. /\ listing'.at = t /\ listing'.batch = a /\ listing'.index = n
         /\ listing'.params = listing.params /\ listing'.token = listing.token
         /\ listing'.page = listing.page /\ listing'.got = listing.got
         /\ listing'.steady = listing.steady
         /\ listing'.deleted = listing.deleted /\ listing'.reused = listing.reused
         /\ UNCHANGED <<rows, readable, writes>>
    BY <1>0, <2>6 DEF Load, Listings
  <2>11. InHand' /\ listing' \in Listings
    <3>1. InHand'
      BY <2>9, <2>10 DEF InHand, Serving
    <3>2. t \in Serving
      BY <2>9 DEF Serving
    <3> QED  BY <1>0, <2>6, <2>8, <2>9, <3>1, <3>2 DEF Listings
  <2>12. TypeOK'
    BY <1>0, <1>5, <2>8, <2>9, <2>10, <2>11 DEF TypeOK
  <2>13. Asked' = Asked /\ Deciding' /\ Deciding /\ Decided' = 0 /\ Decided = 0
    BY <1>0, <2>9, <2>10 DEF Asked, Deciding, Decided
  <2>14. ShapeInv' /\ TokenNamesShown' /\ SteadyInv'
    BY <1>0, <1>4, <1>5, <2>8, <2>9, <2>10, <2>13 DEF Inv, ShapeInv, TokenNamesShown, SteadyInv
  <2>15. ~listing.reused => a = b
    <3> SUFFICES ASSUME ~listing.reused PROVE a = b
      OBVIOUS
    <3>1. b[i] \in ToSet(b)
      BY <1>5 DEF ToSet
    <3>2. b[i].uuid \notin listing.deleted
      BY <1>0, <1>3, <2>1 DEF Inv, RowsInv
    <3>3. b[i] = RowOf(u, v)
      BY <1>0, <1>2, <1>3, <1>5, <2>2, <3>1, <3>2 DEF Inv, RowsInv, EntryOf
    <3> QED  BY <1>5, <2>3, <3>3
  <2>16. RowsInv'
    BY <1>0, <1>2, <2>10, <2>13, <2>15 DEF Inv, RowsInv, Listed, EntryOf
  <2>17. OrderInv'
    BY <1>0, <1>2, <2>9, <2>10, <2>13, <2>15 DEF Inv, OrderInv, Taken
  <2>18. DueInv'
    BY <1>0, <1>2, <2>9, <2>10, <2>13, <2>15 DEF Inv, DueInv, Due, Listed, EntryOf
  <2> QED  BY <2>12, <2>14, <2>16, <2>17, <2>18 DEF Inv
<1> QED  BY <1>6, <1>7

LEMMA DecideStep ==
    ASSUME Inv, Decide
    PROVE  Inv'
<1>0. TypeOK /\ InHand /\ listing \in Listings /\ listing.at = "decide"
  BY DEF Inv, TypeOK, Decide, InHand, Serving
<1>1. PICK n : n = listing.index
  OBVIOUS
<1>2. PICK b : b = listing.batch
  OBVIOUS
<1>3. PICK e : e = b[n + 1]
  OBVIOUS
<1>4. PICK g : g = listing.page
  OBVIOUS
<1>5. PICK ok \in BOOLEAN : ok = (listing.params.list \in CollectionLists \/ e.uuid \in readable)
  OBVIOUS
<1>6. PICK h : h = IF ok THEN Append(g, e) ELSE g
  OBVIOUS
<1>7. listing' = [listing EXCEPT !.page = h, !.index = n + 1] /\ n < Len(b)
  BY <1>0, <1>1, <1>2, <1>3, <1>4, <1>5, <1>6 DEF Decide, Listings
<1>8. /\ b \in Seq(Entry) /\ Len(b) \in Nat /\ DOMAIN b = 1 .. Len(b)
      /\ n \in Nat /\ n + 1 \in DOMAIN b /\ n + 1 <= Len(b) /\ e \in Entry /\ g \in Seq(Entry)
  <2>1. b \in Seq(Entry) /\ n \in Nat /\ g \in Seq(Entry)
    BY <1>0, <1>1, <1>2, <1>4, PartsAre
  <2>2. Len(b) \in Nat /\ DOMAIN b = 1 .. Len(b)
    BY <2>1
  <2>3. n + 1 \in DOMAIN b /\ n + 1 <= Len(b)
    BY <1>7, <2>1, <2>2
  <2> QED  BY <1>3, <2>1, <2>2, <2>3
<1>9. /\ listing'.at = "decide" /\ listing'.page = h /\ listing'.index = n + 1
      /\ listing'.params = listing.params /\ listing'.token = listing.token
      /\ listing'.batch = b /\ listing'.got = listing.got
      /\ listing'.steady = listing.steady
      /\ listing'.deleted = listing.deleted /\ listing'.reused = listing.reused
      /\ UNCHANGED <<rows, readable, writes>>
  BY <1>0, <1>2, <1>7 DEF Decide, Listings
<1>10. h \in Seq(Entry) /\ ToSet(h) \subseteq ToSet(g) \cup {e} /\ ToSet(g) \subseteq ToSet(h)
       /\ (ok => e \in ToSet(h))
  <2>1. CASE ~ok
    BY <1>6, <1>8, <2>1
  <2>2. CASE ok
    <3>1. /\ h \in Seq(Entry) /\ Len(h) = Len(g) + 1 /\ Len(g) \in Nat
          /\ DOMAIN h = 1 .. Len(g) + 1 /\ DOMAIN g = 1 .. Len(g)
          /\ h[Len(g) + 1] = e /\ \A k \in 1 .. Len(g) : h[k] = g[k]
      BY <1>6, <1>8, <2>2
    <3>2. \A k \in DOMAIN h : k \in DOMAIN g \/ k = Len(g) + 1
      BY <3>1
    <3>3. DOMAIN g \subseteq DOMAIN h /\ Len(g) + 1 \in DOMAIN h
      BY <3>1
    <3> QED  BY <3>1, <3>2, <3>3 DEF ToSet
  <2> QED  BY <1>5, <2>1, <2>2
<1>11. InHand' /\ listing' \in Listings
  <2>1. InHand' /\ n + 1 \in Nat
    BY <1>8, <1>9 DEF InHand, Serving
  <2> QED  BY <1>0, <1>7, <1>10, <2>1 DEF Listings
<1>12. TypeOK'
  BY <1>0, <1>2, <1>8, <1>9, <1>11 DEF TypeOK
<1>13. Asked' = Asked /\ Deciding' /\ Deciding /\ Decided' = n + 1 /\ Decided = n
  BY <1>0, <1>1, <1>9 DEF Asked, Deciding, Decided
<1>14. ShapeInv' /\ TokenNamesShown' /\ SteadyInv'
  BY <1>0, <1>9, <1>13 DEF Inv, ShapeInv, TokenNamesShown, SteadyInv
<1>15. e \in ToSet(b)
  BY <1>3, <1>8 DEF ToSet
<1>16. RowsInv'
  <2>1. ToSet(h) \cup ToSet(b) \subseteq ToSet(g) \cup ToSet(b)
    BY <1>10, <1>15
  <2> QED  BY <1>0, <1>2, <1>4, <1>9, <1>13, <2>1 DEF Inv, RowsInv, Listed, EntryOf
<1>17. PICK o : o = Asked.order
  OBVIOUS
<1>18. OrderInv'
  <2> SUFFICES ASSUME ~listing.reused PROVE OrderInv'
    BY <1>9 DEF OrderInv
  <2>1. /\ InOrder(listing.got, o) /\ InOrder(g, o) /\ InOrder(b, o)
        /\ \A x \in ToSet(listing.got), y \in ToSet(g) : orderByClause(x, y, o)
        /\ \A x \in ToSet(listing.got) \cup ToSet(g) :
             /\ \A j \in DOMAIN b : j > n => orderByClause(x, b[j], o)
             /\ b # <<>> => UpTo(x, Last(b), o)
    BY <1>0, <1>2, <1>4, <1>13, <1>17 DEF Inv, OrderInv, Taken
  <2>2. \A x \in ToSet(listing.got) \cup ToSet(g) : orderByClause(x, e, o)
    BY <1>3, <1>8, <2>1
  <2>3. InOrder(h, o)
    BY <1>5, <1>6, <1>8, <2>1, <2>2, AppendInOrder
  <2>4. \A x \in ToSet(listing.got), y \in ToSet(h) : orderByClause(x, y, o)
    BY <1>10, <2>1, <2>2
  <2>5. /\ \A j \in DOMAIN b : j > n + 1 => orderByClause(e, b[j], o)
        /\ UpTo(e, Last(b), o)
    <3>1. Len(b) \in DOMAIN b /\ (n + 1 = Len(b) \/ n + 1 < Len(b))
      <4>1. \A k, m \in Nat : m + 1 <= k => k \in 1 .. k /\ (m + 1 = k \/ m + 1 < k)
        OBVIOUS
      <4> QED  BY ONLY <1>8, <4>1
    <3>2. \A j \in DOMAIN b : j > n + 1 => n + 1 < j
      BY <1>8
    <3> QED  BY <1>3, <1>8, <2>1, <3>1, <3>2 DEF InOrder, UpTo, Last
  <2>6. \A j \in DOMAIN b : j > n + 1 => j > n
    BY <1>8
  <2>7. \A x \in ToSet(listing.got) \cup ToSet(h) :
             /\ \A j \in DOMAIN b : j > n + 1 => orderByClause(x, b[j], o)
             /\ b # <<>> => UpTo(x, Last(b), o)
    BY <1>10, <2>1, <2>5, <2>6
  <2> QED  BY <1>9, <1>13, <1>17, <2>1, <2>3, <2>4, <2>7 DEF OrderInv, Taken
<1>19. DueInv'
  <2> SUFFICES ASSUME ~listing.reused, NEW u \in Due
               PROVE  \/ Shown(u, listing.got) \/ Shown(u, h)
                      \/ \E j \in DOMAIN b : j > n + 1 /\ b[j].uuid = u
                      \/ Len(b) > PageSize /\ orderByClause(Last(b), EntryOf(u), o)
    <3>1. Due' = Due /\ \A u \in Due : EntryOf(u)' = EntryOf(u)
      BY <1>9, <1>13 DEF Due, Listed, EntryOf
    <3> QED  BY <1>9, <1>13, <1>17, <3>1 DEF DueInv
  <2>1. \/ Shown(u, listing.got) \/ Shown(u, g)
        \/ \E j \in DOMAIN b : j > n /\ b[j].uuid = u
        \/ Len(b) > PageSize /\ orderByClause(Last(b), EntryOf(u), o)
    BY <1>0, <1>2, <1>4, <1>13, <1>17 DEF Inv, DueInv
  <2>2. Shown(u, g) => Shown(u, h)
    BY <1>10, ShownIs
  <2>3. ASSUME NEW j \in DOMAIN b, j > n, b[j].uuid = u
        PROVE  Shown(u, h) \/ (j > n + 1 /\ b[j].uuid = u)
    <3>1. CASE j > n + 1
      BY <2>3, <3>1
    <3>2. CASE j = n + 1
      <4>1. e.uuid = u
        BY <1>3, <2>3, <3>2
      <4>2. u \in readable
        BY <1>0 DEF Inv, SteadyInv, Due
      <4>3. e \in ToSet(h)
        BY <1>5, <1>10, <4>1, <4>2
      <4> QED  BY <4>1, <4>3, ShownIs
    <3> QED  BY <1>8, <2>3, <3>1, <3>2
  <2> QED  BY <2>1, <2>2, <2>3
<1> QED  BY <1>12, <1>14, <1>16, <1>18, <1>19 DEF Inv

LEMMA NextBatchStep ==
    ASSUME Inv, NextBatch
    PROVE  Inv'
<1>0. /\ TypeOK /\ InHand /\ listing \in Listings /\ listing.at = "decide"
      /\ listing.index = Len(listing.batch) /\ Len(listing.batch) > PageSize
  BY DEF Inv, TypeOK, NextBatch, InHand, Serving
<1>1. PICK b : b = listing.batch
  OBVIOUS
<1>2. PICK c : c = nextPageToken(Last(b), listing.params)
  OBVIOUS
<1>3. listing' = [listing EXCEPT !.at = "query", !.cursor = c]
  BY <1>1, <1>2 DEF NextBatch, ResumeAt
<1>4. /\ b \in Seq(Entry) /\ Len(b) \in Nat /\ DOMAIN b = 1 .. Len(b) /\ Len(b) > 0
      /\ Last(b) \in Entry /\ b # <<>> /\ listing.params \in Params
  <2>1. b \in Seq(Entry) /\ PageSize \in Nat /\ listing.params \in Params
    BY <1>0, <1>1, PartsAre
  <2>2. Len(b) \in Nat /\ DOMAIN b = 1 .. Len(b)
    BY <2>1
  <2>3. Len(b) > 0
    BY <1>0, <1>1, <2>1, <2>2
  <2> QED  BY <2>1, <2>2, <2>3 DEF Last
<1>5. c \in Cursors /\ c # NoToken /\ c.uuid = Last(b).uuid /\ c.value = Last(b).value
  BY <1>2, <1>4, NoTokenIsNoCursor DEF nextPageToken
<1>6. /\ listing'.at = "query" /\ listing'.cursor = c
      /\ listing'.params = listing.params /\ listing'.token = listing.token
      /\ listing'.batch = listing.batch /\ listing'.got = listing.got
      /\ listing'.page = listing.page /\ listing'.index = listing.index
      /\ listing'.steady = listing.steady
      /\ listing'.deleted = listing.deleted /\ listing'.reused = listing.reused
      /\ UNCHANGED <<rows, readable, writes>>
  BY <1>0, <1>3 DEF NextBatch, Listings
<1>7. InHand' /\ listing' \in Listings
  <2>1. InHand' /\ "query" \in Serving
    BY <1>6 DEF InHand, Serving
  <2> QED  BY <1>0, <1>3, <1>5, <2>1 DEF Listings
<1>8. TypeOK'
  BY <1>0, <1>6, <1>7 DEF TypeOK
<1>9. Asked' = Asked /\ Asked = listing.params /\ Deciding /\ ~Deciding' /\ Decided = Len(b)
  BY <1>0, <1>1, <1>6 DEF Asked, Deciding, Decided, Inv, ShapeInv
<1>10. ShapeInv' /\ TokenNamesShown' /\ SteadyInv'
  BY <1>0, <1>6, <1>9 DEF Inv, ShapeInv, TokenNamesShown, SteadyInv
<1>11. RowsInv'
  BY <1>0, <1>6, <1>9 DEF Inv, RowsInv, Listed, EntryOf
\* The cursor has the place of the last row that was read.
<1>12. \A x, o : (UpTo(x, Last(b), o) => UpTo(x, c, o)) /\ (orderByClause(Last(b), x, o) => orderByClause(c, x, o))
  BY <1>5 DEF UpTo, orderByClause
<1>13. OrderInv'
  BY <1>0, <1>1, <1>4, <1>5, <1>6, <1>9, <1>12 DEF Inv, OrderInv, Taken
<1>14. DueInv'
  <2> SUFFICES ASSUME ~listing.reused, NEW u \in Due
               PROVE  \/ Shown(u, listing.got) \/ Shown(u, listing.page)
                      \/ orderByClause(c, EntryOf(u), Asked.order)
    <3>1. Due' = Due /\ \A u \in Due : EntryOf(u)' = EntryOf(u)
      BY <1>6, <1>9 DEF Due, Listed, EntryOf
    <3> QED  BY <1>6, <1>9, <3>1 DEF DueInv
  <2>1. \A j \in DOMAIN b : ~(j > Len(b))
    BY <1>4
  <2>2. \/ Shown(u, listing.got) \/ Shown(u, listing.page)
        \/ orderByClause(Last(b), EntryOf(u), Asked.order)
    BY <1>0, <1>1, <1>9, <2>1 DEF Inv, DueInv
  <2> QED  BY <1>12, <2>2
<1> QED  BY <1>8, <1>10, <1>11, <1>13, <1>14 DEF Inv

\* A page that is not the last one: the token takes the place of its last row.
LEMMA ReplyWithNext ==
    ASSUME Inv, Reply, Len(listing.page) > PageSize
    PROVE  Inv'
<1>0. TypeOK /\ InHand /\ listing \in Listings /\ listing.at = "decide" /\ listing.index = Len(listing.batch)
  BY DEF Inv, TypeOK, Reply, InHand, Serving
<1>1. PICK g : g = listing.got
  OBVIOUS
<1>2. PICK s : s = listing.page
  OBVIOUS
<1>3. PICK f : f = SubSeq(s, 1, PageSize)
  OBVIOUS
<1>4. PICK h : h = g \o f
  OBVIOUS
<1>5. PICK t : t = nextPageToken(s[PageSize], listing.params)
  OBVIOUS
<1>6. PICK b : b = listing.batch
  OBVIOUS
<1>7. listing' = [listing EXCEPT !.at = "sent", !.got = h, !.token = t, !.cursor = NoToken,
                                 !.page = <<>>, !.batch = <<>>, !.index = 0]
  BY <1>0, <1>1, <1>2, <1>3, <1>4, <1>5 DEF Reply, TokenAfter, Listings
<1>8. /\ g \in Seq(Entry) /\ s \in Seq(Entry) /\ b \in Seq(Entry) /\ PageSize \in Nat /\ PageSize > 0
      /\ listing.params \in Params /\ Len(s) \in Nat /\ PageSize <= Len(s) /\ DOMAIN s = 1 .. Len(s)
  <2>1. /\ g \in Seq(Entry) /\ s \in Seq(Entry) /\ b \in Seq(Entry) /\ PageSize \in Nat /\ PageSize > 0
        /\ listing.params \in Params
    BY <1>0, <1>1, <1>2, <1>6, PartsAre
  <2>2. Len(s) \in Nat /\ DOMAIN s = 1 .. Len(s)
    BY <2>1
  <2> QED  BY <1>2, <2>1, <2>2
<1>9. /\ f \in Seq(Entry) /\ s[PageSize] \in Entry /\ s[PageSize] \in ToSet(f) /\ h \in Seq(Entry)
      /\ ToSet(h) = ToSet(g) \cup ToSet(f)
  <2>1. f \in Seq(Entry) /\ Len(f) = PageSize /\ \A i \in 1 .. PageSize : f[i] = s[i]
    BY <1>3, <1>8
  <2>2. PageSize \in DOMAIN f /\ PageSize \in DOMAIN s
    BY <1>8, <2>1
  <2>3. s[PageSize] \in Entry /\ s[PageSize] \in ToSet(f)
    BY <1>8, <2>1, <2>2 DEF ToSet
  <2>4. h \in Seq(Entry) /\ ToSet(h) = ToSet(g) \cup ToSet(f)
    BY <1>4, <1>8, <2>1, ConcatElements
  <2> QED  BY <2>1, <2>3, <2>4
<1>10. t \in Cursors /\ t # NoToken /\ t.uuid = s[PageSize].uuid /\ t.value = s[PageSize].value
       /\ t.params = listing.params
  BY <1>5, <1>8, <1>9, NoTokenIsNoCursor DEF nextPageToken
<1>11. /\ listing'.at = "sent" /\ listing'.got = h /\ listing'.token = t
       /\ listing'.page = <<>> /\ listing'.batch = <<>> /\ listing'.index = 0
       /\ listing'.params = listing.params
       /\ listing'.steady = listing.steady
       /\ listing'.deleted = listing.deleted /\ listing'.reused = listing.reused
       /\ UNCHANGED <<rows, readable, writes>>
  BY <1>0, <1>7 DEF Reply, Listings
<1>12. InHand' /\ listing' \in Listings
  <2>1. InHand' /\ "sent" \in Serving /\ <<>> \in Seq(Entry) /\ 0 \in Nat
    BY <1>11 DEF InHand, Serving
  <2> QED  BY <1>0, <1>7, <1>9, <1>10, <2>1 DEF Listings
<1>13. TypeOK'
  <2>1. Len(listing'.batch) = 0
    BY <1>11
  <2> QED  BY <1>0, <1>8, <1>11, <1>12, <2>1 DEF TypeOK
<1>14. Asked' = Asked /\ Asked = listing.params /\ Deciding /\ ~Deciding' /\ Decided = Len(b)
  BY <1>0, <1>6, <1>10, <1>11 DEF Asked, Deciding, Decided, Inv, ShapeInv
<1>15. ShapeInv' /\ SteadyInv'
  BY <1>0, <1>11, <1>14 DEF Inv, ShapeInv, SteadyInv
<1>16. TokenNamesShown'
  <2>1. s[PageSize] \in ToSet(h) /\ s[PageSize].uuid = t.uuid
    BY <1>9, <1>10
  <2>2. Shown(t.uuid, h)
    BY <2>1, ShownIs
  <2> QED  BY <1>11, <2>2 DEF TokenNamesShown, Shown
<1>17. ToSet(<<>>) = {} /\ Taken' = ToSet(h)
  BY <1>11 DEF ToSet, Taken
<1>18. RowsInv'
  BY <1>0, <1>11, <1>17 DEF Inv, RowsInv
<1>19. PICK o : o = Asked.order
  OBVIOUS
<1>20. ~listing.reused =>
         /\ InOrder(g, o) /\ InOrder(s, o) /\ InOrder(b, o)
         /\ \A x \in ToSet(g), y \in ToSet(s) : orderByClause(x, y, o)
         /\ \A x \in ToSet(g) \cup ToSet(s) : b # <<>> => UpTo(x, Last(b), o)
  BY <1>0, <1>1, <1>2, <1>6, <1>14, <1>19 DEF Inv, OrderInv, Taken
<1>21. ~listing.reused =>
         /\ InOrder(f, o) /\ ToSet(f) \subseteq ToSet(s)
         /\ \A x \in ToSet(f) : UpTo(x, s[PageSize], o)
         /\ \A x \in ToSet(s) : x \in ToSet(f) \/ orderByClause(s[PageSize], x, o)
  BY <1>3, <1>8, <1>20, FrontInOrder
<1>22. \A x : (UpTo(x, s[PageSize], o) => UpTo(x, t, o))
              /\ (orderByClause(s[PageSize], x, o) => orderByClause(t, x, o))
  BY <1>10 DEF UpTo, orderByClause
<1>23. OrderInv'
  <2> SUFFICES ASSUME ~listing.reused PROVE OrderInv'
    BY <1>11 DEF OrderInv
  <2>1. \A x \in ToSet(g), y \in ToSet(f) : orderByClause(x, y, o)
    BY <1>20, <1>21
  <2>2. InOrder(h, o)
    BY <1>4, <1>8, <1>9, <1>20, <1>21, <2>1, ConcatInOrder
  <2>3. \A x \in ToSet(h) : UpTo(x, s[PageSize], o)
    BY <1>9, <1>21, <2>1 DEF UpTo
  <2>4. InOrder(<<>>, o)
    BY DEF InOrder
  <2> QED  BY <1>10, <1>11, <1>14, <1>17, <1>19, <1>22, <2>2, <2>3, <2>4 DEF OrderInv
<1>24. DueInv'
  <2> SUFFICES ASSUME ~listing.reused, NEW u \in Due
               PROVE  Shown(u, h) \/ orderByClause(t, EntryOf(u), o)
    <3>1. Due' = Due /\ \A u \in Due : EntryOf(u)' = EntryOf(u)
      BY <1>11, <1>14 DEF Due, Listed, EntryOf
    <3> QED  BY <1>11, <1>14, <1>19, <3>1 DEF DueInv
  <2>0. DOMAIN b = 1 .. Len(b) /\ Len(b) \in Nat
    BY <1>8
  <2>1. \A j \in DOMAIN b : ~(j > Len(b))
    BY <2>0
  <2>2. \/ Shown(u, g) \/ Shown(u, s)
        \/ Len(b) > PageSize /\ orderByClause(Last(b), EntryOf(u), o)
    BY <1>0, <1>1, <1>2, <1>6, <1>14, <1>19, <2>1 DEF Inv, DueInv
  <2>3. CASE Shown(u, g)
    BY <1>9, <2>3, ShownIs
  <2>4. CASE Shown(u, s)
    <3>1. PICK e \in ToSet(s) : e.uuid = u
      BY <2>4, ShownIs
    <3>2. CASE e \in ToSet(f)
      BY <1>9, <3>1, <3>2, ShownIs
    <3>3. CASE e \notin ToSet(f)
      <4>1. orderByClause(t, e, o)
        BY <1>21, <1>22, <3>3
      <4>2. u \notin listing.deleted
        BY <1>0 DEF Inv, RowsInv, Due, Listed
      <4>3. e = EntryOf(u)
        BY <1>0, <1>2, <3>1, <4>2 DEF Inv, RowsInv
      <4> QED  BY <4>1, <4>3
    <3> QED  BY <3>2, <3>3
  <2>5. CASE Len(b) > PageSize /\ orderByClause(Last(b), EntryOf(u), o)
    <3>1. s[PageSize] \in ToSet(s)
      BY <1>9, <1>21
    <3>2. b # <<>> /\ Last(b) \in Entry
      BY <1>8, <2>0, <2>5 DEF Last
    <3>3. EntryOf(u) \in Entry
      <4>1. Asked \in Params /\ u \in UUIDs /\ rows[u] \in Rows /\ rows[u].list = Asked.list
        BY <1>0, PartsAre DEF TypeOK, Due, Listed
      <4>2. rows[u].value[Asked.field] \in NULL .. MaxValue
        BY <4>1, RowValue
      <4> QED  BY <4>1, <4>2, EntriesAreKeyed DEF EntryOf
    <3>4. UpTo(s[PageSize], Last(b), o)
      BY <1>20, <3>1, <3>2
    <3>5. Keyed(s[PageSize]) /\ Keyed(Last(b)) /\ Keyed(EntryOf(u))
      BY <1>9, <3>2, <3>3, EntriesAreKeyed
    <3>6. PICK x, y, z : x = s[PageSize] /\ y = Last(b) /\ z = EntryOf(u)
      OBVIOUS
    <3>7. orderByClause(x, z, o)
      BY <2>5, <3>4, <3>5, <3>6, OrderIsTransitive
    <3> QED  BY <1>22, <3>6, <3>7
  <2> QED  BY <2>2, <2>3, <2>4, <2>5
<1> QED  BY <1>13, <1>15, <1>16, <1>18, <1>23, <1>24 DEF Inv

\* The last page: everything that is due was delivered.
LEMMA ReplyLast ==
    ASSUME Inv, Reply, ~(Len(listing.page) > PageSize)
    PROVE  Inv'
<1>0. /\ TypeOK /\ InHand /\ listing \in Listings /\ listing.at = "decide"
      /\ listing.index = Len(listing.batch) /\ ~(Len(listing.page) > PageSize)
      /\ Len(listing.batch) <= PageSize
  BY DEF Inv, TypeOK, Reply, InHand, Serving
<1>1. PICK g : g = listing.got
  OBVIOUS
<1>2. PICK s : s = listing.page
  OBVIOUS
<1>3. PICK h : h = g \o s
  OBVIOUS
<1>4. PICK b : b = listing.batch
  OBVIOUS
<1>5. listing' = [listing EXCEPT !.at = "done", !.got = h, !.token = NoToken, !.cursor = NoToken,
                                 !.page = <<>>, !.batch = <<>>, !.index = 0]
  BY <1>0, <1>1, <1>2, <1>3 DEF Reply, Listings
<1>6. /\ g \in Seq(Entry) /\ s \in Seq(Entry) /\ b \in Seq(Entry) /\ PageSize \in Nat
      /\ Len(b) \in Nat /\ DOMAIN b = 1 .. Len(b)
  <2>1. g \in Seq(Entry) /\ s \in Seq(Entry) /\ b \in Seq(Entry) /\ PageSize \in Nat
    BY <1>0, <1>1, <1>2, <1>4, PartsAre
  <2>2. Len(b) \in Nat /\ DOMAIN b = 1 .. Len(b)
    BY <2>1
  <2> QED  BY <2>1, <2>2
<1>7. h \in Seq(Entry) /\ ToSet(h) = ToSet(g) \cup ToSet(s)
  BY <1>3, <1>6, ConcatElements
<1>8. /\ listing'.at = "done" /\ listing'.got = h /\ listing'.token = NoToken
      /\ listing'.page = <<>> /\ listing'.batch = <<>> /\ listing'.index = 0
      /\ listing'.params = listing.params
      /\ listing'.steady = listing.steady
      /\ listing'.deleted = listing.deleted /\ listing'.reused = listing.reused
      /\ UNCHANGED <<rows, readable, writes>>
  BY <1>0, <1>5 DEF Reply, Listings
<1>9. InHand' /\ listing' \in Listings
  <2>1. InHand' /\ "done" \in Serving \cup {"done"} /\ <<>> \in Seq(Entry) /\ 0 \in Nat
        /\ NoToken \in Cursors \cup {NoToken}
    BY <1>8 DEF InHand, Serving
  <2> QED  BY <1>0, <1>5, <1>7, <2>1 DEF Listings
<1>10. TypeOK'
  <2>1. Len(listing'.batch) = 0
    BY <1>8
  <2> QED  BY <1>0, <1>6, <1>8, <1>9, <2>1 DEF TypeOK
<1>11. Asked' = Asked /\ Deciding /\ ~Deciding' /\ Decided = Len(b)
  BY <1>0, <1>4, <1>8 DEF Asked, Deciding, Decided, Inv, ShapeInv
<1>12. ShapeInv' /\ SteadyInv' /\ TokenNamesShown'
  BY <1>0, <1>8, <1>11 DEF Inv, ShapeInv, SteadyInv, TokenNamesShown
<1>13. ToSet(<<>>) = {}
  BY DEF ToSet
<1>14. RowsInv'
  BY <1>0, <1>8, <1>13 DEF Inv, RowsInv
<1>15. PICK o : o = Asked.order
  OBVIOUS
<1>16. OrderInv'
  <2> SUFFICES ASSUME ~listing.reused PROVE OrderInv'
    BY <1>8 DEF OrderInv
  <2>1. /\ InOrder(g, o) /\ InOrder(s, o)
        /\ \A x \in ToSet(g), y \in ToSet(s) : orderByClause(x, y, o)
    BY <1>0, <1>1, <1>2, <1>15 DEF Inv, OrderInv
  <2>2. InOrder(h, o)
    BY <1>3, <1>6, <2>1, ConcatInOrder
  <2>3. InOrder(<<>>, o)
    BY DEF InOrder
  <2> QED  BY <1>8, <1>11, <1>13, <1>15, <2>2, <2>3 DEF OrderInv
<1>17. DueInv'
  <2> SUFFICES ASSUME ~listing.reused, NEW u \in Due PROVE Shown(u, h)
    <3>1. Due' = Due
      BY <1>8, <1>11 DEF Due, Listed
    <3> QED  BY <1>8, <3>1 DEF DueInv
  <2>1. \A j \in DOMAIN b : ~(j > Len(b))
    BY <1>6
  <2>2. ~(Len(b) > PageSize)
    BY <1>0, <1>4, <1>6
  <2>3. Shown(u, g) \/ Shown(u, s)
    BY <1>0, <1>1, <1>2, <1>4, <1>11, <2>1, <2>2 DEF Inv, DueInv
  <2> QED  BY <1>7, <2>3, ShownIs
<1> QED  BY <1>10, <1>12, <1>14, <1>16, <1>17 DEF Inv

-----------------------------------------------------------------------------
(* The steps of the writers.                                               *)

\* What a writer does to a listing in hand, if anything: the history grows.
Watched(S, D, R) ==
    IF InHand THEN /\ listing' \in Listings
                   /\ listing'.at = listing.at /\ listing'.params = listing.params
                   /\ listing'.token = listing.token /\ listing'.cursor = listing.cursor
                   /\ listing'.batch = listing.batch /\ listing'.index = listing.index
                   /\ listing'.page = listing.page /\ listing'.got = listing.got
                   /\ listing'.steady = S /\ listing'.deleted = D /\ listing'.reused = R
              ELSE listing' = listing

\* A listing in hand keeps its invariant while the rows it knows of stay as
\* they are, or are deleted.
LEMMA WriteStep ==
    ASSUME Inv, NEW S \in SUBSET UUIDs, NEW D \in SUBSET UUIDs, NEW R \in BOOLEAN, Watched(S, D, R),
           rows' \in [UUIDs -> Rows \cup {Absent}],
           readable' \subseteq UUIDs \cup CollectionLists, writes' \in 0 .. MaxWrites,
           InHand => /\ S \subseteq listing.steady /\ S \subseteq readable'
                     /\ \A u \in S : rows'[u] = rows[u]
                     /\ listing.deleted \subseteq D /\ (listing.reused => R)
                     /\ ~R => /\ \A u \in UUIDs : rows[u] # Absent /\ u \notin D => rows'[u] = rows[u]
                              /\ \A u \in D : rows'[u] = Absent
    PROVE  Inv'
<1>1. CASE ~InHand
  <2>1. listing' = listing /\ ~InHand'
    BY <1>1 DEF Watched, InHand
  <2>2. TypeOK'
    BY <1>1, <2>1 DEF Inv, TypeOK
  <2> QED
    BY <2>1, <2>2 DEF Inv, ShapeInv, SteadyInv, RowsInv, OrderInv, DueInv, TokenNamesShown
<1>2. CASE InHand
  <2>0. TypeOK
    BY DEF Inv
  <2>1. /\ listing' \in Listings
        /\ listing'.at = listing.at /\ listing'.params = listing.params
        /\ listing'.token = listing.token /\ listing'.cursor = listing.cursor
        /\ listing'.batch = listing.batch /\ listing'.index = listing.index
        /\ listing'.page = listing.page /\ listing'.got = listing.got
        /\ listing'.steady = S /\ listing'.deleted = D /\ listing'.reused = R
    BY <1>2 DEF Watched
  <2>2. InHand' /\ TypeOK'
    BY <1>2, <2>0, <2>1 DEF TypeOK, InHand
  <2>3. Asked' = Asked /\ Deciding' = Deciding /\ Decided' = Decided /\ Taken' = Taken
    BY <2>1 DEF Asked, Deciding, Decided, Taken
  <2>4. ShapeInv' /\ TokenNamesShown'
    BY <1>2, <2>1, <2>3 DEF Inv, ShapeInv, TokenNamesShown
  <2>5. SteadyInv'
    BY <1>2, <2>1 DEF Inv, SteadyInv
  <2>6. OrderInv'
    BY <1>2, <2>1, <2>3 DEF Inv, OrderInv
  <2>7. RowsInv'
    <3> SUFFICES ASSUME ~R, NEW e \in ToSet(listing.page) \cup ToSet(listing.batch), e.uuid \notin D
                 PROVE  rows'[e.uuid] = rows[e.uuid] /\ Listed(e.uuid) /\ e = EntryOf(e.uuid)
      BY <1>2, <2>1, <2>3 DEF RowsInv, Listed, EntryOf
    <3>1. e \in Entry
      BY <1>2, <2>0, PartsAre
    <3>2. e.uuid \in UUIDs
      BY <3>1 DEF Entry
    <3>3. Listed(e.uuid) /\ e = EntryOf(e.uuid)
      BY <1>2 DEF Inv, RowsInv
    <3> QED  BY <1>2, <3>2, <3>3 DEF Listed
  <2>8. DueInv'
    <3> SUFFICES ASSUME ~R PROVE DueInv'
      BY <2>1 DEF DueInv
    <3>1. Due' \subseteq Due /\ \A u \in Due' : EntryOf(u)' = EntryOf(u)
      BY <1>2, <2>1, <2>3 DEF Due, Listed, EntryOf
    <3> QED  BY <1>2, <2>1, <2>3, <3>1 DEF Inv, DueInv
  <2> QED  BY <2>2, <2>4, <2>5, <2>6, <2>7, <2>8 DEF Inv
<1> QED  BY <1>1, <1>2

LEMMA InsertStep ==
    ASSUME Inv, NEW u \in UUIDs, NEW r \in Rows, Insert(u, r)
    PROVE  Inv'
<1>0. /\ TypeOK /\ rows[u] = Absent /\ rows' = [rows EXCEPT ![u] = r] /\ readable' = readable
      /\ rows \in [UUIDs -> Rows \cup {Absent}]
  BY DEF Inv, TypeOK, Insert
<1>1. PICK S : S = IF InHand THEN listing.steady ELSE {}
  OBVIOUS
<1>2. PICK D : D = IF InHand THEN listing.deleted ELSE {}
  OBVIOUS
<1>3. PICK R \in BOOLEAN : InHand => R = (listing.reused \/ u \in listing.deleted)
  OBVIOUS
<1>4. S \in SUBSET UUIDs /\ D \in SUBSET UUIDs
  BY <1>0, <1>1, <1>2, PartsAre
<1>5. Watched(S, D, R)
  <2>1. CASE InHand
    <3>1. listing \in Listings /\ listing.reused \in BOOLEAN
      BY <1>0, <2>1, PartsAre
    <3>2. listing' = [listing EXCEPT !.reused = R]
      BY <1>3, <2>1, <3>1 DEF Insert, Listings
    <3> QED  BY <1>1, <1>2, <2>1, <3>1, <3>2 DEF Watched, Listings
  <2>2. CASE ~InHand
    BY <2>2 DEF Insert, Watched
  <2> QED  BY <2>1, <2>2
<1>6. writes' \in 0 .. MaxWrites
  BY <1>0, ListingAssumption DEF TypeOK, Insert
<1>7. rows' \in [UUIDs -> Rows \cup {Absent}] /\ \A w \in UUIDs \ {u} : rows'[w] = rows[w]
  BY <1>0
<1>8. InHand => u \notin S /\ S \subseteq readable
  BY <1>0, <1>1 DEF Inv, SteadyInv
<1>9. InHand /\ ~R => u \notin D /\ ~listing.reused /\ \A w \in D : rows[w] = Absent
  BY <1>2, <1>3 DEF Inv, RowsInv
<1>10. readable' \subseteq UUIDs \cup CollectionLists
  BY <1>0 DEF TypeOK
<1>11. InHand => /\ S \subseteq listing.steady /\ S \subseteq readable'
                 /\ \A w \in S : rows'[w] = rows[w]
                 /\ listing.deleted \subseteq D /\ (listing.reused => R)
                 /\ ~R => /\ \A w \in UUIDs : rows[w] # Absent /\ w \notin D => rows'[w] = rows[w]
                          /\ \A w \in D : rows'[w] = Absent
  BY <1>0, <1>1, <1>2, <1>3, <1>4, <1>7, <1>8, <1>9
<1> QED  BY <1>4, <1>5, <1>6, <1>7, <1>10, <1>11, WriteStep

LEMMA DeleteStep ==
    ASSUME Inv, NEW u \in UUIDs, Delete(u)
    PROVE  Inv'
<1>0. /\ TypeOK /\ rows' = [rows EXCEPT ![u] = Absent] /\ readable' = readable
      /\ rows \in [UUIDs -> Rows \cup {Absent}]
  BY DEF Inv, TypeOK, Delete
<1>1. PICK S : S = IF InHand THEN listing.steady \ {u} ELSE {}
  OBVIOUS
<1>2. PICK D : D = IF InHand THEN listing.deleted \cup {u} ELSE {}
  OBVIOUS
<1>3. PICK R \in BOOLEAN : InHand => R = listing.reused
  BY <1>0, PartsAre
<1>4. S \in SUBSET UUIDs /\ D \in SUBSET UUIDs
  BY <1>0, <1>1, <1>2, PartsAre
<1>5. Watched(S, D, R)
  <2>1. CASE InHand
    <3>1. listing \in Listings
      BY <1>0, <2>1, PartsAre
    <3>2. listing' = [listing EXCEPT !.steady = S, !.deleted = D]
      BY <1>1, <1>2, <2>1, <3>1 DEF Delete, Listings
    <3> QED  BY <1>3, <1>4, <2>1, <3>1, <3>2 DEF Watched, Listings
  <2>2. CASE ~InHand
    BY <2>2 DEF Delete, Watched
  <2> QED  BY <2>1, <2>2
<1>6. writes' \in 0 .. MaxWrites
  BY <1>0, ListingAssumption DEF TypeOK, Delete
<1>7. rows' \in [UUIDs -> Rows \cup {Absent}] /\ rows'[u] = Absent /\ \A w \in UUIDs \ {u} : rows'[w] = rows[w]
  BY <1>0
<1>8. InHand => S \subseteq readable
  BY <1>0, <1>1 DEF Inv, SteadyInv
<1>9. InHand /\ ~R => \A w \in D \ {u} : rows[w] = Absent
  BY <1>2, <1>3 DEF Inv, RowsInv
<1>10. readable' \subseteq UUIDs \cup CollectionLists
  BY <1>0 DEF TypeOK
<1>11. InHand => /\ S \subseteq listing.steady /\ S \subseteq readable'
                 /\ \A w \in S : rows'[w] = rows[w]
                 /\ listing.deleted \subseteq D /\ (listing.reused => R)
                 /\ ~R => /\ \A w \in UUIDs : rows[w] # Absent /\ w \notin D => rows'[w] = rows[w]
                          /\ \A w \in D : rows'[w] = Absent
  BY <1>0, <1>1, <1>2, <1>3, <1>4, <1>7, <1>8, <1>9
<1> QED  BY <1>4, <1>5, <1>6, <1>7, <1>10, <1>11, WriteStep

LEMMA EntitlementSteps ==
    ASSUME Inv, NEW x \in UUIDs \cup CollectionLists, Entitle(x) \/ Revoke(x)
    PROVE  Inv'
<1>0. TypeOK /\ rows' = rows /\ rows \in [UUIDs -> Rows \cup {Absent}]
  BY DEF Inv, TypeOK, Entitle, Revoke
<1>1. PICK S : S = IF ~InHand THEN {} ELSE IF Entitle(x) THEN listing.steady ELSE listing.steady \ {x}
  OBVIOUS
<1>2. PICK D : D = IF InHand THEN listing.deleted ELSE {}
  OBVIOUS
<1>3. PICK R \in BOOLEAN : InHand => R = listing.reused
  BY <1>0, PartsAre
<1>4. S \in SUBSET UUIDs /\ D \in SUBSET UUIDs
  BY <1>0, <1>1, <1>2, PartsAre
<1>5. Watched(S, D, R)
  <2>1. CASE InHand
    <3>1. listing \in Listings
      BY <1>0, <2>1, PartsAre
    <3>2. CASE Entitle(x)
      <4>1. listing' = listing
        BY <3>2 DEF Entitle
      <4> QED  BY <1>1, <1>2, <1>3, <2>1, <3>1, <3>2, <4>1 DEF Watched
    <3>3. CASE ~Entitle(x)
      <4>1. listing' = [listing EXCEPT !.steady = S]
        BY <1>1, <2>1, <3>1, <3>3 DEF Revoke, Listings
      <4> QED  BY <1>2, <1>3, <1>4, <2>1, <3>1, <4>1 DEF Watched, Listings
    <3> QED  BY <3>2, <3>3
  <2>2. CASE ~InHand
    BY <2>2 DEF Entitle, Revoke, Watched
  <2> QED  BY <2>1, <2>2
<1>6. writes' \in 0 .. MaxWrites
  BY <1>0, ListingAssumption DEF TypeOK, Entitle, Revoke
<1>7. InHand => S \subseteq readable'
  BY <1>0, <1>1 DEF Inv, SteadyInv, Entitle, Revoke
<1>8. InHand /\ ~R => \A w \in D : rows[w] = Absent
  BY <1>2, <1>3 DEF Inv, RowsInv
<1>9. readable' \subseteq UUIDs \cup CollectionLists
  BY <1>0 DEF TypeOK, Entitle, Revoke
<1>10. InHand => /\ S \subseteq listing.steady /\ S \subseteq readable'
                 /\ \A w \in S : rows'[w] = rows[w]
                 /\ listing.deleted \subseteq D /\ (listing.reused => R)
                 /\ ~R => /\ \A w \in UUIDs : rows[w] # Absent /\ w \notin D => rows'[w] = rows[w]
                          /\ \A w \in D : rows'[w] = Absent
  BY <1>0, <1>1, <1>2, <1>3, <1>7, <1>8
<1> QED  BY <1>0, <1>4, <1>5, <1>6, <1>9, <1>10, WriteStep

-----------------------------------------------------------------------------
(* The theorems.                                                           *)

LEMMA InvHolds == Spec => []Inv
<1>1. Init => Inv
  <2> SUFFICES ASSUME Init PROVE Inv
    OBVIOUS
  <2>1. ~InHand /\ listing = Nothing("idle")
    BY DEF Init, InHand, Nothing, Serving
  <2>2. TypeOK
    <3>1. rows \in [UUIDs -> Rows \cup {Absent}]
      BY CatalogueAssumption DEF Init, Storable
    <3>2. writes \in 0 .. MaxWrites
      BY ListingAssumption DEF Init
    <3> QED  BY <2>1, <3>1, <3>2 DEF Init, TypeOK
  <2> QED
    BY <2>1, <2>2 DEF Inv, ShapeInv, SteadyInv, RowsInv, OrderInv, DueInv, TokenNamesShown
<1>2. Inv /\ [Next]_vars => Inv'
  <2> SUFFICES ASSUME Inv, [Next]_vars PROVE Inv'
    OBVIOUS
  <2>1. CASE Parse
    BY <2>1, ParseStep
  <2>2. CASE Query
    BY <2>2, QueryStep
  <2>3. CASE Load
    BY <2>3, LoadStep
  <2>4. CASE Decide
    BY <2>4, DecideStep
  <2>5. CASE NextBatch
    BY <2>5, NextBatchStep
  <2>6. CASE Reply
    BY <2>6, ReplyWithNext, ReplyLast
  <2>7. CASE \E p \in Queries : ListAll(p)
    BY <2>7, ListAllStep
  <2>8. CASE \E p \in Queries : SwitchParams(p)
    BY <2>8, SwitchParamsStep
  <2>9. CASE ConnectionFails
    BY <2>9, NothingInHand DEF ConnectionFails, Inv
  <2>10. CASE \E u \in UUIDs : Delete(u)
    BY <2>10, DeleteStep
  <2>11. CASE \E u \in UUIDs : \E r \in Rows : Insert(u, r)
    BY <2>11, InsertStep
  <2>12. CASE \E x \in UUIDs \cup CollectionLists : Entitle(x) \/ Revoke(x)
    BY <2>12, EntitlementSteps
  <2>13. CASE UNCHANGED vars
    BY <2>13 DEF vars, Inv, TypeOK, InHand, ShapeInv, SteadyInv, TokenNamesShown, RowsInv, OrderInv,
                 DueInv, Asked, Deciding, Decided, Taken, Due, Listed, EntryOf
  <2> QED
    BY <2>1, <2>2, <2>3, <2>4, <2>5, <2>6, <2>7, <2>8, <2>9, <2>10, <2>11, <2>12, <2>13
       DEF Next, Serve, Client, Write
<1> QED  BY <1>1, <1>2, PTL DEF Spec

(***************************************************************************)
(* The whole inductive invariant: rows taken for the client are in order,  *)
(* before the batch or the cursor with which filterAuthorized goes on, and *)
(* every row that is due was taken or comes after that point.              *)
(***************************************************************************)
THEOREM ListingInvariant == Spec => []Inv
BY InvHolds

(***************************************************************************)
(* No gaps: for any page size, any number of rows and writers around it, a *)
(* listing read to its end holds every row that was there and readable all *)
(* along (filterAuthorized: "no gaps").                                    *)
(***************************************************************************)
THEOREM NoGapsHolds == Spec => []NoGaps
<1>1. Inv => NoGaps
  <2> SUFFICES ASSUME Inv, listing.at = "done", ~listing.reused,
                      NEW u \in listing.steady \cap Present, rows[u].list = listing.params.list,
                      rows[u].value[listing.params.field] # NULL
               PROVE  \E i \in DOMAIN listing.got : listing.got[i].uuid = u
    BY DEF NoGaps
  <2>1. InHand /\ Asked = listing.params /\ listing.page = <<>> /\ ~Deciding
    BY DEF InHand, Inv, ShapeInv, Asked, Deciding
  <2>2. u \in Due
    BY <2>1 DEF Due, Listed, Present
  <2>3. ~Shown(u, <<>>)
    BY DEF Shown
  <2>4. Shown(u, listing.got)
    BY <2>1, <2>2, <2>3 DEF Inv, DueInv
  <2> QED  BY <2>4 DEF Shown
<1> QED  BY <1>1, InvHolds, PTL

(***************************************************************************)
(* No repeats: across pages and batches the rows come strictly in the      *)
(* order of orderByClause, so none comes twice.                            *)
(***************************************************************************)
THEOREM DeliveredInOrderHolds == Spec => []DeliveredInOrder
<1>1. Inv => DeliveredInOrder
  <2> SUFFICES ASSUME Inv, InHand, listing.at # "sent", ~listing.reused,
                      NEW i \in 1 .. Len(listing.got) - 1
               PROVE  orderByClause(listing.got[i], listing.got[i + 1], listing.params.order)
    BY DEF DeliveredInOrder
  <2>1. Asked = listing.params
    BY DEF InHand, Serving, Inv, ShapeInv, Asked
  <2>2. InOrder(listing.got, listing.params.order)
    BY <2>1 DEF Inv, OrderInv
  <2>3. listing.got \in Seq(Entry)
    BY PartsAre DEF Inv
  <2>4. i \in DOMAIN listing.got /\ i + 1 \in DOMAIN listing.got /\ i < i + 1
    BY <2>3
  <2> QED  BY <2>2, <2>4 DEF InOrder
<1> QED  BY <1>1, InvHolds, PTL

(***************************************************************************)
(* No leaks: a page token (nextPageToken) names a row the caller was       *)
(* shown, never one that the filter withheld.                              *)
(***************************************************************************)
THEOREM TokenNamesShownHolds == Spec => []TokenNamesShown
<1>1. Inv => TokenNamesShown
  BY DEF Inv
<1> QED  BY <1>1, InvHolds, PTL

-----------------------------------------------------------------------------
(* Induction over the natural numbers, for sets.                           *)

LEMMA LeastNatural ==
    ASSUME NEW T \in SUBSET Nat, T # {}
    PROVE  \E n \in T : \A m \in T : n <= m
<1>1. PICK n \in T : \A m \in T : <<m, n>> \notin {p \in Nat \X Nat : p[1] < p[2]}
  BY NatLessThanWellFounded, WFMin DEF OpToRel
<1>2. ASSUME NEW m \in T PROVE n <= m
  <2>1. m \in Nat /\ n \in Nat
    OBVIOUS
  <2>2. ~(m < n)
    BY <1>1, <2>1
  <2> QED  BY <2>1, <2>2
<1> QED  BY <1>2

LEMMA NaturalsByInduction ==
    ASSUME NEW S, 0 \in S, \A n \in Nat : n \in S => n + 1 \in S
    PROVE  Nat \subseteq S
<1>1. SUFFICES ASSUME Nat \ S # {} PROVE FALSE
  OBVIOUS
<1>2. PICK n \in Nat \ S : \A m \in Nat \ S : n <= m
  BY <1>1, LeastNatural
<1>3. n # 0 /\ n - 1 \in Nat
  BY <1>2
<1>4. n - 1 \in S
  BY <1>2, <1>3
<1> QED  BY <1>2, <1>3, <1>4

-----------------------------------------------------------------------------
(* A page query has a result, and only one.                                *)

LEMMA OrderIsTotal ==
    ASSUME NEW a \in Entry, NEW b \in Entry, NEW o
    PROVE  /\ ~orderByClause(a, a, o)
           /\ a # b => orderByClause(a, b, o) \/ orderByClause(b, a, o)
           /\ ~(orderByClause(a, b, o) /\ orderByClause(b, a, o))
<1>1. Keyed(a) /\ Keyed(b) /\ a = RowOf(a.uuid, a.value) /\ b = RowOf(b.uuid, b.value)
  BY EntriesAreKeyed
<1>2. a # b => a.uuid # b.uuid \/ a.value # b.value
  BY <1>1, Zenon
<1> QED  BY <1>1, <1>2 DEF Keyed, orderByClause

\* Of finitely many rows one is the first.
LEMMA FirstRow ==
    ASSUME NEW T \in SUBSET Entry, IsFiniteSet(T), T # {}, NEW o
    PROVE  \E e \in T : \A f \in T \ {e} : orderByClause(e, f, o)
<1> DEFINE Has(S) == \E e \in S : \A f \in S \ {e} : orderByClause(e, f, o)
           G == {n \in Nat : \A S \in SUBSET Entry :
                    IsFiniteSet(S) /\ Cardinality(S) = n + 1 => Has(S)}
<1>1. 0 \in G
  <2> SUFFICES ASSUME NEW S \in SUBSET Entry, IsFiniteSet(S), Cardinality(S) = 1 PROVE Has(S)
    OBVIOUS
  <2>1. PICK e : S = {e}
    BY FS_Singleton
  <2> QED  BY <2>1
<1>2. ASSUME NEW n \in Nat, n \in G PROVE n + 1 \in G
  <2> SUFFICES ASSUME NEW S \in SUBSET Entry, IsFiniteSet(S), Cardinality(S) = n + 1 + 1
               PROVE  Has(S)
    OBVIOUS
  <2>1. PICK x : x \in S
    <3>1. S # {}
      BY FS_EmptySet
    <3> QED  BY <3>1
  <2>2. S \ {x} \in SUBSET Entry /\ IsFiniteSet(S \ {x}) /\ Cardinality(S \ {x}) = n + 1
    <3>1. IsFiniteSet(S \ {x}) /\ Cardinality(S \ {x}) = Cardinality(S) - 1
      BY <2>1, FS_RemoveElement
    <3> QED  BY <3>1
  <2>3. Has(S \ {x})
    BY <1>2, <2>2
  <2>4. PICK e \in S \ {x} : \A f \in (S \ {x}) \ {e} : orderByClause(e, f, o)
    BY <2>3
  <2>5. /\ orderByClause(e, x, o) \/ orderByClause(x, e, o)
        /\ \A f \in S : orderByClause(x, e, o) /\ orderByClause(e, f, o) => orderByClause(x, f, o)
    BY <2>1, <2>4, OrderIsTotal, OrderIsTransitive, EntriesAreKeyed
  <2>6. CASE orderByClause(e, x, o)
    <3>1. \A f \in S \ {e} : orderByClause(e, f, o)
      BY <2>4, <2>6
    <3> QED  BY <3>1
  <2>7. CASE orderByClause(x, e, o)
    <3>1. \A f \in S \ {x} : orderByClause(x, f, o)
      BY <2>4, <2>5, <2>7
    <3> QED  BY <2>1, <3>1
  <2> QED  BY <2>5, <2>6, <2>7
<1> HIDE DEF G
<1>3. Nat \subseteq G
  BY <1>1, <1>2, NaturalsByInduction
<1>4. Cardinality(T) \in Nat /\ Cardinality(T) # 0
  BY FS_CardinalityType, FS_EmptySet
<1>5. Cardinality(T) - 1 \in Nat /\ Cardinality(T) = Cardinality(T) - 1 + 1
  BY <1>4
<1> QED  BY <1>3, <1>5 DEF G

\* What Limited says of a sequence of rows.
Page(s, E, o, limit) ==
    /\ Len(s) \in 0 .. limit /\ s \in [1 .. Len(s) -> E]
    /\ \A i, j \in 1 .. Len(s) : i < j => orderByClause(s[i], s[j], o)
    /\ \A e \in E : \/ \E i \in 1 .. Len(s) : s[i] = e
                    \/ Len(s) = limit /\ \A i \in 1 .. Len(s) : orderByClause(s[i], e, o)

LEMMA LimitedIsPage ==
    ASSUME NEW E, NEW o, NEW limit \in Nat, NEW s
    PROVE  s \in Limited(E, o, limit) <=> Page(s, E, o, limit)
<1>1. ASSUME NEW n \in Nat, s \in [1 .. n -> E] PROVE Len(s) = n /\ DOMAIN s = 1 .. n
  BY <1>1
<1>2. ASSUME s \in Limited(E, o, limit) PROVE Page(s, E, o, limit)
  <2>1. PICK n \in 0 .. limit : s \in [1 .. n -> E]
    BY <1>2 DEF Limited
  <2>2. Len(s) = n /\ DOMAIN s = 1 .. n
    BY <1>1, <2>1
  <2>3. \A i, j \in DOMAIN s : i < j => orderByClause(s[i], s[j], o)
    BY <1>2 DEF Limited
  <2>4. \A e \in E : \/ \E i \in DOMAIN s : s[i] = e
                     \/ Len(s) = limit /\ \A i \in DOMAIN s : orderByClause(s[i], e, o)
    BY <1>2 DEF Limited, ToSet
  <2> QED  BY <2>1, <2>2, <2>3, <2>4 DEF Page
<1>3. ASSUME Page(s, E, o, limit) PROVE s \in Limited(E, o, limit)
  <2>1. PICK n \in 0 .. limit : n = Len(s) /\ s \in [1 .. n -> E]
    BY <1>3 DEF Page
  <2>2. DOMAIN s = 1 .. Len(s)
    BY <2>1
  <2>3. s \in UNION {[1 .. m -> E] : m \in 0 .. limit}
    BY <2>1
  <2>4. \A i, j \in DOMAIN s : i < j => orderByClause(s[i], s[j], o)
    BY <1>3, <2>2 DEF Page
  <2>5. \A e \in E \ ToSet(s) : Len(s) = limit /\ \A i \in DOMAIN s : orderByClause(s[i], e, o)
    BY <1>3, <2>2 DEF Page, ToSet
  <2> QED  BY <2>3, <2>4, <2>5 DEF Limited
<1> QED  BY <1>2, <1>3

LEMMA PageShape ==
    ASSUME NEW E, NEW o, NEW limit \in Nat, NEW s, Page(s, E, o, limit)
    PROVE  Len(s) \in Nat /\ Len(s) <= limit /\ s \in [1 .. Len(s) -> E]
<1>1. Len(s) \in 0 .. limit /\ s \in [1 .. Len(s) -> E]
  BY Zenon DEF Page
<1>2. \A n \in 0 .. limit : n \in Nat /\ n <= limit
  OBVIOUS
<1> QED  BY <1>1, <1>2, Zenon

LEMMA SomePage ==
    ASSUME NEW E \in SUBSET Entry, IsFiniteSet(E), NEW o, NEW limit \in Nat
    PROVE  \E s : Page(s, E, o, limit)
<1> DEFINE G == {n \in Nat : \E s : Page(s, E, o, n)}
<1>1. 0 \in G
  <2>1. Page(<<>>, E, o, 0)
    BY DEF Page
  <2> QED  BY <2>1
<1>2. ASSUME NEW n \in Nat, n \in G PROVE n + 1 \in G
  <2>1. PICK s : Page(s, E, o, n)
    BY <1>2
  <2>2. Len(s) \in Nat /\ Len(s) <= n /\ s \in [1 .. Len(s) -> E]
    BY <2>1, PageShape
  <2> DEFINE Rest == {e \in E : ~\E i \in 1 .. Len(s) : s[i] = e}
  <2>3. CASE Rest = {}
    <3>1. \A k \in Nat : k <= n => k \in 0 .. n + 1
      OBVIOUS
    <3>2. Len(s) \in 0 .. n + 1
      BY <2>2, <3>1, Zenon
    <3>3. \A e \in E : \E i \in 1 .. Len(s) : s[i] = e
      BY <2>3
    <3>4. \A i, j \in 1 .. Len(s) : i < j => orderByClause(s[i], s[j], o)
      BY <2>1, Zenon DEF Page
    <3>5. Page(s, E, o, n + 1)
      BY <2>2, <3>2, <3>3, <3>4, Zenon DEF Page
    <3> QED  BY <3>5
  <2>4. CASE Rest # {}
    <3>1. IsFiniteSet(Rest) /\ Rest \in SUBSET Entry
      BY FS_Subset
    <3>2. PICK m \in Rest : \A f \in Rest \ {m} : orderByClause(m, f, o)
      <4> HIDE DEF Rest
      <4> QED  BY <2>4, <3>1, FirstRow
    <3>3. Len(s) = n /\ \A e \in Rest : \A i \in 1 .. n : orderByClause(s[i], e, o)
      BY <2>1, <3>2 DEF Page
    <3>4. m \in E /\ \A e \in E : e \in Rest \/ \E i \in 1 .. n : s[i] = e
      BY <3>2, <3>3
    <3> HIDE DEF Rest
    <3> DEFINE t == [i \in 1 .. n + 1 |-> IF i = n + 1 THEN m ELSE s[i]]
    <3>5. /\ t \in [1 .. n + 1 -> E] /\ t[n + 1] = m /\ \A i \in 1 .. n : t[i] = s[i]
          /\ Len(t) = n + 1
      <4>1. \A i \in 1 .. n + 1 : i = n + 1 \/ i \in 1 .. n
        OBVIOUS
      <4>2. \A i \in 1 .. n : i \in 1 .. n + 1 /\ i # n + 1 /\ s[i] \in E
        BY <2>2, <3>3
      <4>3. t \in [1 .. n + 1 -> E]
        BY <3>4, <4>1, <4>2
      <4>4. t[n + 1] = m /\ \A i \in 1 .. n : t[i] = s[i]
        BY <4>2
      <4> HIDE DEF t
      <4>5. Len(t) = n + 1
        BY <4>3
      <4> QED  BY <4>3, <4>4, <4>5
    <3> HIDE DEF t
    <3>6. ASSUME NEW i \in 1 .. n + 1, NEW j \in 1 .. n + 1, i < j PROVE orderByClause(t[i], t[j], o)
      <4>1. CASE j = n + 1
        <5>1. i \in 1 .. n
          BY <3>6
        <5> QED  BY <3>2, <3>3, <3>5, <4>1, <5>1
      <4>2. CASE j # n + 1
        <5>1. i \in 1 .. n /\ j \in 1 .. n
          BY <3>6, <4>2
        <5>2. orderByClause(s[i], s[j], o)
          BY <2>1, <3>3, <3>6, <5>1 DEF Page
        <5> QED  BY <3>5, <5>1, <5>2
      <4> QED  BY <4>1, <4>2
    <3>7. ASSUME NEW e \in E, ~\E i \in 1 .. n + 1 : t[i] = e
          PROVE  \A i \in 1 .. n + 1 : orderByClause(t[i], e, o)
      <4>1. \A i \in 1 .. n : i \in 1 .. n + 1
        OBVIOUS
      <4>2. n + 1 \in 1 .. n + 1 /\ \A i \in 1 .. n + 1 : i = n + 1 \/ i \in 1 .. n
        OBVIOUS
      <4>3. e # m /\ e \in Rest
        BY <3>4, <3>5, <3>7, <4>1, <4>2
      <4> QED  BY <3>2, <3>3, <3>5, <4>2, <4>3
    <3>8. Page(t, E, o, n + 1)
      <4>1. Len(t) \in 0 .. n + 1
        BY <3>5
      <4> QED  BY <3>5, <3>6, <3>7, <4>1 DEF Page
    <3> QED  BY <3>8
  <2> QED  BY <2>3, <2>4
<1> HIDE DEF G
<1>3. Nat \subseteq G
  BY <1>1, <1>2, NaturalsByInduction
<1> QED  BY <1>3 DEF G

\* Where two pages first differ, each has the later row.
LEMMA PagesDiffer ==
    ASSUME NEW E \in SUBSET Entry, NEW o, NEW limit \in Nat, NEW x, NEW y,
           Page(x, E, o, limit), Page(y, E, o, limit),
           NEW i \in Nat, i \in 1 .. Len(x), i \in 1 .. Len(y), x[i] # y[i],
           \A m \in 1 .. Len(x) : m < i => x[m] = y[m]
    PROVE  orderByClause(y[i], x[i], o)
<1>0. Len(x) \in Nat /\ Len(y) \in Nat /\ x \in [1 .. Len(x) -> E]
  BY PageShape
<1>1. Len(x) \in Nat /\ Len(y) \in Nat /\ x[i] \in E
  BY <1>0, Zenon
<1>2. CASE \E j \in 1 .. Len(y) : y[j] = x[i]
  <2>1. PICK j \in 1 .. Len(y) : y[j] = x[i]
    BY <1>2
  <2>2. ~(j < i)
    <3> SUFFICES ASSUME j < i PROVE FALSE
      OBVIOUS
    <3>1. j \in 1 .. Len(x)
      BY <1>1, <2>1
    <3>2. x[j] = x[i]
      BY <2>1, <3>1
    <3>3. orderByClause(x[j], x[i], o)
      BY <3>1 DEF Page
    <3> QED  BY <1>1, <3>2, <3>3, OrderIsTotal
  <2>3. i < j
    BY <2>1, <2>2
  <2>4. orderByClause(y[i], y[j], o)
    BY <2>1, <2>3 DEF Page
  <2> QED  BY <2>1, <2>4
<1>3. CASE ~\E j \in 1 .. Len(y) : y[j] = x[i]
  BY <1>1, <1>3 DEF Page
<1> QED  BY <1>2, <1>3

LEMMA PagesAgree ==
    ASSUME NEW E \in SUBSET Entry, NEW o, NEW limit \in Nat, NEW x, NEW y,
           Page(x, E, o, limit), Page(y, E, o, limit)
    PROVE  x = y
<1>1. /\ Len(x) \in Nat /\ Len(y) \in Nat /\ Len(x) <= limit /\ Len(y) <= limit
      /\ x \in [1 .. Len(x) -> E] /\ y \in [1 .. Len(y) -> E]
  BY PageShape
<1> DEFINE Differ == {m \in Nat : m \in 1 .. Len(x) /\ m \in 1 .. Len(y) /\ x[m] # y[m]}
<1>2. Differ = {}
  <2>1. SUFFICES ASSUME Differ # {} PROVE FALSE
    OBVIOUS
  <2>2. Differ \in SUBSET Nat
    OBVIOUS
  <2>3. PICK i \in Differ : \A m \in Differ : i <= m
    <3> HIDE DEF Differ
    <3> QED  BY <2>1, <2>2, LeastNatural
  <2>4. i \in Nat /\ i \in 1 .. Len(x) /\ i \in 1 .. Len(y) /\ x[i] # y[i]
    BY <2>3
  <2>5. /\ \A m \in 1 .. Len(x) : m < i => x[m] = y[m]
        /\ \A m \in 1 .. Len(y) : m < i => y[m] = x[m]
    <3>1. ASSUME NEW m \in Nat, m \in 1 .. Len(x), m \in 1 .. Len(y), m < i PROVE x[m] = y[m]
      BY <2>3, <3>1
    <3>2. \A m \in 1 .. Len(x) : m < i => m \in 1 .. Len(y) /\ m \in Nat
      BY <1>1, <2>4
    <3>3. \A m \in 1 .. Len(y) : m < i => m \in 1 .. Len(x) /\ m \in Nat
      BY <1>1, <2>4
    <3> QED  BY <3>1, <3>2, <3>3
  <2>6. orderByClause(y[i], x[i], o)
    BY <2>4, <2>5, PagesDiffer
  <2>7. orderByClause(x[i], y[i], o)
    BY <2>4, <2>5, PagesDiffer
  <2>8. x[i] \in Entry /\ y[i] \in Entry
    BY <1>1, <2>4
  <2> QED  BY <2>6, <2>7, <2>8, OrderIsTotal
<1>3. \A m \in Nat : m \in 1 .. Len(x) /\ m \in 1 .. Len(y) => x[m] = y[m]
  BY <1>2
<1> HIDE DEF Differ
\* Neither goes on where the other ends.
<1>4. ASSUME NEW s, NEW t, Page(s, E, o, limit), Page(t, E, o, limit),
             \A m \in Nat : m \in 1 .. Len(s) /\ m \in 1 .. Len(t) => s[m] = t[m]
      PROVE  ~(Len(s) < Len(t))
  <2> SUFFICES ASSUME Len(s) < Len(t) PROVE FALSE
    OBVIOUS
  <2>1. Len(s) \in Nat /\ Len(t) \in Nat /\ Len(t) <= limit /\ t \in [1 .. Len(t) -> E]
    BY <1>4, PageShape
  <2> DEFINE n == Len(s) + 1
  <2>2. n \in 1 .. Len(t) /\ Len(s) # limit
    BY <2>1
  <2>3. t[n] \in E
    BY <2>1, <2>2
  <2>4. PICK i \in 1 .. Len(s) : s[i] = t[n]
    BY <1>4, <2>2, <2>3 DEF Page
  <2>5. i \in Nat /\ i \in 1 .. Len(t) /\ i < n
    BY <2>1, <2>4
  <2>6. t[i] = t[n]
    BY <1>4, <2>4, <2>5
  <2>7. orderByClause(t[i], t[n], o)
    BY <1>4, <2>2, <2>5 DEF Page
  <2> QED  BY <2>3, <2>6, <2>7, OrderIsTotal
<1>5. Len(x) = Len(y)
  <2>1. ~(Len(x) < Len(y)) /\ ~(Len(y) < Len(x))
    BY <1>3, <1>4
  <2>2. \A k, l \in Nat : ~(k < l) /\ ~(l < k) => k = l
    OBVIOUS
  <2> QED  BY <1>1, <2>1, <2>2, Zenon
<1>6. \A m \in 1 .. Len(x) : x[m] = y[m]
  <2>1. \A m \in 1 .. Len(x) : m \in Nat
    BY <1>1
  <2> QED  BY <1>3, <1>5, <2>1
<1>7. x = [m \in 1 .. Len(x) |-> x[m]] /\ y = [m \in 1 .. Len(x) |-> y[m]]
  BY <1>1, <1>5
<1>8. [m \in 1 .. Len(x) |-> x[m]] = [m \in 1 .. Len(x) |-> y[m]]
  BY <1>6
<1> QED  BY <1>7, <1>8, Zenon

\* Finitely many rows are there.
Finite == IsFiniteSet(Present)

LEMMA QueryHasOneAnswer ==
    ASSUME TypeOK, Finite, NEW p \in Params, NEW cursor, NEW limit \in Nat
    PROVE  \E s : SelectPage(p, cursor, limit) = {s}
<1> DEFINE M == {u \in Present : /\ rows[u].list = p.list
                                 /\ whereClause(rows[u].value[p.field], u, cursor, p.order)}
           E == {[uuid |-> u, value |-> rows[u].value[p.field]] : u \in M}
<1>1. M \subseteq Present /\ IsFiniteSet(M)
  BY FS_Subset DEF Finite
<1>2. IsFiniteSet(E)
  <2> HIDE DEF M
  <2> DEFINE f == [u \in M |-> [uuid |-> u, value |-> rows[u].value[p.field]]]
  <2>1. f \in Surjection(M, E)
    <3>1. f \in [M -> E] /\ \A e \in E : \E u \in M : f[u] = e
      OBVIOUS
    <3> QED  BY <3>1 DEF Surjection
  <2> HIDE DEF f, E
  <2> QED  BY <1>1, <2>1, FS_Surjection
<1>3. E \in SUBSET Entry
  <2> SUFFICES ASSUME NEW u \in M
               PROVE  [uuid |-> u, value |-> rows[u].value[p.field]] \in Entry
    OBVIOUS
  <2>1. u \in UUIDs /\ rows[u] \in Rows /\ rows[u].list = p.list
    BY DEF Present, TypeOK
  <2>2. rows[u].value[p.field] \in NULL .. MaxValue
    BY <2>1, RowValue
  <2> QED  BY <2>1, <2>2 DEF Entry
<1>4. SelectPage(p, cursor, limit) = Limited(E, p.order, limit)
  BY DEF SelectPage
<1> HIDE DEF M, E
<1>5. PICK s : Page(s, E, p.order, limit)
  BY <1>2, <1>3, SomePage
<1>6. s \in Limited(E, p.order, limit)
  BY <1>5, LimitedIsPage
<1>7. ASSUME NEW t \in Limited(E, p.order, limit) PROVE t = s
  <2>1. Page(t, E, p.order, limit)
    BY LimitedIsPage
  <2> QED  BY <1>3, <1>5, <2>1, PagesAgree
<1>8. Limited(E, p.order, limit) = {s}
  BY <1>6, <1>7
<1> QED  BY <1>4, <1>8

(***************************************************************************)
(* The query of a page (whereClause, orderByClause and LIMIT of            *)
(* pagination.go) has exactly one answer in every state, whatever the      *)
(* cursor and the page size, as long as the tables began finite: rows of   *)
(* equal sort value are told apart by their uuid.                          *)
(***************************************************************************)
THEOREM QueryIsDetermined ==
    Spec /\ Finite => [](\A p \in Params, limit \in Nat : \A cursor \in Cursors \cup {NoToken} :
                            \E s : SelectPage(p, cursor, limit) = {s})
<1>2. TypeOK /\ Finite /\ [Next]_vars => Finite'
  <2> SUFFICES ASSUME TypeOK, Finite, [Next]_vars PROVE Finite'
    OBVIOUS
  <2>1. CASE UNCHANGED rows
    BY <2>1 DEF Finite, Present
  <2>2. ASSUME NEW u \in UUIDs, NEW r \in Rows, Insert(u, r) PROVE Finite'
    <3>1. Present' \subseteq Present \cup {u}
      BY <2>2 DEF Insert, Present, TypeOK
    <3>2. IsFiniteSet(Present \cup {u})
      BY FS_AddElement DEF Finite
    <3> QED  BY <3>1, <3>2, FS_Subset DEF Finite
  <2>3. ASSUME NEW u \in UUIDs, Delete(u) PROVE Finite'
    <3>1. Present' \subseteq Present
      BY <2>3 DEF Delete, Present, TypeOK
    <3> QED  BY <3>1, FS_Subset DEF Finite
  <2>4. CASE Serve
    BY <2>1, <2>4 DEF Serve, Parse, Query, Load, Decide, NextBatch, Reply
  <2>5. CASE Client
    BY <2>1, <2>5 DEF Client, ListAll, SwitchParams, ConnectionFails
  <2>6. CASE \E x \in UUIDs \cup CollectionLists : Entitle(x) \/ Revoke(x)
    BY <2>1, <2>6 DEF Entitle, Revoke
  <2>7. CASE UNCHANGED vars
    BY <2>1, <2>7 DEF vars
  <2> QED  BY <2>2, <2>3, <2>4, <2>5, <2>6, <2>7 DEF Next, Write
<1>3. TypeOK /\ Finite => \A p \in Params, limit \in Nat : \A cursor \in Cursors \cup {NoToken} :
                             \E s : SelectPage(p, cursor, limit) = {s}
  BY QueryHasOneAnswer
<1>4. Spec => []TypeOK
  <2>1. Inv => TypeOK
    BY DEF Inv
  <2> QED  BY <2>1, InvHolds, PTL
<1> QED  BY <1>2, <1>3, <1>4, PTL DEF Spec
=============================================================================
