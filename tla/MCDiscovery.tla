---------------------------- MODULE MCDiscovery ----------------------------
\* Values for the constants of Discovery.
EXTENDS Discovery

Record(owner, priority, to, port) ==
    [owner |-> owner, priority |-> priority, target |-> to, port |-> port]

Zone(authority, www, cdn) ==
    [n \in {"authority", "www", "cdn"} |->
        CASE n = "authority" -> authority [] n = "www" -> www [] n = "cdn" -> cdn]

\* No records; two services of one priority; an alias to a service; two aliases.
MCZones ==
    {Zone({}, {}, {}),
     Zone({Record("authority", 1, ".", 8443), Record("www", 1, "cdn", 0),
           Record("cdn", 2, ".", 0)}, {}, {}),
     Zone({Record("authority", 0, "www", 0)}, {Record("cdn", 1, ".", 8443)}, {}),
     Zone({Record("authority", 0, "www", 0)}, {Record("www", 0, "cdn", 0)},
          {Record("cdn", 1, ".", 0)}),
     Zone({Record("authority", 0, ".", 0)}, {}, {})}

Url(scheme, host, port) == [scheme |-> scheme, host |-> host, port |-> port]

A == Url("https", "a", 443)
B == Url("https", "b", 443)

\* Where redirects lead: an endpoint, and its host at another port and scheme.
MCOrigins == {A, Url("https", "a", 8443), Url("http", "b", 80)}

Field(numeric, rank, text) == [numeric |-> numeric, rank |-> rank, text |-> text]

Version(num, pre, text) == [valid |-> TRUE, num |-> num, pre |-> pre, text |-> text]

V1     == Version(<<1, 0, 0>>, <<>>, "1.0.0")
V1Form == Version(<<1, 0, 0>>, <<>>, "1.0")
V1Beta == Version(<<1, 0, 0>>, <<Field(FALSE, 1, "beta"), Field(TRUE, 2, "2")>>,
                  "1.0.0-beta.2")
V1Rc   == Version(<<1, 0, 0>>, <<Field(FALSE, 2, "rc")>>, "1.0.0-rc")
V2     == Version(<<2, 0, 0>>, <<>>, "2.0.0")
Bad    == [valid |-> FALSE, num |-> <<0, 0, 0>>, pre |-> <<>>, text |-> "latest"]

MCSupported == <<V1Beta, V1, V1Rc>>

Endpoint(url, versions, priority) ==
    [url |-> url, versions |-> versions, priority |-> priority]

MCDocuments ==
    {<<Endpoint(A, <<V1Rc, V1Form, V1Beta, V2>>, NoPriority),
       Endpoint(B, <<V1>>, 0),
       Endpoint(Url("http", "b", 80), <<V1>>, 3)>>,
     <<Endpoint(B, <<Bad, V1Beta, V1Rc>>, 0),
       Endpoint(A, <<V1>>, 1),
       Endpoint(B, <<V2>>, 1)>>,
     <<Endpoint(A, <<V1>>, 0), Endpoint(B, <<V1>>, NoPriority), Endpoint(A, <<V1>>, 1)>>}
=============================================================================
