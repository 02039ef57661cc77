----------------------------- MODULE Discovery -----------------------------
(***************************************************************************)
(* Bootstrap discovery of the client library (pkg/teaclient: wellknown.go, *)
(* svcb.go, semver.go, discovery.go, errors.go and the redirect policy of  *)
(* client.go): from a product identifier to the server that resolves it.   *)
(* The authority named by the identifier is looked up in the DNS, its      *)
(* .well-known/tea document is fetched, and the endpoints the document     *)
(* lists are asked in turn.  DNS answers, HTTP answers, redirects and the  *)
(* caller's cancellation are the environment's and come in any order.      *)
(***************************************************************************)
EXTENDS Integers, SequencesExt

CONSTANTS
    Zones,             \* DNS contents: name -> set of HTTPS records
    Authority,         \* the authority the identifier names
    Documents,         \* .well-known/tea documents: sequences of endpoints
    Origins,           \* origins that redirects lead to
    SupportedVersions, \* the versions this client speaks, a sequence
    MaxRetries,        \* len(retryBackoffDelays)
    MaxRedirects       \* redirects a request follows (nine: 10 requests at most)

ASSUME DiscoveryAssumption == MaxRetries \in Nat /\ MaxRedirects \in Nat \ {0}
ASSUME DocumentsAssumption ==
    \A d \in Documents : d \in Seq(ToSet(d)) /\ \A i \in DOMAIN d : d[i].priority \in Int

\* What parseSemVer makes of a version, see below.
PreReleaseFields == [numeric : BOOLEAN, rank : Int, text : STRING]
SemVers == [valid : BOOLEAN, num : [1 .. 3 -> Nat], pre : Seq(PreReleaseFields), text : STRING]

ASSUME VersionsAssumption ==
    /\ SupportedVersions \in Seq(SemVers)
    /\ \A d \in Documents : \A i \in DOMAIN d : d[i].versions \in Seq(SemVers)

VARIABLES
    zone,       \* what the DNS holds
    phase,      \* where BootstrapDiscover is
    target,     \* the host and port to dial for .well-known/tea
    doc,        \* the document that was fetched
    queue,      \* endpoints still to be tried, as positions in doc
    ep,         \* the endpoint in hand; 0 is the .well-known fetch
    attempt,    \* attempts made by the running retryWithBackoff
    origin,     \* the origin the request in flight is at
    hops,       \* redirects that request has followed
    cancelled,  \* the caller's context is done
    tries,      \* history: requests sent to each endpoint
    last,       \* history: the last answer of each endpoint
    version,    \* history: the version asked of each endpoint
    carried     \* history: origins the bearer token was sent to

call == <<doc, queue, ep, attempt>>
wire == <<origin, hops>>
history == <<tries, last, version, carried>>
vars == <<zone, phase, target, call, wire, cancelled, history>>

Ended == {"resolved", "failed"}

-----------------------------------------------------------------------------
(***************************************************************************)
(* Errors.  An answer is its class: what the predicates of errors.go and   *)
(* isRetryableError can tell apart.                                        *)
(***************************************************************************)

Answers ==
    {"success",
     "unauthorized", "forbidden",   \* 401, 403
     "unknown",                     \* a 404 that is a TEA error response
     "notfound",                    \* any other 404, and the other 4xx
     "serverError",                 \* 5xx
     "transport",                   \* what http.Client.Do failed on
     "certificate",                 \* TLS verification failed
     "redirect",                    \* a redirect of the .well-known fetch
     "content"}                     \* a 2xx without an answer: bad JSON, empty array

isRetryableError(a) == a \in {"serverError", "transport"}

\* IsUnauthorized, IsForbidden, and a conforming TEA 404: failover stops.
RefusalOfAny404(a) == a \in {"unauthorized", "forbidden", "unknown", "notfound"}

RefusalUnlessUnauthorized(a) == a \in {"forbidden", "unknown"}

Refusal(a) == a \in {"unauthorized", "forbidden", "unknown"}

\* retryWithBackoff tries again: n attempts were made and the last one gave a.
Retry(a, n) == isRetryableError(a) /\ n <= MaxRetries

-----------------------------------------------------------------------------
(***************************************************************************)
(* Versions: [valid, num, pre, text].  num is major, minor and patch, pre  *)
(* the pre-release fields, each [numeric, rank, text] with rank the number *)
(* or the place in ASCII order; build metadata is gone, and a missing      *)
(* patch is 0.                                                             *)
(***************************************************************************)

HigherField(x, y) ==
    IF x.numeric = y.numeric THEN x.rank > y.rank ELSE y.numeric

SameField(x, y) == x.numeric = y.numeric /\ x.rank = y.rank

\* The first field in which two sequences differ decides, then their length.
HigherFields(x, y) ==
    LET n == Min({Len(x), Len(y)}) IN
    \/ \E i \in 1 .. n : /\ HigherField(x[i], y[i])
                         /\ \A j \in 1 .. i - 1 : SameField(x[j], y[j])
    \/ Len(x) > Len(y) /\ \A j \in 1 .. n : SameField(x[j], y[j])

\* A release comes after its pre-releases.
comparePreRelease(x, y) ==
    IF x = <<>> \/ y = <<>> THEN x = <<>> /\ y # <<>> ELSE HigherFields(x, y)

\* compareSemVer(a, b) > 0
compareSemVer(a, b) ==
    IF ~(a.valid /\ b.valid) THEN a.valid /\ ~b.valid
    ELSE \/ \E i \in 1 .. 3 : /\ a.num[i] > b.num[i]
                              /\ \A j \in 1 .. i - 1 : a.num[j] = b.num[j]
         \/ a.num = b.num /\ comparePreRelease(a.pre, b.pre)

semVerEqual(a, b) == a.num = b.num /\ a.pre = b.pre

NoVersion == [text |-> "none"]

Matches(c, e) == c.valid /\ e.valid /\ semVerEqual(c, e)

\* The loop body: the better of the best so far and a version of the endpoint.
KeepFirst(best, e) == IF best = NoVersion THEN e ELSE best

Keep(best, e) == IF best = NoVersion \/ compareSemVer(e, best) THEN e ELSE best

\* The inner loop, for a version c of the client: what first was becomes.
BestFor(c, endpoint, first) ==
    LET best[j \in 0 .. Len(endpoint)] ==
            IF j = 0 THEN first
            ELSE IF Matches(c, endpoint[j]) THEN Keep(best[j - 1], endpoint[j]) ELSE best[j - 1]
    IN  best[Len(endpoint)]

\* For each version of the client, for each of the endpoint, in list order.
highestMutualVersion(client, endpoint) ==
    LET best[i \in 0 .. Len(client)] ==
            IF i = 0 THEN NoVersion ELSE BestFor(client[i], endpoint, best[i - 1])
    IN  best[Len(client)]

-----------------------------------------------------------------------------
(***************************************************************************)
(* Endpoints: [url, versions, priority]; a priority of NoPriority is one   *)
(* the document leaves out.                                                *)
(***************************************************************************)
NoPriority == -1

endpointPriorityZero(e) == IF e.priority = NoPriority THEN 0 ELSE e.priority

endpointPriority(e) == IF e.priority = NoPriority THEN 1 ELSE e.priority

\* What a stable sort may return: the positions of d by priority, highest
\* first, where equal ones keep their order.  There is one such arrangement.
sortEndpointsByPriority(d) ==
    {s \in Bijection(DOMAIN d, DOMAIN d) : \A m, n \in DOMAIN d : m < n =>
        \/ endpointPriority(d[s[m]]) > endpointPriority(d[s[n]])
        \/ endpointPriority(d[s[m]]) = endpointPriority(d[s[n]]) /\ s[m] < s[n]}

\* Endpoints that the loop does not skip.
Usable(e) ==
    /\ e.url.scheme = "https"
    /\ highestMutualVersion(SupportedVersions, e.versions) # NoVersion

SameHost(a, b) == a.host = b.host

SameOrigin(a, b) == a = b

\* via grows by one with every redirect.
NextHopForgotten(h) == h

NextHop(h) == h + 1

-----------------------------------------------------------------------------
(***************************************************************************)
(* resolveWellKnownTarget.  A record is [owner, priority, target, port];   *)
(* priority 0 is AliasForm, port 0 an absent port parameter, and target    *)
(* "." the owner itself.                                                   *)
(***************************************************************************)
NoOrigin == [scheme |-> "none"]

Fallback == [host |-> Authority, port |-> 443]

\* queryHTTPS: one of the records of least priority.
Best(name) ==
    {r \in zone[name] : \A q \in zone[name] : r.priority <= q.priority}

TargetOf(r) ==
    [host |-> IF r.target = "." THEN r.owner ELSE r.target,
     port |-> IF r.port = 0 THEN 443 ELSE r.port]

\* AliasForm: the record names another owner to ask, not a service.
IsAlias(r) == r.priority = 0

\* The .well-known fetch starts, at the target that was found.
FetchFrom(t) ==
    /\ target' = t
    /\ phase' = "send"
    /\ ep' = 0
    /\ attempt' = 1
    /\ UNCHANGED <<doc, queue>>

\* The first lookup; any failure of it falls back to the authority itself.
Resolve ==
    /\ phase = "resolve"
    /\ \/ FetchFrom(Fallback)
       \/ \E r \in Best(Authority) :
            /\ r.priority = 0 => r.target = "."
            /\ FetchFrom(IF r.priority = 0 THEN Fallback ELSE TargetOf(r))
       \/ \E r \in Best(Authority) :
            /\ r.priority = 0 /\ r.target # "."
            /\ phase' = "alias"
            /\ target' = TargetOf(r)
            /\ UNCHANGED call
    /\ UNCHANGED <<zone, wire, cancelled, history>>

\* AliasForm is followed once.
Alias ==
    /\ phase = "alias"
    /\ \/ FetchFrom(Fallback)
       \/ \E r \in Best(target.host) :
            FetchFrom(IF IsAlias(r) THEN Fallback ELSE TargetOf(r))
    /\ UNCHANGED <<zone, wire, cancelled, history>>

-----------------------------------------------------------------------------
(***************************************************************************)
(* BootstrapDiscover.                                                      *)
(***************************************************************************)

\* ExtractTEIAuthority finds the authority, or the identifier has none.
BootstrapDiscover ==
    /\ phase \in Ended \cup {"start"}
    /\ phase' \in {"resolve", "failed"}
    /\ target' = Fallback
    /\ doc' = <<>> /\ queue' = <<>> /\ ep' = 0 /\ attempt' = 0
    /\ origin' = NoOrigin /\ hops' = 0 /\ cancelled' = FALSE
    /\ tries' = <<>> /\ last' = <<>> /\ version' = <<>> /\ carried' = {}
    /\ UNCHANGED zone

\* The caller gives up.
Cancel ==
    /\ phase \notin Ended \cup {"start"}
    /\ ~cancelled
    /\ cancelled' = TRUE
    /\ UNCHANGED <<zone, phase, target, call, wire, history>>

(***************************************************************************)
(* What follows a failed attempt: another one after a pause, or the end of *)
(* this endpoint.  A refusal ends the discovery, and so does a failure of  *)
(* the .well-known fetch; any other failure moves on.                      *)
(***************************************************************************)
GiveUp(a) == phase' = IF ep = 0 \/ Refusal(a) THEN "failed" ELSE "choose"

Failed(a) == IF Retry(a, attempt) THEN phase' = "wait" ELSE GiveUp(a)

\* http.Client.Do: a request whose context is done is not sent.
Send ==
    /\ phase = "send"
    /\ \/ /\ cancelled
          /\ Failed("transport")
          /\ UNCHANGED history
       \/ /\ ~cancelled
          /\ phase' = "sent"
          /\ tries' = IF ep = 0 THEN tries ELSE [tries EXCEPT ![ep] = @ + 1]
          /\ carried' = IF ep = 0 THEN carried ELSE carried \cup {origin}
          /\ UNCHANGED <<last, version>>
    /\ UNCHANGED <<zone, target, call, wire, cancelled>>

(***************************************************************************)
(* crossOriginCheckRedirect: the token goes along only to the origin of    *)
(* the first request; the redirect cap makes a failed request.             *)
(***************************************************************************)
Redirect(o) ==
    /\ phase = "sent" /\ ep # 0
    /\ hops < MaxRedirects
    /\ hops' = NextHop(hops)
    /\ origin' = o
    /\ carried' = carried \cup (IF SameOrigin(doc[ep].url, o) THEN {o} ELSE {})
    /\ UNCHANGED <<zone, phase, target, call, cancelled, tries, last, version>>

\* doFetchWellKnown returns; a document has at least one endpoint.
FetchAnswer(a) ==
    /\ phase = "sent" /\ ep = 0
    /\ \/ /\ a = "success"
          /\ \E d \in Documents :
                /\ doc' = d
                /\ queue' \in sortEndpointsByPriority(d)
                /\ tries' = [i \in DOMAIN d |-> 0]
                /\ last' = [i \in DOMAIN d |-> "none"]
                /\ version' = [i \in DOMAIN d |-> NoVersion]
          /\ phase' = "choose"
       \/ /\ a # "success"
          /\ Failed(a)
          /\ UNCHANGED <<doc, queue, tries, last, version>>
    /\ UNCHANGED <<zone, target, ep, attempt, wire, cancelled, carried>>

\* The loop over the endpoints: one that is not usable is skipped.
Choose ==
    /\ phase = "choose"
    /\ \/ /\ queue = <<>>
          /\ phase' = "failed"
          /\ UNCHANGED <<call, wire, history>>
       \/ /\ queue # <<>> /\ ~Usable(doc[Head(queue)])
          /\ queue' = Tail(queue)
          /\ UNCHANGED <<phase, doc, ep, attempt, wire, history>>
       \/ /\ queue # <<>> /\ Usable(doc[Head(queue)])
          /\ ep' = Head(queue)
          /\ queue' = Tail(queue)
          /\ attempt' = 1
          /\ origin' = doc[Head(queue)].url /\ hops' = 0
          /\ version' = [version EXCEPT ![Head(queue)] =
                 highestMutualVersion(SupportedVersions, doc[Head(queue)].versions)]
          /\ phase' = "send"
          /\ UNCHANGED <<doc, tries, last, carried>>
    /\ UNCHANGED <<zone, target, cancelled>>

\* Discover returns.
DiscoverAnswer(a) ==
    /\ phase = "sent" /\ ep # 0
    /\ a # "redirect"
    /\ last' = [last EXCEPT ![ep] = a]
    /\ IF a = "success" THEN phase' = "resolved" ELSE Failed(a)
    /\ UNCHANGED <<zone, target, call, wire, cancelled, tries, version, carried>>

\* The pause before a retry ends, or the context does.
Wait ==
    /\ phase = "wait"
    /\ \/ /\ phase' = "send"
          /\ attempt' = attempt + 1
          /\ IF ep = 0 THEN UNCHANGED wire ELSE origin' = doc[ep].url /\ hops' = 0
       \/ /\ cancelled
          /\ GiveUp("cancelled")
          /\ UNCHANGED <<attempt, wire>>
    /\ UNCHANGED <<zone, target, doc, queue, ep, cancelled, history>>

-----------------------------------------------------------------------------
Init ==
    /\ zone \in Zones
    /\ phase = "start" /\ target = Fallback
    /\ doc = <<>> /\ queue = <<>> /\ ep = 0 /\ attempt = 0
    /\ origin = NoOrigin /\ hops = 0 /\ cancelled = FALSE
    /\ tries = <<>> /\ last = <<>> /\ version = <<>> /\ carried = {}

\* The steps of a running call; each waits only for an answer or a timer.
Step == \/ Resolve \/ Alias \/ Send \/ Choose \/ Wait
        \/ \E o \in Origins : Redirect(o)
        \/ \E a \in Answers : FetchAnswer(a) \/ DiscoverAnswer(a)

Next == BootstrapDiscover \/ Cancel \/ Step

(***************************************************************************)
(* Every lookup and request has a timeout (dns.Client.Timeout,             *)
(* http.Client.Timeout) and every pause a timer, so a running call takes   *)
(* its next step; nothing is assumed of what the answers are, nor of the   *)
(* caller's cancellation.                                                  *)
(***************************************************************************)
Spec == Init /\ [][Next]_vars /\ WF_vars(Step)

-----------------------------------------------------------------------------
(***************************************************************************)
(* Properties.                                                             *)
(***************************************************************************)

Phases == {"start", "resolve", "alias", "send", "sent", "wait", "choose"} \cup Ended

(***************************************************************************)
(* Every variable holds a value of its kind; no endpoint, and not the      *)
(* .well-known fetch either, is asked more often than the first attempt    *)
(* and the retries of retryWithBackoff allow.                              *)
(***************************************************************************)
TypeOK ==
    /\ zone \in Zones /\ phase \in Phases
    /\ doc \in Documents \cup {<<>>}
    /\ queue \in Seq(DOMAIN doc)
    /\ ep \in {0} \cup DOMAIN doc
    /\ attempt \in 0 .. MaxRetries + 1 /\ hops \in 0 .. MaxRedirects
    /\ origin \in Origins \cup {doc[i].url : i \in DOMAIN doc} \cup {NoOrigin}
    /\ cancelled \in BOOLEAN
    /\ tries \in [DOMAIN doc -> 0 .. MaxRetries + 1]
    /\ last \in [DOMAIN doc -> Answers \cup {"none"}]
    /\ DOMAIN version = DOMAIN doc

(***************************************************************************)
(* Failover order (well-known schema: highest priority first, an absent    *)
(* priority is 1): an endpoint is asked only after every usable endpoint   *)
(* that goes before it was asked, failed and was given up: at once if the  *)
(* failure is permanent, after all its retries if it is transient.         *)
(***************************************************************************)
FailoverInOrder ==
    LET rank(i) == IF doc[i].priority = NoPriority THEN 1 ELSE doc[i].priority
        before(i, j) == rank(i) > rank(j) \/ (rank(i) = rank(j) /\ i < j)
    IN  \A i, j \in DOMAIN doc :
            (before(i, j) /\ Usable(doc[i]) /\ tries[j] > 0) =>
                /\ tries[i] > 0
                /\ last[i] \notin {"none", "success"}
                /\ last[i] \in {"serverError", "transport"} => tries[i] > MaxRetries

(***************************************************************************)
(* A refusal is final (the doc comment of BootstrapDiscover and the code   *)
(* under it agree that authentication errors do not trigger failover):     *)
(* once an endpoint answered 401 or 403, whatever endpoints were tried and *)
(* retried before it, no endpoint is asked again in that call.             *)
(***************************************************************************)
RefusalIsFinal ==
    [][(\E i \in DOMAIN last : last[i] \in {"unauthorized", "forbidden"}) =>
          \A j \in DOMAIN tries' : tries'[j] <= tries[j]]_vars

(***************************************************************************)
(* Failure is the last resort: a call that was not cancelled and fails     *)
(* after it had the document was refused, or asked every usable endpoint   *)
(* and was let down by each.                                               *)
(***************************************************************************)
FailsOnlyExhausted ==
    (phase = "failed" /\ ~cancelled /\ doc # <<>>) =>
        \/ \E i \in DOMAIN doc : last[i] \in {"unauthorized", "forbidden", "unknown"}
        \/ \A i \in DOMAIN doc : Usable(doc[i]) => last[i] \notin {"none", "success"}

(***************************************************************************)
(* The token is sent to no origin but the https endpoints the document     *)
(* lists, whatever chain of redirects their servers answer with            *)
(* (crossOriginCheckRedirect: another scheme or port is another origin).   *)
(***************************************************************************)
TokenStaysHome ==
    carried \subseteq {o \in {doc[i].url : i \in DOMAIN doc} : o.scheme = "https"}

(***************************************************************************)
(* Negotiation (SemVer precedence): the version asked for is one the       *)
(* endpoint lists and this client speaks, and no version that both have    *)
(* comes after it; and an endpoint that is asked has such a version.       *)
(***************************************************************************)
HighestVersionAsked ==
    \A i \in DOMAIN doc :
        LET mutual == {e \in ToSet(doc[i].versions) :
                          e.valid /\ \E c \in ToSet(SupportedVersions) : Matches(c, e)}
        IN  tries[i] > 0 =>
                /\ version[i] \in mutual
                /\ \A e \in mutual : ~compareSemVer(e, version[i])

(***************************************************************************)
(* Liveness: a call comes to an end, whatever is answered and however      *)
(* often servers redirect or fail.                                         *)
(***************************************************************************)
DiscoveryEnds == (phase = "resolve") ~> (phase \in Ended)
=============================================================================
