--------------------------- MODULE DiscoveryProofs ---------------------------
(***************************************************************************)
(* Proofs about Discovery, for any documents, DNS contents and redirects,  *)
(* and any number of retries.                                              *)
(***************************************************************************)
EXTENDS Discovery, SequenceTheorems, WellFoundedInduction, TLAPS

Running == {"send", "sent", "wait"}

\* The endpoints that the loop has not come to.
Waiting == ToSet(queue)

\* An endpoint goes before another one.
Prior(d, i, j) ==
    \/ endpointPriority(d[i]) > endpointPriority(d[j])
    \/ endpointPriority(d[i]) = endpointPriority(d[j]) /\ i < j

GivenUp(k) ==
    /\ tries[k] > 0
    /\ last[k] \notin {"none", "success"}
    /\ last[k] \in {"serverError", "transport"} => tries[k] > MaxRetries

-----------------------------------------------------------------------------
(* The inductive invariant, in parts.                                      *)

\* Until there is a document nothing was asked and no token was sent.
EarlyInv ==
    phase \in {"start", "resolve", "alias"} \/ (ep = 0 /\ phase \in Running) =>
        ep = 0 /\ doc = <<>> /\ queue = <<>> /\ carried = {} /\ origin = NoOrigin

\* How often the endpoint in hand was asked.
AttemptInv ==
    /\ phase \in Running => attempt > 0
    /\ phase = "wait" => attempt <= MaxRetries
    /\ phase \in Running /\ ep # 0 =>
        /\ tries[ep] <= attempt
        /\ phase = "send" => tries[ep] < attempt
        /\ phase = "sent" => tries[ep] = attempt
        /\ ~cancelled => tries[ep] = IF phase = "send" THEN attempt - 1 ELSE attempt

\* The endpoint in hand is one to ask, and a request starts at its address.
HandInv ==
    phase \in Running /\ ep # 0 =>
        Usable(doc[ep]) /\ (phase = "send" => origin = doc[ep].url)

RefusalInv ==
    (\E i \in DOMAIN doc : Refusal(last[i])) => phase = "failed"

\* The endpoints that are waiting are in order, after all the others, and
\* were not asked; the one in hand comes after those that were.
QueueInv ==
    /\ \A m, n \in DOMAIN queue : m < n => Prior(doc, queue[m], queue[n])
    /\ \A k \in DOMAIN doc \ Waiting : \A j \in Waiting : Prior(doc, k, j)
    /\ ep # 0 => ep \notin Waiting
    /\ ep # 0 /\ phase \in Running => \A k \in DOMAIN doc \ Waiting : k = ep \/ Prior(doc, k, ep)
    /\ \A j \in Waiting : tries[j] = 0

\* The endpoints that the loop has left were let down by, or could not be asked.
LeftInv ==
    ~cancelled /\ phase \in {"choose"} \cup Running =>
        \A k \in DOMAIN doc \ Waiting :
            \/ phase \in Running /\ k = ep
            \/ ~Usable(doc[k])
            \/ GivenUp(k)

OrderInv ==
    \A i, j \in DOMAIN doc :
        Prior(doc, i, j) /\ Usable(doc[i]) /\ tries[j] > 0 => GivenUp(i)

Inv == /\ TypeOK /\ EarlyInv /\ AttemptInv /\ HandInv /\ TokenStaysHome /\ RefusalInv
       /\ QueueInv /\ LeftInv /\ OrderInv /\ FailsOnlyExhausted

-----------------------------------------------------------------------------
(* Facts about documents and queues.                                       *)

LEMMA DocsAre ==
    ASSUME NEW d \in Documents \cup {<<>>}
    PROVE  /\ Len(d) \in Nat /\ DOMAIN d = 1..Len(d) /\ DOMAIN d \subseteq Nat /\ 0 \notin DOMAIN d
           /\ \A i \in DOMAIN d : endpointPriority(d[i]) \in Int
<1>1. CASE d = <<>>
  BY <1>1
<1>2. CASE d \in Documents
  <2>1. d \in Seq(ToSet(d)) /\ \A i \in DOMAIN d : d[i].priority \in Int
    BY <1>2, DocumentsAssumption
  <2>2. Len(d) \in Nat /\ DOMAIN d = 1..Len(d)
    BY <2>1
  <2> QED  BY <2>1, <2>2 DEF endpointPriority
<1> QED  BY <1>1, <1>2

\* Of two endpoints one goes before the other.
LEMMA PriorIsAnOrder ==
    ASSUME NEW d \in Documents \cup {<<>>}, NEW i \in DOMAIN d, NEW j \in DOMAIN d
    PROVE  /\ Prior(d, i, j) => ~Prior(d, j, i)
           /\ i # j => Prior(d, i, j) \/ Prior(d, j, i)
           /\ \A k \in DOMAIN d : Prior(d, i, j) /\ Prior(d, j, k) => Prior(d, i, k)
<1>1. i \in Int /\ j \in Int /\ DOMAIN d \subseteq Int
  BY DocsAre
<1>2. \A k \in DOMAIN d : endpointPriority(d[k]) \in Int
  BY DocsAre
<1>3. \A a, b, x, y \in Int : ~(a > b /\ b > a) /\ (a > b \/ b > a \/ a = b)
                             /\ (x # y => x < y \/ y < x) /\ ~(x < y /\ y < x)
  OBVIOUS
<1>4. /\ Prior(d, i, j) => ~Prior(d, j, i)
      /\ i # j => Prior(d, i, j) \/ Prior(d, j, i)
  BY <1>1, <1>2 DEF Prior
<1>5. ASSUME NEW k \in DOMAIN d, Prior(d, i, j), Prior(d, j, k) PROVE Prior(d, i, k)
  BY <1>1, <1>2, <1>5 DEF Prior
<1> QED  BY <1>4, <1>5

\* What taking the first element off a queue does.
LEMMA QueueTail ==
    ASSUME NEW S, NEW q \in Seq(S), q # <<>>
    PROVE  /\ Head(q) \in S /\ Tail(q) \in Seq(S) /\ Head(q) = q[1] /\ 1 \in DOMAIN q
           /\ DOMAIN Tail(q) = 1..Len(q) - 1 /\ DOMAIN q = 1..Len(q) /\ Len(q) \in Nat
           /\ \A m \in DOMAIN Tail(q) : m + 1 \in DOMAIN q /\ Tail(q)[m] = q[m + 1] /\ m \in Nat
           /\ ToSet(q) = {Head(q)} \cup ToSet(Tail(q))
<1>1. /\ Head(q) \in S /\ Tail(q) \in Seq(S) /\ Len(Tail(q)) = Len(q) - 1 /\ Len(q) \in Nat
      /\ Len(q) > 0 /\ Head(q) = q[1] /\ \A m \in 1..Len(q) - 1 : Tail(q)[m] = q[m + 1]
  OBVIOUS
<1>2. DOMAIN q = 1..Len(q) /\ DOMAIN Tail(q) = 1..Len(q) - 1
  BY <1>1
<1>3. \A m \in 1..Len(q) : m = 1 \/ (m - 1 \in 1..Len(q) - 1 /\ q[m] = Tail(q)[m - 1])
  BY <1>1
<1>4. \A m \in 1..Len(q) - 1 : m + 1 \in 1..Len(q) /\ m \in Nat
  BY <1>1
<1>5. ToSet(q) \subseteq {Head(q)} \cup ToSet(Tail(q))
  <2> SUFFICES ASSUME NEW m \in DOMAIN q PROVE q[m] \in {Head(q)} \cup ToSet(Tail(q))
    BY DEF ToSet
  <2>1. CASE m = 1
    BY <1>1, <2>1
  <2>2. CASE m # 1
    <3>1. PICK n \in DOMAIN Tail(q) : q[m] = Tail(q)[n]
      BY <1>2, <1>3, <2>2
    <3> QED  BY <3>1 DEF ToSet
  <2> QED  BY <2>1, <2>2
<1>6. {Head(q)} \cup ToSet(Tail(q)) \subseteq ToSet(q)
  BY <1>1, <1>2, <1>4 DEF ToSet
<1> QED  BY <1>1, <1>2, <1>4, <1>5, <1>6

\* The queue that a document makes: all its endpoints, in order.
LEMMA QueueOfDocument ==
    ASSUME NEW d \in Documents, NEW s \in sortEndpointsByPriority(d)
    PROVE  /\ s \in Seq(DOMAIN d) /\ ToSet(s) = DOMAIN d
           /\ \A m, n \in DOMAIN s : m < n => Prior(d, s[m], s[n])
<1>1. /\ s \in [DOMAIN d -> DOMAIN d] /\ \A t \in DOMAIN d : \E m \in DOMAIN d : s[m] = t
      /\ \A m, n \in DOMAIN d : m < n => Prior(d, s[m], s[n])
  BY DEF sortEndpointsByPriority, Bijection, Surjection, Prior
<1>2. DOMAIN d = 1..Len(d) /\ Len(d) \in Nat
  BY DocsAre
<1>3. s \in Seq(DOMAIN d)
  BY <1>1, <1>2, SeqDef
<1> QED  BY <1>1, <1>3 DEF ToSet

-----------------------------------------------------------------------------
(* The steps.                                                              *)

\* A call starts afresh: the invariant of a state without a document.
Fresh ==
    /\ zone \in Zones /\ phase \in {"start", "resolve", "alias", "failed"}
    /\ doc = <<>> /\ queue = <<>> /\ ep = 0 /\ attempt = 0
    /\ origin = NoOrigin /\ hops = 0 /\ cancelled \in BOOLEAN
    /\ tries = <<>> /\ last = <<>> /\ version = <<>> /\ carried = {}

LEMMA FreshInv == Fresh => Inv
<1> SUFFICES ASSUME Fresh PROVE Inv
  OBVIOUS
<1>0. DOMAIN doc = {} /\ Waiting = {} /\ DOMAIN queue = {}
  BY DEF Fresh, Waiting, ToSet
<1>1. TypeOK
  <2>1. phase \in Phases
    BY DEF Fresh, Phases, Ended
  <2>2. queue \in Seq(DOMAIN doc)
    BY DEF Fresh
  <2>3. tries \in [DOMAIN doc -> 0 .. MaxRetries + 1] /\ last \in [DOMAIN doc -> Answers \cup {"none"}]
    BY <1>0 DEF Fresh
  <2>4. attempt \in 0 .. MaxRetries + 1 /\ hops \in 0 .. MaxRedirects
    BY DiscoveryAssumption DEF Fresh
  <2> QED  BY <1>0, <2>1, <2>2, <2>3, <2>4 DEF Fresh, TypeOK
<1>2. EarlyInv
  BY DEF Fresh, EarlyInv
<1>3. AttemptInv /\ HandInv
  BY DEF Fresh, AttemptInv, HandInv, Running
<1>4. TokenStaysHome /\ RefusalInv
  BY <1>0 DEF Fresh, TokenStaysHome, RefusalInv
<1>5. QueueInv /\ LeftInv /\ OrderInv
  BY <1>0 DEF Fresh, QueueInv, LeftInv, OrderInv
<1>6. FailsOnlyExhausted
  BY DEF Fresh, FailsOnlyExhausted
<1> QED  BY <1>1, <1>2, <1>3, <1>4, <1>5, <1>6 DEF Inv

LEMMA StartStep ==
    ASSUME Inv, BootstrapDiscover
    PROVE  Inv'
<1>1. Fresh'
  BY DEF BootstrapDiscover, Fresh, Inv, TypeOK
<1>2. (Fresh => Inv)'
  BY FreshInv, PTL
<1> QED  BY <1>1, <1>2

Unmoved == UNCHANGED <<zone, doc, queue, ep, origin, hops, tries, last, version, carried>>

LEMMA CancelStep ==
    ASSUME Inv, Cancel
    PROVE  Inv'
<1>0. /\ Unmoved /\ UNCHANGED <<phase, attempt>> /\ cancelled' = TRUE
      /\ phase \notin {"failed", "resolved", "start"}
  BY DEF Cancel, Unmoved, call, wire, history, Ended
<1>1. TypeOK'
  BY <1>0 DEF Inv, TypeOK, Unmoved
<1>2. EarlyInv' /\ HandInv'
  BY <1>0 DEF Inv, EarlyInv, HandInv, Unmoved
<1>3. AttemptInv'
  BY <1>0 DEF Inv, AttemptInv, Unmoved
<1>4. TokenStaysHome' /\ RefusalInv'
  BY <1>0 DEF Inv, TokenStaysHome, RefusalInv, Unmoved
<1>5. QueueInv' /\ OrderInv'
  BY <1>0 DEF Inv, QueueInv, OrderInv, Waiting, GivenUp, Unmoved
<1>6. LeftInv' /\ FailsOnlyExhausted'
  BY <1>0 DEF LeftInv, FailsOnlyExhausted
<1> QED  BY <1>1, <1>2, <1>3, <1>4, <1>5, <1>6 DEF Inv

\* Nothing but the phase and the number of the attempt changes, while there is
\* no document, or when the caller has given up.
LEMMA PhaseStep ==
    ASSUME Inv, Unmoved, UNCHANGED cancelled, cancelled \/ ep = 0,
           phase \in {"resolve", "alias"} \cup Running,
           phase' \in {"alias", "send", "sent", "wait", "choose", "failed"},
           attempt' \in 0 .. MaxRetries + 1,
           phase' \in Running => attempt' > 0,
           phase' = "wait" => attempt' <= MaxRetries,
           phase' = "alias" => phase = "resolve",
           phase' = "choose" => ep # 0,
           ep # 0 => /\ phase' \notin {"send", "sent"} /\ phase \in Running
                     /\ attempt' = attempt
    PROVE  Inv'
<1>0. ep = 0 => doc = <<>> /\ DOMAIN doc = {} /\ queue = <<>> /\ carried = {} /\ origin = NoOrigin
  BY DEF Inv, EarlyInv
<1>1. TypeOK'
  BY DEF Inv, TypeOK, Unmoved, Phases, Ended
<1>2. EarlyInv' /\ HandInv'
  BY <1>0 DEF Inv, EarlyInv, HandInv, Unmoved, Running
<1>3. AttemptInv'
  BY <1>0 DEF Inv, AttemptInv, Unmoved, Running
<1>4. TokenStaysHome' /\ RefusalInv'
  BY <1>0 DEF Inv, TokenStaysHome, RefusalInv, Unmoved, Running
<1>5. QueueInv' /\ OrderInv'
  BY <1>0 DEF Inv, QueueInv, OrderInv, Waiting, GivenUp, Unmoved, Running
<1>6. LeftInv' /\ FailsOnlyExhausted'
  BY <1>0 DEF LeftInv, FailsOnlyExhausted, Unmoved
<1> QED  BY <1>1, <1>2, <1>3, <1>4, <1>5, <1>6 DEF Inv

LEMMA LookupSteps ==
    ASSUME Inv, Resolve \/ Alias
    PROVE  Inv'
<1>0. 1 \in 0 .. MaxRetries + 1 /\ attempt \in 0 .. MaxRetries + 1
  BY DiscoveryAssumption DEF Inv, TypeOK
<1>1. phase \in {"resolve", "alias"} /\ ep = 0 /\ UNCHANGED cancelled
  BY DEF Resolve, Alias, Inv, EarlyInv
<1>2. /\ Unmoved
      /\ \/ phase' = "send" /\ attempt' = 1
         \/ phase' = "alias" /\ phase = "resolve" /\ attempt' = attempt
  BY <1>1 DEF Resolve, Alias, FetchFrom, Unmoved, call, wire, history
<1> QED  BY <1>0, <1>1, <1>2, PhaseStep DEF Running

\* Endpoints after the one in hand were not asked; those before it are left.
LEMMA AroundHand ==
    ASSUME TypeOK, QueueInv, ep # 0, phase \in Running, NEW k \in DOMAIN doc
    PROVE  /\ ep \in DOMAIN doc /\ ep \notin Waiting
           /\ Prior(doc, ep, k) => tries[k] = 0 /\ k # ep
           /\ Prior(doc, k, ep) => k \notin Waiting /\ k # ep
<1>1. ep \in DOMAIN doc /\ ep \notin Waiting /\ doc \in Documents \cup {<<>>}
  BY DEF TypeOK, QueueInv
<1>2. Prior(doc, ep, k) => ~Prior(doc, k, ep)
  BY <1>1, PriorIsAnOrder
<1>3. ~Prior(doc, ep, ep)
  BY <1>1, PriorIsAnOrder
<1>4. Prior(doc, ep, k) => k \in Waiting
  BY <1>2, <1>3 DEF QueueInv
<1>5. k \in Waiting => Prior(doc, ep, k)
  BY <1>1 DEF QueueInv
<1> QED  BY <1>1, <1>2, <1>3, <1>4, <1>5 DEF QueueInv

LEMMA SendStep ==
    ASSUME Inv, Send
    PROVE  Inv'
<1>0. attempt \in 0 .. MaxRetries + 1 /\ attempt > 0 /\ MaxRetries \in Nat
  BY DiscoveryAssumption DEF Inv, TypeOK, Send, AttemptInv, Running
<1>1. CASE cancelled \/ ep = 0
  <2>1. Unmoved /\ UNCHANGED <<attempt, cancelled>> /\ phase = "send"
    BY <1>1 DEF Send, Unmoved, call, wire, history
  <2>2. \/ cancelled /\ phase' = "wait" /\ attempt <= MaxRetries
        \/ cancelled /\ phase' = "failed"
        \/ cancelled /\ phase' = "choose" /\ ep # 0
        \/ ep = 0 /\ phase' = "sent"
    BY <1>1 DEF Send, Failed, GiveUp, Retry, isRetryableError
  <2> QED  BY <1>0, <1>1, <2>1, <2>2, PhaseStep DEF Running
<1>2. CASE ~cancelled /\ ep # 0
  <2>1. /\ phase = "send" /\ phase' = "sent"
        /\ tries' = [tries EXCEPT ![ep] = tries[ep] + 1]
        /\ carried' = carried \cup {origin}
        /\ UNCHANGED <<zone, doc, queue, ep, attempt, origin, hops, cancelled, last, version>>
    BY <1>2 DEF Send, call, wire
  <2>2. /\ ep \in DOMAIN doc /\ ep \notin Waiting
        /\ \A k \in DOMAIN doc : /\ Prior(doc, ep, k) => tries[k] = 0 /\ k # ep
                                 /\ Prior(doc, k, ep) => k \notin Waiting /\ k # ep
    <3>1. TypeOK /\ QueueInv
      BY DEF Inv
    <3>2. ep \in DOMAIN doc /\ phase \in Running
      BY <1>2, <2>1, <3>1 DEF TypeOK, Running
    <3> QED  BY <1>2, <3>1, <3>2, AroundHand
  <2>3. tries \in [DOMAIN doc -> 0 .. MaxRetries + 1] /\ tries[ep] \in 0 .. MaxRetries + 1
    BY <2>2 DEF Inv, TypeOK
  <2>4. tries[ep] = attempt - 1
    BY <1>2, <2>1 DEF Inv, AttemptInv, Running
  <2>5. /\ tries' \in [DOMAIN doc -> 0 .. MaxRetries + 1]
        /\ tries'[ep] = attempt /\ \A k \in DOMAIN doc \ {ep} : tries'[k] = tries[k]
    BY <1>0, <2>1, <2>2, <2>3, <2>4
  <2>6. TypeOK'
    BY <2>1, <2>5 DEF Inv, TypeOK, Phases
  <2>7. EarlyInv' /\ HandInv'
    BY <1>2, <2>1 DEF Inv, EarlyInv, HandInv, Running
  <2>8. AttemptInv'
    BY <1>0, <2>1, <2>5 DEF AttemptInv, Running
  <2>9. TokenStaysHome'
    <3>1. origin = doc[ep].url /\ doc[ep].url.scheme = "https"
      BY <1>2, <2>1 DEF Inv, HandInv, Running, Usable
    <3> QED  BY <2>1, <2>2, <3>1 DEF Inv, TokenStaysHome
  <2>10. RefusalInv' /\ FailsOnlyExhausted'
    BY <2>1 DEF Inv, RefusalInv, FailsOnlyExhausted
  <2>11. QueueInv'
    <3>1. Waiting' = Waiting /\ Waiting \subseteq DOMAIN doc
      BY <2>1 DEF Waiting, Inv, TypeOK, ToSet
    <3> QED  BY <2>1, <2>2, <2>5, <3>1 DEF Inv, QueueInv, Running
  <2>12. \A k \in DOMAIN doc \ {ep} : GivenUp(k) => GivenUp(k)'
    BY <2>1, <2>5 DEF GivenUp
  <2>13. LeftInv'
    BY <1>2, <2>1, <2>12 DEF Inv, LeftInv, Waiting, Running
  <2>14. OrderInv'
    <3> SUFFICES ASSUME NEW i \in DOMAIN doc, NEW j \in DOMAIN doc,
                        Prior(doc, i, j), Usable(doc[i]), tries'[j] > 0
                 PROVE  GivenUp(i)'
      BY <2>1 DEF OrderInv
    <3>1. CASE j = ep
      <4>1. i \notin Waiting /\ i # ep
        BY <2>2, <3>1
      <4>2. GivenUp(i)
        BY <1>2, <2>1, <4>1 DEF Inv, LeftInv, Running
      <4> QED  BY <2>12, <4>1, <4>2
    <3>2. CASE j # ep
      <4>1. tries[j] > 0
        BY <2>5, <3>2
      <4>2. i # ep
        BY <2>2, <4>1
      <4>3. GivenUp(i)
        BY <4>1 DEF Inv, OrderInv
      <4> QED  BY <2>12, <4>2, <4>3
    <3> QED  BY <3>1, <3>2
  <2> QED
    BY <2>6, <2>7, <2>8, <2>9, <2>10, <2>11, <2>13, <2>14 DEF Inv
<1> QED  BY <1>1, <1>2

LEMMA RedirectStep ==
    ASSUME Inv, NEW o \in Origins, Redirect(o)
    PROVE  Inv'
<1>1. /\ phase = "sent" /\ ep # 0 /\ hops < MaxRedirects
      /\ hops' = hops + 1 /\ origin' = o
      /\ carried' = carried \cup (IF doc[ep].url = o THEN {o} ELSE {})
      /\ UNCHANGED <<zone, phase, doc, queue, ep, attempt, cancelled, tries, last, version>>
  BY DEF Redirect, NextHop, SameOrigin, call
<1>2. TypeOK'
  <2>1. hops' \in 0 .. MaxRedirects
    BY <1>1, DiscoveryAssumption DEF Inv, TypeOK
  <2> QED  BY <1>1, <2>1 DEF Inv, TypeOK
<1>3. EarlyInv' /\ HandInv'
  BY <1>1 DEF Inv, EarlyInv, HandInv, Running
<1>4. AttemptInv' /\ RefusalInv' /\ FailsOnlyExhausted'
  BY <1>1 DEF Inv, AttemptInv, RefusalInv, FailsOnlyExhausted
<1>5. TokenStaysHome'
  <2>1. doc[ep].url.scheme = "https" /\ ep \in DOMAIN doc
    BY <1>1 DEF Inv, HandInv, Running, Usable, TypeOK
  <2> QED  BY <1>1, <2>1 DEF Inv, TokenStaysHome
<1>6. QueueInv' /\ OrderInv' /\ LeftInv'
  BY <1>1 DEF Inv, QueueInv, OrderInv, LeftInv, Waiting, GivenUp
<1> QED  BY <1>2, <1>3, <1>4, <1>5, <1>6 DEF Inv

\* The document is there: every endpoint waits.
LEMMA FetchStep ==
    ASSUME Inv, NEW a \in Answers, FetchAnswer(a)
    PROVE  Inv'
<1>0. /\ phase = "sent" /\ ep = 0 /\ carried = {} /\ origin = NoOrigin
      /\ attempt \in 0 .. MaxRetries + 1 /\ attempt > 0 /\ MaxRetries \in Nat
      /\ UNCHANGED <<zone, ep, attempt, origin, hops, cancelled, carried>>
  BY DiscoveryAssumption
     DEF FetchAnswer, Inv, EarlyInv, Running, TypeOK, AttemptInv, wire
<1>1. CASE a # "success"
  <2>1. Unmoved /\ Failed(a)
    BY <1>0, <1>1 DEF FetchAnswer, Unmoved
  <2>2. (phase' = "wait" /\ attempt <= MaxRetries) \/ phase' = "failed"
    BY <1>0, <2>1 DEF Failed, GiveUp, Retry
  <2> QED  BY <1>0, <2>1, <2>2, PhaseStep DEF Running
<1>2. CASE a = "success"
  <2>1. PICK d \in Documents :
            /\ doc' = d /\ queue' \in sortEndpointsByPriority(d)
            /\ tries' = [i \in DOMAIN d |-> 0]
            /\ last' = [i \in DOMAIN d |-> "none"]
            /\ version' = [i \in DOMAIN d |-> NoVersion]
    BY <1>2 DEF FetchAnswer
  <2>2. phase' = "choose"
    BY <1>2 DEF FetchAnswer
  <2>3. /\ queue' \in Seq(DOMAIN d) /\ ToSet(queue') = DOMAIN d
        /\ \A m, n \in DOMAIN queue' : m < n => Prior(d, queue'[m], queue'[n])
    <3>1. PICK s : s = queue'
      OBVIOUS
    <3>2. /\ s \in Seq(DOMAIN d) /\ ToSet(s) = DOMAIN d
          /\ \A m, n \in DOMAIN s : m < n => Prior(d, s[m], s[n])
      BY <2>1, <3>1, QueueOfDocument
    <3> QED  BY <3>1, <3>2
  <2>4. TypeOK'
    <3>1. /\ tries' \in [DOMAIN d -> 0 .. MaxRetries + 1]
          /\ last' \in [DOMAIN d -> Answers \cup {"none"}] /\ DOMAIN version' = DOMAIN d
      BY <1>0, <2>1
    <3> QED  BY <1>0, <2>1, <2>2, <2>3, <3>1 DEF Inv, TypeOK, Phases
  <2>5. EarlyInv' /\ AttemptInv' /\ HandInv'
    BY <2>2 DEF EarlyInv, AttemptInv, HandInv, Running
  <2>6. TokenStaysHome' /\ RefusalInv' /\ FailsOnlyExhausted'
    BY <1>0, <2>1, <2>2 DEF TokenStaysHome, RefusalInv, FailsOnlyExhausted, Refusal
  <2>7. Waiting' = DOMAIN d /\ \A k \in DOMAIN d : tries'[k] = 0
    BY <2>1, <2>3 DEF Waiting
  <2>8. QueueInv'
    BY <1>0, <2>1, <2>3, <2>7 DEF QueueInv
  <2>9. LeftInv' /\ OrderInv'
    BY <2>1, <2>7 DEF LeftInv, OrderInv
  <2> QED  BY <2>4, <2>5, <2>6, <2>8, <2>9 DEF Inv
<1> QED  BY <1>1, <1>2

\* The loop comes to the first endpoint that waits.
LEMMA TakeHead ==
    ASSUME TypeOK, QueueInv, queue # <<>>, NEW h, h = Head(queue),
           queue' = Tail(queue), doc' = doc
    PROVE  /\ h \in DOMAIN doc /\ Waiting = {h} \cup Waiting' /\ h \notin Waiting'
           /\ queue' \in Seq(DOMAIN doc)
           /\ \A m, n \in DOMAIN queue' : m < n => Prior(doc, queue'[m], queue'[n])
           /\ \A k \in DOMAIN doc \ Waiting' : \A j \in Waiting' : Prior(doc, k, j)
           /\ \A k \in DOMAIN doc \ Waiting' : k = h \/ Prior(doc, k, h)
<1>0. queue \in Seq(DOMAIN doc) /\ doc \in Documents \cup {<<>>}
  BY DEF TypeOK
<1>1. PICK q \in Seq(DOMAIN doc) : q = queue
  BY <1>0
<1>2. PICK t \in Seq(DOMAIN doc) : t = Tail(q)
  BY <1>1, <1>0
<1>3. /\ h \in DOMAIN doc /\ h = q[1] /\ 1 \in DOMAIN q
      /\ \A m \in DOMAIN t : m + 1 \in DOMAIN q /\ t[m] = q[m + 1] /\ m \in Nat /\ m > 0
      /\ ToSet(q) = {h} \cup ToSet(t)
  <2>1. DOMAIN doc = DOMAIN doc /\ q # <<>> /\ h = Head(q)
    BY <1>1
  <2>2. /\ Head(q) \in DOMAIN doc /\ Tail(q) \in Seq(DOMAIN doc) /\ Head(q) = q[1] /\ 1 \in DOMAIN q
        /\ DOMAIN Tail(q) = 1..Len(q) - 1 /\ DOMAIN q = 1..Len(q) /\ Len(q) \in Nat
        /\ \A m \in DOMAIN Tail(q) : m + 1 \in DOMAIN q /\ Tail(q)[m] = q[m + 1] /\ m \in Nat
        /\ ToSet(q) = {Head(q)} \cup ToSet(Tail(q))
    BY <2>1, QueueTail
  <2>3. \A m \in 1..Len(q) - 1 : m > 0
    BY <2>2
  <2> QED  BY <1>2, <2>1, <2>2, <2>3
<1>4. \A m, n \in DOMAIN q : m < n => Prior(doc, q[m], q[n])
  BY <1>1 DEF QueueInv
<1>5. \A m, n \in DOMAIN t : m < n => Prior(doc, t[m], t[n])
  <2>1. \A m, n \in DOMAIN t : m < n => m + 1 < n + 1
    BY <1>3
  <2> QED  BY <1>3, <1>4, <2>1
<1>6. \A j \in ToSet(t) : Prior(doc, h, j)
  <2> SUFFICES ASSUME NEW m \in DOMAIN t PROVE Prior(doc, h, t[m])
    BY DEF ToSet
  <2>1. 1 < m + 1
    BY <1>3
  <2> QED  BY <1>3, <1>4, <2>1
<1>7. h \notin ToSet(t)
  <2>1. ~Prior(doc, h, h)
    BY <1>0, <1>3, PriorIsAnOrder
  <2> QED  BY <1>6, <2>1
<1>8. Waiting = ToSet(q) /\ Waiting' = ToSet(t) /\ queue' = t
  BY <1>1, <1>2 DEF Waiting
<1>9. \A k \in DOMAIN doc \ ToSet(q) : \A j \in ToSet(q) : Prior(doc, k, j)
  BY <1>8 DEF QueueInv
<1> QED  BY <1>3, <1>5, <1>6, <1>7, <1>8, <1>9

LEMMA ChooseStep ==
    ASSUME Inv, Choose
    PROVE  Inv'
<1>0. /\ phase = "choose" /\ UNCHANGED <<zone, doc, cancelled, tries, last, carried>>
      /\ TypeOK /\ QueueInv /\ MaxRetries \in Nat
  BY DiscoveryAssumption DEF Choose, Inv, call, history
<1>1. \A k \in DOMAIN doc : GivenUp(k)' = GivenUp(k)
  BY <1>0 DEF GivenUp
<1>2. OrderInv' /\ TokenStaysHome'
  BY <1>0, <1>1 DEF Inv, OrderInv, TokenStaysHome
<1>3. RefusalInv'
  BY <1>0 DEF Inv, RefusalInv
<1>4. ~cancelled => \A k \in DOMAIN doc \ Waiting : ~Usable(doc[k]) \/ GivenUp(k)
  BY <1>0 DEF Inv, LeftInv, Running
<1>5. CASE queue = <<>>
  <2>1. phase' = "failed" /\ UNCHANGED <<queue, ep, attempt, origin, hops, version>>
    BY <1>5 DEF Choose, call, wire, history
  <2>2. Waiting = {} /\ Waiting' = {}
    BY <1>5, <2>1 DEF Waiting, ToSet
  <2>3. TypeOK'
    BY <1>0, <2>1 DEF TypeOK, Phases, Ended
  <2>4. EarlyInv' /\ AttemptInv' /\ HandInv' /\ LeftInv'
    BY <2>1 DEF EarlyInv, AttemptInv, HandInv, LeftInv, Running
  <2>5. QueueInv'
    BY <1>0, <2>1, <2>2 DEF QueueInv, Running
  <2>6. FailsOnlyExhausted'
    BY <1>0, <1>4, <2>2 DEF FailsOnlyExhausted, GivenUp
  <2> QED  BY <1>2, <1>3, <2>3, <2>4, <2>5, <2>6 DEF Inv
<1>6. CASE queue # <<>>
  <2>1. PICK h : h = Head(queue)
    OBVIOUS
  <2>2. queue' = Tail(queue)
    BY <1>6 DEF Choose
  <2>3. /\ h \in DOMAIN doc /\ Waiting = {h} \cup Waiting' /\ h \notin Waiting'
        /\ queue' \in Seq(DOMAIN doc)
        /\ \A m, n \in DOMAIN queue' : m < n => Prior(doc, queue'[m], queue'[n])
        /\ \A k \in DOMAIN doc \ Waiting' : \A j \in Waiting' : Prior(doc, k, j)
        /\ \A k \in DOMAIN doc \ Waiting' : k = h \/ Prior(doc, k, h)
    BY <1>0, <1>6, <2>1, <2>2, TakeHead
  <2>4. tries[h] = 0 /\ \A j \in Waiting' : tries'[j] = 0
    BY <1>0, <2>3 DEF QueueInv
  <2>5. CASE ~Usable(doc[h])
    <3>1. UNCHANGED <<phase, ep, attempt, origin, hops, version>>
      BY <1>6, <2>1, <2>5 DEF Choose, wire, history
    <3>2. TypeOK'
      BY <1>0, <2>3, <3>1 DEF TypeOK
    <3>3. EarlyInv' /\ AttemptInv' /\ HandInv' /\ FailsOnlyExhausted'
      BY <1>0, <3>1 DEF EarlyInv, AttemptInv, HandInv, FailsOnlyExhausted, Running
    <3>4. QueueInv'
      BY <1>0, <2>3, <2>4, <3>1 DEF QueueInv, Running
    <3>5. LeftInv'
      BY <1>0, <1>1, <1>4, <2>3, <2>5 DEF LeftInv
    <3> QED  BY <1>2, <1>3, <3>2, <3>3, <3>4, <3>5 DEF Inv
  <2>6. CASE Usable(doc[h])
    <3>1. /\ ep' = h /\ attempt' = 1 /\ origin' = doc[h].url /\ hops' = 0 /\ phase' = "send"
          /\ DOMAIN version' = DOMAIN version
      BY <1>6, <2>1, <2>6 DEF Choose
    <3>2. h # 0
      BY <1>0, <2>3, DocsAre DEF TypeOK
    <3>3. TypeOK'
      <4>1. 1 \in 0 .. MaxRetries + 1 /\ 0 \in 0 .. MaxRedirects
        BY DiscoveryAssumption
      <4> QED  BY <1>0, <2>3, <3>1, <4>1 DEF TypeOK, Phases
    <3>4. EarlyInv' /\ HandInv' /\ FailsOnlyExhausted'
      BY <1>0, <2>6, <3>1, <3>2 DEF EarlyInv, HandInv, FailsOnlyExhausted
    <3>5. AttemptInv'
      BY <1>0, <2>4, <3>1 DEF AttemptInv
    <3>6. QueueInv'
      BY <1>0, <2>3, <2>4, <3>1 DEF QueueInv
    <3>7. LeftInv'
      BY <1>0, <1>1, <1>4, <2>3, <3>1 DEF LeftInv, Running
    <3> QED  BY <1>2, <1>3, <3>3, <3>4, <3>5, <3>6, <3>7 DEF Inv
  <2> QED  BY <2>5, <2>6
<1> QED  BY <1>5, <1>6

LEMMA AnswerStep ==
    ASSUME Inv, NEW a \in Answers, DiscoverAnswer(a)
    PROVE  Inv'
<1>1. /\ phase = "sent" /\ ep # 0
      /\ last' = [last EXCEPT ![ep] = a]
      /\ UNCHANGED <<zone, doc, queue, ep, attempt, origin, hops, cancelled, tries, version, carried>>
      /\ IF a = "success" THEN phase' = "resolved" ELSE Failed(a)
  BY DEF DiscoverAnswer, call, wire
<1>2. TypeOK /\ QueueInv /\ MaxRetries \in Nat /\ ep \in DOMAIN doc /\ phase \in Running
  BY <1>1, DiscoveryAssumption DEF Inv, TypeOK, Running
<1>3. \A k \in DOMAIN doc : Prior(doc, ep, k) => tries[k] = 0 /\ k # ep
  BY <1>1, <1>2, AroundHand
<1>4. /\ attempt \in 0 .. MaxRetries + 1 /\ attempt > 0 /\ tries[ep] = attempt
  BY <1>1, <1>2 DEF Inv, TypeOK, AttemptInv
<1>5. /\ last \in [DOMAIN doc -> Answers \cup {"none"}]
      /\ last' \in [DOMAIN doc -> Answers \cup {"none"}]
      /\ last'[ep] = a /\ \A k \in DOMAIN doc \ {ep} : last'[k] = last[k]
  BY <1>1, <1>2 DEF TypeOK
<1>6. \/ a = "success" /\ phase' = "resolved"
      \/ a # "success" /\ isRetryableError(a) /\ attempt <= MaxRetries /\ phase' = "wait"
      \/ a # "success" /\ Refusal(a) /\ phase' = "failed"
      \/ /\ a # "success" /\ ~Refusal(a) /\ phase' = "choose"
         /\ isRetryableError(a) => attempt > MaxRetries
  <2>1. Retry(a, attempt) => ~Refusal(a)
    BY DEF Retry, isRetryableError, Refusal
  <2>2. isRetryableError(a) /\ ~Retry(a, attempt) => attempt > MaxRetries
    BY <1>2, <1>4 DEF Retry
  <2> QED  BY <1>1, <2>1, <2>2 DEF Failed, GiveUp, Retry
<1>7. phase' = "choose" => GivenUp(ep)'
  <2> SUFFICES ASSUME phase' = "choose" PROVE GivenUp(ep)'
    OBVIOUS
  <2>1. a \notin {"success", "none"} /\ (a \in {"serverError", "transport"} => attempt > MaxRetries)
    BY <1>6 DEF Answers, isRetryableError
  <2> QED  BY <1>1, <1>4, <1>5, <2>1 DEF GivenUp
<1>8. \A k \in DOMAIN doc \ {ep} : GivenUp(k)' = GivenUp(k)
  BY <1>1, <1>5 DEF GivenUp
<1>9. TypeOK'
  BY <1>1, <1>2, <1>5, <1>6 DEF TypeOK, Phases, Ended
<1>10. EarlyInv' /\ HandInv' /\ TokenStaysHome'
  BY <1>1, <1>6 DEF Inv, EarlyInv, HandInv, TokenStaysHome, Running
<1>11. AttemptInv'
  BY <1>1, <1>2, <1>4, <1>6 DEF Inv, AttemptInv, Running
<1>12. RefusalInv'
  <2>1. \A k \in DOMAIN doc : ~Refusal(last[k])
    BY <1>1 DEF Inv, RefusalInv
  <2>2. Refusal(a) => phase' = "failed"
    BY <1>6 DEF Refusal, isRetryableError
  <2> QED  BY <1>1, <1>5, <2>1, <2>2 DEF RefusalInv
<1>13. FailsOnlyExhausted'
  <2>1. phase' = "failed" => a \in {"unauthorized", "forbidden", "unknown"}
    BY <1>6 DEF Refusal
  <2> QED  BY <1>1, <1>2, <1>5, <2>1 DEF FailsOnlyExhausted
<1>14. QueueInv'
  <2>1. Waiting' = Waiting
    BY <1>1 DEF Waiting
  <2> QED  BY <1>1, <1>2, <2>1 DEF QueueInv
<1>15. LeftInv'
  <2> SUFFICES ASSUME ~cancelled, phase' \in {"choose"} \cup Running, NEW k \in DOMAIN doc \ Waiting
               PROVE  (phase' \in Running /\ k = ep) \/ ~Usable(doc[k]) \/ GivenUp(k)'
    BY <1>1 DEF LeftInv, Waiting
  <2>1. CASE k = ep
    BY <1>1, <1>7, <2>1 DEF GivenUp, Running
  <2>2. CASE k # ep
    BY <1>2, <1>8, <2>2 DEF Inv, LeftInv
  <2> QED  BY <2>1, <2>2
<1>16. OrderInv'
  <2> SUFFICES ASSUME NEW i \in DOMAIN doc, NEW j \in DOMAIN doc,
                      Prior(doc, i, j), Usable(doc[i]), tries[j] > 0
               PROVE  GivenUp(i)'
    BY <1>1 DEF OrderInv
  <2>1. i # ep
    BY <1>3
  <2>2. GivenUp(i)
    BY DEF Inv, OrderInv
  <2> QED  BY <1>8, <2>1, <2>2
<1> QED
  BY <1>9, <1>10, <1>11, <1>12, <1>13, <1>14, <1>15, <1>16 DEF Inv

LEMMA WaitStep ==
    ASSUME Inv, Wait
    PROVE  Inv'
<1>0. /\ phase = "wait" /\ attempt \in 0 .. MaxRetries + 1 /\ attempt > 0 /\ attempt <= MaxRetries
      /\ MaxRetries \in Nat /\ phase \in Running
      /\ UNCHANGED <<zone, doc, queue, ep, cancelled, tries, last, version, carried>>
  BY DiscoveryAssumption DEF Wait, Inv, TypeOK, AttemptInv, Running, history
<1>1. CASE cancelled /\ GiveUp("cancelled") /\ UNCHANGED <<attempt, wire>>
  <2>1. phase' = "failed" \/ (phase' = "choose" /\ ep # 0)
    BY <1>1 DEF GiveUp
  <2>2. Unmoved
    BY <1>0, <1>1 DEF Unmoved, wire
  <2> QED  BY <1>0, <1>1, <2>1, <2>2, PhaseStep DEF Running
<1>2. CASE ep = 0 /\ phase' = "send" /\ attempt' = attempt + 1 /\ UNCHANGED wire
  <2>1. Unmoved
    BY <1>0, <1>2 DEF Unmoved, wire
  <2>2. attempt' \in 0 .. MaxRetries + 1 /\ attempt' > 0
    BY <1>0, <1>2
  <2> QED  BY <1>0, <1>2, <2>1, <2>2, PhaseStep DEF Running
<1>3. CASE ep # 0 /\ phase' = "send" /\ attempt' = attempt + 1 /\ origin' = doc[ep].url /\ hops' = 0
  <2>1. attempt' \in 0 .. MaxRetries + 1 /\ attempt' > 0 /\ 0 \in 0 .. MaxRedirects
    BY <1>0, <1>3, DiscoveryAssumption
  <2>2. ep \in DOMAIN doc /\ tries[ep] \in 0 .. MaxRetries + 1
    BY <1>3 DEF Inv, TypeOK
  <2>3. TypeOK'
    BY <1>0, <1>3, <2>1, <2>2 DEF Inv, TypeOK, Phases
  <2>4. EarlyInv' /\ HandInv' /\ TokenStaysHome'
    BY <1>0, <1>3 DEF Inv, EarlyInv, HandInv, TokenStaysHome
  <2>5. AttemptInv'
    <3>1. tries[ep] <= attempt /\ (~cancelled => tries[ep] = attempt)
      BY <1>0, <1>3 DEF Inv, AttemptInv
    <3> QED  BY <1>0, <1>3, <2>1, <2>2, <3>1 DEF AttemptInv
  <2>6. RefusalInv' /\ FailsOnlyExhausted'
    BY <1>0, <1>3 DEF Inv, RefusalInv, FailsOnlyExhausted
  <2>7. QueueInv' /\ OrderInv' /\ LeftInv'
    BY <1>0, <1>3 DEF Inv, QueueInv, OrderInv, LeftInv, Waiting, GivenUp, Running
  <2> QED  BY <2>3, <2>4, <2>5, <2>6, <2>7 DEF Inv
<1> QED  BY <1>1, <1>2, <1>3 DEF Wait

-----------------------------------------------------------------------------
(* The theorems.                                                           *)

LEMMA InvHolds == Spec => []Inv
<1>1. Init => Inv
  <2>1. Init => Fresh
    BY DEF Init, Fresh
  <2> QED  BY <2>1, FreshInv
<1>2. Inv /\ [Next]_vars => Inv'
  <2> SUFFICES ASSUME Inv, [Next]_vars PROVE Inv'
    OBVIOUS
  <2>1. CASE BootstrapDiscover
    BY <2>1, StartStep
  <2>2. CASE Cancel
    BY <2>2, CancelStep
  <2>3. CASE Resolve \/ Alias
    BY <2>3, LookupSteps
  <2>4. CASE Send
    BY <2>4, SendStep
  <2>5. CASE Choose
    BY <2>5, ChooseStep
  <2>6. CASE Wait
    BY <2>6, WaitStep
  <2>7. CASE \E o \in Origins : Redirect(o)
    BY <2>7, RedirectStep
  <2>8. CASE \E a \in Answers : FetchAnswer(a)
    BY <2>8, FetchStep
  <2>9. CASE \E a \in Answers : DiscoverAnswer(a)
    BY <2>9, AnswerStep
  <2>10. CASE UNCHANGED vars
    BY <2>10 DEF vars, call, wire, history, Inv, TypeOK, EarlyInv, AttemptInv, HandInv,
                 TokenStaysHome, RefusalInv, QueueInv, LeftInv, OrderInv, FailsOnlyExhausted,
                 Waiting, GivenUp
  <2> QED  BY <2>1, <2>2, <2>3, <2>4, <2>5, <2>6, <2>7, <2>8, <2>9, <2>10 DEF Next, Step
<1> QED  BY <1>1, <1>2, PTL DEF Spec

(***************************************************************************)
(* The whole inductive invariant: every variable keeps its kind, no        *)
(* endpoint is asked more often than retryWithBackoff allows, a request    *)
(* starts at the address of the endpoint in hand, and the queue of the     *)
(* loop in BootstrapDiscover holds, in order, the endpoints after it.      *)
(***************************************************************************)
THEOREM DiscoveryInvariant == Spec => []Inv
BY InvHolds

(***************************************************************************)
(* The token stays home: whatever chain of redirects the servers answer    *)
(* with, crossOriginCheckRedirect lets it go to no origin but the https    *)
(* endpoints the document lists.                                           *)
(***************************************************************************)
THEOREM TokenStaysHomeHolds == Spec => []TokenStaysHome
<1>1. Inv => TokenStaysHome
  BY DEF Inv
<1> QED  BY <1>1, InvHolds, PTL

(***************************************************************************)
(* Failover order: for any document, an endpoint is asked only after every *)
(* usable endpoint that sortEndpointsByPriority puts before it was asked   *)
(* and given up, after all its retries if the failure was transient.       *)
(***************************************************************************)
THEOREM FailoverInOrderHolds == Spec => []FailoverInOrder
<1>1. Inv => FailoverInOrder
  BY DEF Inv, OrderInv, FailoverInOrder, Prior, endpointPriority, GivenUp
<1> QED  BY <1>1, InvHolds, PTL

(***************************************************************************)
(* Failure is the last resort: a call that was not cancelled and fails     *)
(* with a document in hand was refused, or let down by every usable        *)
(* endpoint of it.                                                         *)
(***************************************************************************)
THEOREM FailsOnlyExhaustedHolds == Spec => []FailsOnlyExhausted
<1>1. Inv => FailsOnlyExhausted
  BY DEF Inv
<1> QED  BY <1>1, InvHolds, PTL

(***************************************************************************)
(* A refusal is final: after a 401 or a 403 of any endpoint no step of     *)
(* that call asks an endpoint again.                                       *)
(***************************************************************************)
THEOREM RefusalIsFinalHolds == Spec => RefusalIsFinal
<1>1. Inv /\ [Next]_vars =>
        [(\E i \in DOMAIN last : last[i] \in {"unauthorized", "forbidden"}) =>
            \A j \in DOMAIN tries' : tries'[j] <= tries[j]]_vars
  <2> SUFFICES ASSUME Inv, Next,
                      NEW i \in DOMAIN last, last[i] \in {"unauthorized", "forbidden"}
               PROVE  \A j \in DOMAIN tries' : tries'[j] <= tries[j]
    OBVIOUS
  <2>1. phase = "failed"
    BY DEF Inv, TypeOK, RefusalInv, Refusal
  <2>2. BootstrapDiscover
    BY <2>1 DEF Next, Step, Cancel, Ended, Resolve, Alias, Send, Choose, Wait, Redirect,
                FetchAnswer, DiscoverAnswer
  <2>3. tries' = <<>>
    BY <2>2 DEF BootstrapDiscover
  <2> QED  BY <2>3
<1> QED  BY <1>1, InvHolds, PTL DEF Spec, RefusalIsFinal

-----------------------------------------------------------------------------
(* Precedence of versions is a strict order: no version comes after        *)
(* itself, and what comes after a later version comes after the earlier.   *)

LEMMA MinOfTwo ==
    ASSUME NEW a \in Nat, NEW b \in Nat
    PROVE  /\ Min({a, b}) \in Nat /\ Min({a, b}) <= a /\ Min({a, b}) <= b
           /\ \A i \in Nat : i <= Min({a, b}) <=> i <= a /\ i <= b
<1>1. \E x \in {a, b} : \A y \in {a, b} : x <= y
  OBVIOUS
<1>2. Min({a, b}) \in {a, b} /\ \A y \in {a, b} : Min({a, b}) <= y
  BY <1>1 DEF Min
<1> QED  BY <1>2

LEMMA FieldOrder ==
    ASSUME NEW x \in PreReleaseFields, NEW y \in PreReleaseFields, NEW z \in PreReleaseFields
    PROVE  /\ ~HigherField(x, x)
           /\ HigherField(x, y) /\ HigherField(y, z) => HigherField(x, z)
           /\ HigherField(x, y) /\ SameField(y, z) => HigherField(x, z)
           /\ SameField(x, y) /\ HigherField(y, z) => HigherField(x, z)
           /\ SameField(x, y) /\ SameField(y, z) => SameField(x, z)
<1>1. /\ x.rank \in Int /\ y.rank \in Int /\ z.rank \in Int
      /\ x.numeric \in BOOLEAN /\ y.numeric \in BOOLEAN /\ z.numeric \in BOOLEAN
  BY DEF PreReleaseFields
<1> QED  BY <1>1 DEF HigherField, SameField

\* x is higher than y from field i on.
HigherAt(x, y, i) ==
    /\ i <= Len(x) /\ i <= Len(y) /\ HigherField(x[i], y[i])
    /\ \A j \in 1 .. i - 1 : SameField(x[j], y[j])

\* x has all the fields of y, and more.
Longer(x, y) == Len(x) > Len(y) /\ \A j \in 1 .. Len(y) : SameField(x[j], y[j])

LEMMA HigherFieldsIs ==
    ASSUME NEW x \in Seq(PreReleaseFields), NEW y \in Seq(PreReleaseFields)
    PROVE  HigherFields(x, y) <=> (\E i \in Nat \ {0} : HigherAt(x, y, i)) \/ Longer(x, y)
<1> DEFINE n == Min({Len(x), Len(y)})
<1>1. Len(x) \in Nat /\ Len(y) \in Nat
  OBVIOUS
<1>2. n \in Nat /\ \A i \in Nat : i <= n <=> i <= Len(x) /\ i <= Len(y)
  BY <1>1, MinOfTwo
<1>3. HigherFields(x, y) <=>
        \/ \E i \in 1 .. n : /\ HigherField(x[i], y[i])
                             /\ \A j \in 1 .. i - 1 : SameField(x[j], y[j])
        \/ Len(x) > Len(y) /\ \A j \in 1 .. n : SameField(x[j], y[j])
  BY DEF HigherFields
<1> HIDE DEF n
<1>4. \A i \in Nat \ {0} : i \in 1 .. n <=> i <= Len(x) /\ i <= Len(y)
  BY <1>2
<1>5. Len(x) > Len(y) => n = Len(y)
  BY <1>1, <1>2
<1>6. 1 .. n \subseteq Nat \ {0}
  BY <1>2
<1>7. (\E i \in 1 .. n : HigherField(x[i], y[i]) /\ \A j \in 1 .. i - 1 : SameField(x[j], y[j]))
        <=> \E i \in Nat \ {0} : HigherAt(x, y, i)
  BY <1>4, <1>6 DEF HigherAt
<1> QED  BY <1>3, <1>5, <1>7 DEF Longer

LEMMA FieldsOrder ==
    ASSUME NEW x \in Seq(PreReleaseFields), NEW y \in Seq(PreReleaseFields),
           NEW z \in Seq(PreReleaseFields)
    PROVE  /\ ~HigherFields(x, x)
           /\ HigherFields(x, y) /\ HigherFields(y, z) => HigherFields(x, z)
<1>1. Len(x) \in Nat /\ Len(y) \in Nat /\ Len(z) \in Nat
  OBVIOUS
<1>2. /\ \A i \in Nat \ {0} : i <= Len(x) => x[i] \in PreReleaseFields
      /\ \A i \in Nat \ {0} : i <= Len(y) => y[i] \in PreReleaseFields
      /\ \A i \in Nat \ {0} : i <= Len(z) => z[i] \in PreReleaseFields
  BY <1>1
<1>3. ~HigherFields(x, x)
  <2>1. ~Longer(x, x)
    BY <1>1 DEF Longer
  <2>2. ASSUME NEW i \in Nat \ {0}, HigherAt(x, x, i) PROVE FALSE
    BY <1>2, <2>2, FieldOrder DEF HigherAt
  <2> QED  BY <2>1, <2>2, HigherFieldsIs
<1>4. ASSUME NEW i \in Nat \ {0}, NEW k \in Nat \ {0}, HigherAt(x, y, i), HigherAt(y, z, k)
      PROVE  \E m \in Nat \ {0} : HigherAt(x, z, m)
  <2>0. PICK m \in Nat \ {0} : m <= i /\ m <= k /\ (m = i \/ m = k)
    OBVIOUS
  <2>1. m <= Len(x) /\ m <= Len(y) /\ m <= Len(z)
    BY <1>1, <1>4, <2>0 DEF HigherAt
  <2>2. x[m] \in PreReleaseFields /\ y[m] \in PreReleaseFields /\ z[m] \in PreReleaseFields
    BY <1>2, <2>1
  <2>3. HigherField(x[m], z[m])
    <3>1. CASE m = i /\ m = k
      BY <1>4, <2>2, <3>1, FieldOrder DEF HigherAt
    <3>2. CASE m = i /\ m # k
      <4>1. m \in 1 .. k - 1
        BY <2>0, <3>2
      <4> QED  BY <1>4, <2>2, <3>2, <4>1, FieldOrder DEF HigherAt
    <3>3. CASE m # i /\ m = k
      <4>1. m \in 1 .. i - 1
        BY <2>0, <3>3
      <4> QED  BY <1>4, <2>2, <3>3, <4>1, FieldOrder DEF HigherAt
    <3> QED  BY <2>0, <3>1, <3>2, <3>3
  <2>4. ASSUME NEW j \in 1 .. m - 1 PROVE SameField(x[j], z[j])
    <3>1. j \in 1 .. i - 1 /\ j \in 1 .. k - 1 /\ j \in Nat \ {0}
      BY <2>0
    <3>2. j <= Len(x) /\ j <= Len(y) /\ j <= Len(z)
      BY <1>1, <2>0, <2>1
    <3>3. SameField(x[j], y[j]) /\ SameField(y[j], z[j])
      BY <1>4, <3>1 DEF HigherAt
    <3>4. x[j] \in PreReleaseFields /\ y[j] \in PreReleaseFields /\ z[j] \in PreReleaseFields
      BY <1>2, <3>1, <3>2
    <3> QED  BY <3>3, <3>4, FieldOrder
  <2>5. HigherAt(x, z, m)
    BY <2>1, <2>3, <2>4 DEF HigherAt
  <2> QED  BY <2>5
<1>5. ASSUME NEW i \in Nat \ {0}, HigherAt(x, y, i), Longer(y, z)
      PROVE  HigherAt(x, z, i) \/ Longer(x, z)
  <2>1. ASSUME NEW j \in 1 .. Len(z), j < i PROVE SameField(x[j], z[j])
    <3>1. j \in 1 .. i - 1 /\ j \in Nat \ {0} /\ j <= Len(x) /\ j <= Len(y) /\ j <= Len(z)
      BY <1>1, <1>5, <2>1 DEF HigherAt
    <3>2. SameField(x[j], y[j]) /\ SameField(y[j], z[j])
      BY <1>5, <3>1 DEF HigherAt, Longer
    <3>3. x[j] \in PreReleaseFields /\ y[j] \in PreReleaseFields /\ z[j] \in PreReleaseFields
      BY <1>2, <3>1
    <3> QED  BY <3>2, <3>3, FieldOrder
  <2>2. CASE i <= Len(z)
    <3>1. i <= Len(x) /\ i <= Len(y) /\ i \in 1 .. Len(z)
      BY <1>1, <1>5, <2>2 DEF HigherAt
    <3>2. x[i] \in PreReleaseFields /\ y[i] \in PreReleaseFields /\ z[i] \in PreReleaseFields
      BY <1>2, <2>2, <3>1
    <3>3. HigherField(x[i], y[i]) /\ SameField(y[i], z[i])
      BY <1>5, <3>1 DEF HigherAt, Longer
    <3>4. HigherField(x[i], z[i])
      BY <3>2, <3>3, FieldOrder
    <3>5. \A j \in 1 .. i - 1 : SameField(x[j], z[j])
      BY <1>1, <2>1, <2>2
    <3> QED  BY <2>2, <3>1, <3>4, <3>5 DEF HigherAt
  <2>3. CASE ~(i <= Len(z))
    <3>1. Len(x) > Len(z) /\ \A j \in 1 .. Len(z) : j < i
      BY <1>1, <1>5, <2>3 DEF HigherAt
    <3> QED  BY <2>1, <3>1 DEF Longer
  <2> QED  BY <2>2, <2>3
<1>6. ASSUME NEW k \in Nat \ {0}, Longer(x, y), HigherAt(y, z, k)
      PROVE  HigherAt(x, z, k)
  <2>1. ASSUME NEW j \in 1 .. k
        PROVE  /\ SameField(x[j], y[j]) /\ j \in Nat \ {0}
               /\ x[j] \in PreReleaseFields /\ y[j] \in PreReleaseFields /\ z[j] \in PreReleaseFields
    <3>1. j \in 1 .. Len(y) /\ j \in Nat \ {0} /\ j <= Len(x) /\ j <= Len(y) /\ j <= Len(z)
      BY <1>1, <1>6 DEF HigherAt, Longer
    <3> QED  BY <1>2, <1>6, <3>1 DEF Longer
  <2>2. k \in 1 .. k /\ \A j \in 1 .. k - 1 : j \in 1 .. k
    OBVIOUS
  <2>3. HigherField(x[k], z[k])
    BY <1>6, <2>1, <2>2, FieldOrder DEF HigherAt
  <2>4. \A j \in 1 .. k - 1 : SameField(x[j], z[j])
    BY <1>6, <2>1, <2>2, FieldOrder DEF HigherAt
  <2>5. k <= Len(x) /\ k <= Len(z)
    BY <1>1, <1>6 DEF HigherAt, Longer
  <2> QED  BY <2>3, <2>4, <2>5 DEF HigherAt
<1>7. ASSUME Longer(x, y), Longer(y, z) PROVE Longer(x, z)
  <2>1. Len(x) > Len(z) /\ \A j \in 1 .. Len(z) : j \in 1 .. Len(y) /\ j \in Nat \ {0}
                              /\ j <= Len(x) /\ j <= Len(y) /\ j <= Len(z)
    BY <1>1, <1>7 DEF Longer
  <2>2. ASSUME NEW j \in 1 .. Len(z) PROVE SameField(x[j], z[j])
    <3>1. SameField(x[j], y[j]) /\ SameField(y[j], z[j])
      BY <1>7, <2>1 DEF Longer
    <3>2. x[j] \in PreReleaseFields /\ y[j] \in PreReleaseFields /\ z[j] \in PreReleaseFields
      BY <1>2, <2>1
    <3> QED  BY <3>1, <3>2, FieldOrder
  <2> QED  BY <2>1, <2>2 DEF Longer
<1>8. ASSUME HigherFields(x, y), HigherFields(y, z) PROVE HigherFields(x, z)
  <2>1. (\E i \in Nat \ {0} : HigherAt(x, y, i)) \/ Longer(x, y)
    BY <1>8, HigherFieldsIs
  <2>2. (\E i \in Nat \ {0} : HigherAt(y, z, i)) \/ Longer(y, z)
    BY <1>8, HigherFieldsIs
  <2>3. (\E i \in Nat \ {0} : HigherAt(x, z, i)) \/ Longer(x, z)
    BY <1>4, <1>5, <1>6, <1>7, <2>1, <2>2
  <2> QED  BY <2>3, HigherFieldsIs
<1> QED  BY <1>3, <1>8

\* The numbers of a are higher than those of b from place i on.
HigherNumber(a, b) ==
    \E i \in 1 .. 3 : a.num[i] > b.num[i] /\ \A j \in 1 .. i - 1 : a.num[j] = b.num[j]

LEMMA NumberOrder ==
    ASSUME NEW a \in SemVers, NEW b \in SemVers, NEW c \in SemVers
    PROVE  /\ ~HigherNumber(a, a)
           /\ HigherNumber(a, b) /\ HigherNumber(b, c) => HigherNumber(a, c)
<1>1. \A i \in 1 .. 3 : a.num[i] \in Nat /\ b.num[i] \in Nat /\ c.num[i] \in Nat
  BY DEF SemVers
<1>2. ~HigherNumber(a, a)
  BY <1>1 DEF HigherNumber
<1>3. ASSUME HigherNumber(a, b), HigherNumber(b, c) PROVE HigherNumber(a, c)
  <2>1. PICK i \in 1 .. 3 : a.num[i] > b.num[i] /\ \A j \in 1 .. i - 1 : a.num[j] = b.num[j]
    BY <1>3 DEF HigherNumber
  <2>2. PICK k \in 1 .. 3 : b.num[k] > c.num[k] /\ \A j \in 1 .. k - 1 : b.num[j] = c.num[j]
    BY <1>3 DEF HigherNumber
  <2>3. PICK m \in 1 .. 3 : m <= i /\ m <= k /\ (m = i \/ m = k)
    OBVIOUS
  <2>4. /\ m # i => m \in 1 .. i - 1
        /\ m # k => m \in 1 .. k - 1
        /\ \A j \in 1 .. m - 1 : j \in 1 .. i - 1 /\ j \in 1 .. k - 1
    BY <2>3
  <2>5. a.num[m] \in Nat /\ b.num[m] \in Nat /\ c.num[m] \in Nat
    BY <1>1
  <2>6. a.num[m] > c.num[m]
    BY <2>1, <2>2, <2>3, <2>4, <2>5
  <2>7. \A j \in 1 .. m - 1 : a.num[j] = c.num[j]
    BY <2>1, <2>2, <2>4
  <2> QED  BY <2>6, <2>7 DEF HigherNumber
<1> QED  BY <1>2, <1>3

LEMMA PreReleaseOrder ==
    ASSUME NEW x \in Seq(PreReleaseFields), NEW y \in Seq(PreReleaseFields),
           NEW z \in Seq(PreReleaseFields)
    PROVE  /\ ~comparePreRelease(x, x)
           /\ comparePreRelease(x, y) /\ comparePreRelease(y, z) => comparePreRelease(x, z)
  BY FieldsOrder, Zenon DEF comparePreRelease

\* compareSemVer orders versions strictly.
LEMMA SemVerOrder ==
    ASSUME NEW a \in SemVers, NEW b \in SemVers, NEW c \in SemVers
    PROVE  /\ ~compareSemVer(a, a)
           /\ compareSemVer(a, b) /\ compareSemVer(b, c) => compareSemVer(a, c)
<1>1. /\ a.pre \in Seq(PreReleaseFields) /\ b.pre \in Seq(PreReleaseFields)
      /\ c.pre \in Seq(PreReleaseFields)
      /\ a.valid \in BOOLEAN /\ b.valid \in BOOLEAN /\ c.valid \in BOOLEAN
  BY DEF SemVers
<1>2. ASSUME NEW v \in SemVers, NEW w \in SemVers
      PROVE  compareSemVer(v, w) <=>
               IF ~(v.valid /\ w.valid) THEN v.valid /\ ~w.valid
               ELSE HigherNumber(v, w) \/ (v.num = w.num /\ comparePreRelease(v.pre, w.pre))
  BY DEF compareSemVer, HigherNumber
<1>3. ~compareSemVer(a, a)
  BY <1>1, <1>2, NumberOrder, PreReleaseOrder
<1>4. /\ a.num = b.num /\ HigherNumber(b, c) => HigherNumber(a, c)
      /\ HigherNumber(a, b) /\ b.num = c.num => HigherNumber(a, c)
  BY DEF HigherNumber
<1>5. ASSUME compareSemVer(a, b), compareSemVer(b, c) PROVE compareSemVer(a, c)
  <2>1. CASE ~c.valid
    BY <1>2, <1>5, <2>1, Zenon
  <2>2. CASE c.valid
    <3>1. a.valid /\ b.valid
      BY <1>2, <1>5, <2>2, Zenon
    <3>2. HigherNumber(a, b) \/ (a.num = b.num /\ comparePreRelease(a.pre, b.pre))
      BY <1>2, <1>5, <3>1, Zenon
    <3>3. HigherNumber(b, c) \/ (b.num = c.num /\ comparePreRelease(b.pre, c.pre))
      BY <1>2, <1>5, <2>2, <3>1, Zenon
    <3>4. HigherNumber(a, c) \/ (a.num = c.num /\ comparePreRelease(a.pre, c.pre))
      BY <1>1, <1>4, <3>2, <3>3, NumberOrder, PreReleaseOrder, Zenon
    <3> QED  BY <1>2, <2>2, <3>1, <3>4, Zenon
  <2> QED  BY <2>1, <2>2
<1> QED  BY <1>3, <1>5

-----------------------------------------------------------------------------
(* Induction over the natural numbers, for sets.                           *)

LEMMA LeastNatural ==
    ASSUME NEW T \in SUBSET Nat, T # {}
    PROVE  \E n \in T : \A m \in T : n <= m
<1>1. PICK n \in T : \A m \in T : <<m, n>> \notin {p \in Nat \X Nat : p[1] < p[2]}
  BY NatLessThanWellFounded, WFMin DEF OpToRel
<1>2. ASSUME NEW m \in T PROVE n <= m
  <2>1. m \in Nat /\ n \in Nat
    OBVIOUS
  <2>2. ~(m < n)
    BY <1>1, <2>1
  <2> QED  BY <2>1, <2>2
<1> QED  BY <1>2

LEMMA NaturalsByInduction ==
    ASSUME NEW S, 0 \in S, \A n \in Nat : n \in S => n + 1 \in S
    PROVE  Nat \subseteq S
<1>1. SUFFICES ASSUME Nat \ S # {} PROVE FALSE
  OBVIOUS
<1>2. PICK n \in Nat \ S : \A m \in Nat \ S : n <= m
  BY <1>1, LeastNatural
<1>3. n # 0 /\ n - 1 \in Nat
  BY <1>2
<1>4. n - 1 \in S
  BY <1>2, <1>3
<1> QED  BY <1>2, <1>3, <1>4

-----------------------------------------------------------------------------
(* The loops of highestMutualVersion.                                      *)

\* The first n turns of the inner loop.
InnerRuns(f, c, es, first, n) ==
    f = [j \in 0 .. n |->
            IF j = 0 THEN first
            ELSE IF Matches(c, es[j]) THEN Keep(f[j - 1], es[j]) ELSE f[j - 1]]

InnerTurns(f, c, es, first, n) ==
    /\ f[0] = first
    /\ \A j \in 0 .. n - 1 :
         f[j + 1] = IF Matches(c, es[j + 1]) THEN Keep(f[j], es[j + 1]) ELSE f[j]

LEMMA InnerLoopRuns ==
    ASSUME NEW c, NEW es, NEW first
    PROVE  \A n \in Nat : \E f : InnerRuns(f, c, es, first, n)
<1> DEFINE S == {n \in Nat : \E f : InnerRuns(f, c, es, first, n)}
           Turn(v, j) == IF Matches(c, es[j]) THEN Keep(v, es[j]) ELSE v
<1> HIDE DEF Turn
<1>0. \A f, n : InnerRuns(f, c, es, first, n)
                  <=> f = [j \in 0 .. n |-> IF j = 0 THEN first ELSE Turn(f[j - 1], j)]
  BY DEF InnerRuns, Turn
<1>1. 0 \in S
  <2> DEFINE f == [j \in 0 .. 0 |-> first]
  <2>1. f = [j \in 0 .. 0 |-> IF j = 0 THEN first ELSE Turn(f[j - 1], j)]
    OBVIOUS
  <2>2. InnerRuns(f, c, es, first, 0)
    BY <1>0, <2>1
  <2> QED  BY <2>2
<1>2. ASSUME NEW n \in Nat, n \in S PROVE n + 1 \in S
  <2>1. PICK f : InnerRuns(f, c, es, first, n)
    BY <1>2
  <2> DEFINE last1 == Turn(f[n], n + 1)
             g == [j \in 0 .. n + 1 |-> IF j = n + 1 THEN last1 ELSE f[j]]
  <2> HIDE DEF last1
  <2>2. g[n + 1] = last1 /\ \A j \in 0 .. n : g[j] = f[j]
    OBVIOUS
  <2>3. \A j \in 0 .. n : f[j] = IF j = 0 THEN first ELSE Turn(f[j - 1], j)
    BY <1>0, <2>1
  <2>4. \A j \in 0 .. n : g[j] = IF j = 0 THEN first ELSE Turn(g[j - 1], j)
    BY <2>2, <2>3
  <2>5. g[n + 1] = Turn(g[n + 1 - 1], n + 1)
    BY <2>2 DEF last1
  <2>6. \A j \in 0 .. n + 1 : j \in 0 .. n \/ (j = n + 1 /\ j # 0)
    OBVIOUS
  <2>7. g = [j \in 0 .. n + 1 |-> g[j]]
    OBVIOUS
  <2> HIDE DEF g
  <2>8. \A j \in 0 .. n + 1 : g[j] = IF j = 0 THEN first ELSE Turn(g[j - 1], j)
    BY <2>4, <2>5, <2>6
  <2>9. g = [j \in 0 .. n + 1 |-> IF j = 0 THEN first ELSE Turn(g[j - 1], j)]
    BY <2>7, <2>8
  <2>10. InnerRuns(g, c, es, first, n + 1)
    BY <1>0, <2>9
  <2> QED  BY <2>10
<1> HIDE DEF S
<1>3. Nat \subseteq S
  BY <1>1, <1>2, NaturalsByInduction
<1> QED  BY <1>3 DEF S

LEMMA InnerLoopTurns ==
    ASSUME NEW c, NEW es, NEW first, Len(es) \in Nat
    PROVE  \E f : InnerTurns(f, c, es, first, Len(es)) /\ BestFor(c, es, first) = f[Len(es)]
<1> DEFINE n == Len(es)
           f == CHOOSE g : InnerRuns(g, c, es, first, n)
<1>1. InnerRuns(f, c, es, first, n)
  BY InnerLoopRuns
<1>2. BestFor(c, es, first) = f[n]
  BY DEF BestFor, InnerRuns
<1> HIDE DEF f, n
<1>3. \A j \in 0 .. n : f[j] = IF j = 0 THEN first
            ELSE IF Matches(c, es[j]) THEN Keep(f[j - 1], es[j]) ELSE f[j - 1]
  BY <1>1 DEF InnerRuns
<1>4. n \in Nat /\ \A j \in 0 .. n - 1 : j + 1 \in 0 .. n /\ j + 1 # 0 /\ j + 1 - 1 = j
  BY DEF n
<1>5. InnerTurns(f, c, es, first, n)
  BY <1>3, <1>4 DEF InnerTurns
<1> QED  BY <1>2, <1>5 DEF n

OuterRuns(f, cs, es, n) ==
    f = [i \in 0 .. n |-> IF i = 0 THEN NoVersion ELSE BestFor(cs[i], es, f[i - 1])]

OuterTurns(f, cs, es, n) ==
    f[0] = NoVersion /\ \A i \in 0 .. n - 1 : f[i + 1] = BestFor(cs[i + 1], es, f[i])

LEMMA OuterLoopRuns ==
    ASSUME NEW cs, NEW es
    PROVE  \A n \in Nat : \E f : OuterRuns(f, cs, es, n)
<1> DEFINE S == {n \in Nat : \E f : OuterRuns(f, cs, es, n)}
<1>1. 0 \in S
  <2> DEFINE f == [j \in 0 .. 0 |-> NoVersion]
  <2>1. f = [j \in 0 .. 0 |-> IF j = 0 THEN NoVersion ELSE BestFor(cs[j], es, f[j - 1])]
    OBVIOUS
  <2>2. OuterRuns(f, cs, es, 0)
    BY <2>1 DEF OuterRuns
  <2> QED  BY <2>2
<1>2. ASSUME NEW n \in Nat, n \in S PROVE n + 1 \in S
  <2>1. PICK f : OuterRuns(f, cs, es, n)
    BY <1>2
  <2> DEFINE last1 == BestFor(cs[n + 1], es, f[n])
             g == [j \in 0 .. n + 1 |-> IF j = n + 1 THEN last1 ELSE f[j]]
  <2> HIDE DEF last1
  <2>2. g[n + 1] = last1 /\ \A j \in 0 .. n : g[j] = f[j]
    OBVIOUS
  <2>3. \A j \in 0 .. n : f[j] = IF j = 0 THEN NoVersion ELSE BestFor(cs[j], es, f[j - 1])
    BY <2>1 DEF OuterRuns
  <2>4. \A j \in 0 .. n : g[j] = IF j = 0 THEN NoVersion ELSE BestFor(cs[j], es, g[j - 1])
    BY <2>2, <2>3
  <2>5. g[n + 1] = BestFor(cs[n + 1], es, g[n + 1 - 1])
    BY <2>2 DEF last1
  <2>6. \A j \in 0 .. n + 1 : j \in 0 .. n \/ (j = n + 1 /\ j # 0)
    OBVIOUS
  <2>7. g = [j \in 0 .. n + 1 |-> g[j]]
    OBVIOUS
  <2> HIDE DEF g
  <2>8. \A j \in 0 .. n + 1 : g[j] = IF j = 0 THEN NoVersion ELSE BestFor(cs[j], es, g[j - 1])
    BY <2>4, <2>5, <2>6
  <2>9. OuterRuns(g, cs, es, n + 1)
    BY <2>7, <2>8 DEF OuterRuns
  <2> QED  BY <2>9
<1> HIDE DEF S
<1>3. Nat \subseteq S
  BY <1>1, <1>2, NaturalsByInduction
<1> QED  BY <1>3 DEF S

LEMMA OuterLoopTurns ==
    ASSUME NEW cs, NEW es, Len(cs) \in Nat
    PROVE  \E f : OuterTurns(f, cs, es, Len(cs)) /\ highestMutualVersion(cs, es) = f[Len(cs)]
<1> DEFINE n == Len(cs)
           f == CHOOSE g : OuterRuns(g, cs, es, n)
<1>1. OuterRuns(f, cs, es, n)
  BY OuterLoopRuns
<1>2. highestMutualVersion(cs, es) = f[n]
  BY DEF highestMutualVersion, OuterRuns
<1> HIDE DEF f, n
<1>3. \A i \in 0 .. n : f[i] = IF i = 0 THEN NoVersion ELSE BestFor(cs[i], es, f[i - 1])
  BY <1>1 DEF OuterRuns
<1>4. n \in Nat /\ \A i \in 0 .. n - 1 : i + 1 \in 0 .. n /\ i + 1 # 0 /\ i + 1 - 1 = i
  BY DEF n
<1>5. OuterTurns(f, cs, es, n)
  BY <1>3, <1>4 DEF OuterTurns
<1> QED  BY <1>2, <1>5 DEF n

-----------------------------------------------------------------------------
(* What the loops compute.                                                 *)

\* v is a version of M that none of M comes after, if there is any.
IsBest(v, M) ==
    /\ M = {} => v = NoVersion
    /\ M # {} => v \in M /\ \A e \in M : ~compareSemVer(e, v)

LEMMA KeepIsBest ==
    ASSUME NEW M \in SUBSET SemVers, NEW v, IsBest(v, M), NEW e \in SemVers
    PROVE  IsBest(Keep(v, e), M \cup {e})
<1>1. ~compareSemVer(e, e)
  BY SemVerOrder
<1>2. CASE M = {}
  BY <1>1, <1>2 DEF IsBest, Keep
<1>3. CASE M # {}
  <2>1. v \in M /\ v \in SemVers /\ \A m \in M : ~compareSemVer(m, v)
    BY <1>3 DEF IsBest
  <2>2. v # NoVersion
    <3>1. DOMAIN v = {"valid", "num", "pre", "text"} /\ DOMAIN NoVersion = {"text"}
      BY <2>1 DEF SemVers, NoVersion
    <3> QED  BY <3>1
  <2>3. CASE compareSemVer(e, v)
    <3>1. \A m \in M : ~compareSemVer(m, e)
      BY <2>1, <2>3, SemVerOrder
    <3> QED  BY <1>1, <2>3, <3>1 DEF IsBest, Keep
  <2>4. CASE ~compareSemVer(e, v)
    BY <2>1, <2>2, <2>4 DEF IsBest, Keep
  <2> QED  BY <2>3, <2>4
<1> QED  BY <1>2, <1>3

\* The versions that match c among the first n of the endpoint.
MatchesUpTo(c, es, n) == {es[j] : j \in {k \in 1 .. n : Matches(c, es[k])}}

LEMMA BestForIsBest ==
    ASSUME NEW M \in SUBSET SemVers, NEW first, IsBest(first, M), NEW c,
           NEW es \in Seq(SemVers)
    PROVE  IsBest(BestFor(c, es, first), M \cup MatchesUpTo(c, es, Len(es)))
<1> DEFINE n == Len(es)
<1>1. n \in Nat /\ \A j \in 1 .. n : es[j] \in SemVers
  OBVIOUS
<1>2. PICK f : InnerTurns(f, c, es, first, n) /\ BestFor(c, es, first) = f[n]
  BY <1>1, InnerLoopTurns
<1> DEFINE G == {j \in Nat : j <= n => IsBest(f[j], M \cup MatchesUpTo(c, es, j))}
<1> HIDE DEF n
<1>3. 0 \in G
  <2>1. MatchesUpTo(c, es, 0) = {} /\ f[0] = first
    BY <1>2 DEF MatchesUpTo, InnerTurns
  <2> QED  BY <2>1
<1>4. ASSUME NEW j \in Nat, j \in G PROVE j + 1 \in G
  <2> SUFFICES ASSUME j + 1 <= n PROVE IsBest(f[j + 1], M \cup MatchesUpTo(c, es, j + 1))
    OBVIOUS
  <2>1. j \in 0 .. n - 1 /\ j + 1 \in 1 .. n /\ j <= n
    BY <1>1
  <2>2. IsBest(f[j], M \cup MatchesUpTo(c, es, j))
    BY <1>4, <2>1
  <2>3. f[j + 1] = IF Matches(c, es[j + 1]) THEN Keep(f[j], es[j + 1]) ELSE f[j]
    BY <1>2, <2>1 DEF InnerTurns
  <2>4. es[j + 1] \in SemVers /\ M \cup MatchesUpTo(c, es, j) \in SUBSET SemVers
    <3>1. \A k \in 1 .. j : k \in 1 .. n
      BY <1>1, <2>1
    <3> QED  BY <1>1, <2>1, <3>1 DEF MatchesUpTo
  <2>5. 1 .. j + 1 = 1 .. j \cup {j + 1}
    OBVIOUS
  <2>6. CASE Matches(c, es[j + 1])
    <3>1. M \cup MatchesUpTo(c, es, j + 1) = (M \cup MatchesUpTo(c, es, j)) \cup {es[j + 1]}
      BY <2>5, <2>6 DEF MatchesUpTo
    <3> QED  BY <2>2, <2>3, <2>4, <2>6, <3>1, KeepIsBest
  <2>7. CASE ~Matches(c, es[j + 1])
    <3>1. MatchesUpTo(c, es, j + 1) = MatchesUpTo(c, es, j)
      BY <2>5, <2>7 DEF MatchesUpTo
    <3> QED  BY <2>2, <2>3, <2>7, <3>1
  <2> QED  BY <2>6, <2>7
<1> HIDE DEF G
<1>5. Nat \subseteq G
  BY <1>3, <1>4, NaturalsByInduction
<1>6. IsBest(f[n], M \cup MatchesUpTo(c, es, n))
  <2>1. n \in G /\ n <= n
    BY <1>1, <1>5
  <2> QED  BY <2>1 DEF G
<1> QED  BY <1>2, <1>6 DEF n

\* The versions of the endpoint that match one of the first n of the client.
MutualUpTo(cs, es, n) == UNION {MatchesUpTo(cs[i], es, Len(es)) : i \in 1 .. n}

LEMMA HighestIsBest ==
    ASSUME NEW cs \in Seq(SemVers), NEW es \in Seq(SemVers)
    PROVE  IsBest(highestMutualVersion(cs, es), MutualUpTo(cs, es, Len(cs)))
<1> DEFINE n == Len(cs)
<1>1. n \in Nat
  OBVIOUS
<1>2. PICK f : OuterTurns(f, cs, es, n) /\ highestMutualVersion(cs, es) = f[n]
  BY <1>1, OuterLoopTurns
<1>3. \A i : MatchesUpTo(cs[i], es, Len(es)) \subseteq SemVers
  BY DEF MatchesUpTo
<1> DEFINE G == {i \in Nat : i <= n => IsBest(f[i], MutualUpTo(cs, es, i))}
<1> HIDE DEF n
<1>4. 0 \in G
  <2>1. MutualUpTo(cs, es, 0) = {} /\ f[0] = NoVersion
    BY <1>2 DEF MutualUpTo, OuterTurns
  <2> QED  BY <2>1 DEF IsBest
<1>5. ASSUME NEW i \in Nat, i \in G PROVE i + 1 \in G
  <2> SUFFICES ASSUME i + 1 <= n PROVE IsBest(f[i + 1], MutualUpTo(cs, es, i + 1))
    OBVIOUS
  <2>1. i \in 0 .. n - 1 /\ i <= n
    BY <1>1
  <2>2. IsBest(f[i], MutualUpTo(cs, es, i))
    BY <1>5, <2>1
  <2>3. f[i + 1] = BestFor(cs[i + 1], es, f[i])
    BY <1>2, <2>1 DEF OuterTurns
  <2>4. MutualUpTo(cs, es, i) \in SUBSET SemVers
    BY <1>3 DEF MutualUpTo
  <2>5. 1 .. i + 1 = 1 .. i \cup {i + 1}
    OBVIOUS
  <2>6. MutualUpTo(cs, es, i + 1) = MutualUpTo(cs, es, i) \cup MatchesUpTo(cs[i + 1], es, Len(es))
    BY <2>5 DEF MutualUpTo
  <2> QED  BY <2>2, <2>3, <2>4, <2>6, BestForIsBest
<1> HIDE DEF G
<1>6. Nat \subseteq G
  BY <1>4, <1>5, NaturalsByInduction
<1>7. IsBest(f[n], MutualUpTo(cs, es, n))
  BY <1>1, <1>6 DEF G
<1> QED  BY <1>2, <1>7 DEF n

\* The versions of an endpoint that this client speaks too.
Mutual(es) == {e \in ToSet(es) : e.valid /\ \E c \in ToSet(SupportedVersions) : Matches(c, e)}

(* highestMutualVersion is what its comment says: the version of highest   *)
(* precedence that both have, whatever the lists and their order, and      *)
(* found exactly if there is one.                                          *)
THEOREM HighestMutualVersionIsHighest ==
    ASSUME NEW es \in Seq(SemVers)
    PROVE  IsBest(highestMutualVersion(SupportedVersions, es), Mutual(es))
<1>1. SupportedVersions \in Seq(SemVers)
  BY VersionsAssumption
<1>2. MutualUpTo(SupportedVersions, es, Len(SupportedVersions)) = Mutual(es)
  <2>1. DOMAIN es = 1 .. Len(es) /\ DOMAIN SupportedVersions = 1 .. Len(SupportedVersions)
    BY <1>1
  <2>2. \A e : e \in Mutual(es) <=>
          \E j \in 1 .. Len(es), i \in 1 .. Len(SupportedVersions) :
             e = es[j] /\ Matches(SupportedVersions[i], es[j])
    BY <2>1, Zenon DEF Mutual, ToSet, Matches
  <2>3. \A e : e \in MutualUpTo(SupportedVersions, es, Len(SupportedVersions)) <=>
          \E j \in 1 .. Len(es), i \in 1 .. Len(SupportedVersions) :
             e = es[j] /\ Matches(SupportedVersions[i], es[j])
    <3>1. \A c, e : e \in MatchesUpTo(c, es, Len(es)) <=>
            \E j \in 1 .. Len(es) : e = es[j] /\ Matches(c, es[j])
      BY DEF MatchesUpTo
    <3>2. \A e : e \in MutualUpTo(SupportedVersions, es, Len(SupportedVersions)) <=>
            \E i \in 1 .. Len(SupportedVersions) :
               e \in MatchesUpTo(SupportedVersions[i], es, Len(es))
      BY DEF MutualUpTo
    <3> QED  BY <3>1, <3>2
  <2> QED  BY <2>2, <2>3
<1>3. IsBest(highestMutualVersion(SupportedVersions, es),
             MutualUpTo(SupportedVersions, es, Len(SupportedVersions)))
  BY <1>1, HighestIsBest
<1> QED  BY <1>2, <1>3

-----------------------------------------------------------------------------
\* An endpoint that is or was asked is usable, and the version asked of it is
\* the one that highestMutualVersion finds.
VersionInv ==
    \A i \in DOMAIN doc : tries[i] > 0 \/ (phase \in Running /\ ep = i) =>
        /\ Usable(doc[i])
        /\ version[i] = highestMutualVersion(SupportedVersions, doc[i].versions)

\* A step that asks no other endpoint leaves it true.
LEMMA VersionsKept ==
    ASSUME VersionInv, UNCHANGED <<doc, ep, version>>,
           \A i \in DOMAIN doc : tries'[i] > 0 => tries[i] > 0 \/ (phase \in Running /\ ep = i),
           phase' \in Running => ep = 0 \/ phase \in Running, 0 \notin DOMAIN doc
    PROVE  VersionInv'
<1> SUFFICES ASSUME NEW i \in DOMAIN doc, tries'[i] > 0 \/ (phase' \in Running /\ ep = i)
             PROVE  /\ Usable(doc[i])
                    /\ version[i] = highestMutualVersion(SupportedVersions, doc[i].versions)
  BY DEF VersionInv
<1>1. tries[i] > 0 \/ (phase \in Running /\ ep = i)
  OBVIOUS
<1> QED  BY <1>1 DEF VersionInv

LEMMA VersionStep ==
    ASSUME Inv, VersionInv, [Next]_vars
    PROVE  VersionInv'
<1>0. /\ 0 \notin DOMAIN doc /\ ep \in {0} \cup DOMAIN doc
      /\ tries \in [DOMAIN doc -> 0 .. MaxRetries + 1] /\ DOMAIN version = DOMAIN doc
      /\ queue \in Seq(DOMAIN doc)
  BY DocsAre DEF Inv, TypeOK
<1>1. CASE BootstrapDiscover
  BY <1>1 DEF BootstrapDiscover, VersionInv
<1>2. CASE Cancel
  BY <1>0, <1>2, VersionsKept DEF Cancel, call, history
<1>3. CASE Resolve \/ Alias
  <2>1. phase \in {"resolve", "alias"} /\ ep = 0 /\ ep' = 0 /\ UNCHANGED <<doc, version, tries>>
    BY <1>3 DEF Resolve, Alias, FetchFrom, call, history, Inv, EarlyInv
  <2> QED  BY <1>0, <2>1, VersionsKept
<1>4. CASE Send
  <2>1. /\ phase = "send" /\ UNCHANGED <<doc, ep, version>>
        /\ tries' = tries \/ (ep # 0 /\ tries' = [tries EXCEPT ![ep] = tries[ep] + 1])
    BY <1>4 DEF Send, call, history
  <2>2. \A i \in DOMAIN doc : tries'[i] > 0 => tries[i] > 0 \/ ep = i
    BY <1>0, <2>1
  <2> QED  BY <1>0, <2>1, <2>2, VersionsKept DEF Running
<1>5. CASE Choose
  <2>1. phase = "choose" /\ UNCHANGED <<doc, tries>>
    BY <1>5 DEF Choose, call, history
  <2>2. CASE UNCHANGED version /\ phase' \notin Running
    BY <2>1, <2>2 DEF VersionInv
  <2>3. CASE /\ queue # <<>> /\ Usable(doc[Head(queue)]) /\ ep' = Head(queue)
             /\ version' = [version EXCEPT ![Head(queue)] =
                    highestMutualVersion(SupportedVersions, doc[Head(queue)].versions)]
    <3>1. \A i \in DOMAIN doc : version'[i] =
            IF i = Head(queue) THEN highestMutualVersion(SupportedVersions, doc[i].versions)
            ELSE version[i]
      BY <1>0, <2>3
    <3> QED  BY <2>1, <2>3, <3>1 DEF VersionInv
  <2> QED  BY <2>1, <2>2, <2>3, <1>5 DEF Choose, history, Running
<1>6. CASE Wait
  <2>1. phase = "wait" /\ UNCHANGED <<doc, ep, tries, version>>
    BY <1>6 DEF Wait, history
  <2> QED  BY <1>0, <2>1, VersionsKept DEF Running
<1>7. CASE \E o \in Origins : Redirect(o)
  <2>1. UNCHANGED <<phase, doc, ep, tries, version>>
    BY <1>7 DEF Redirect, call
  <2> QED  BY <1>0, <2>1, VersionsKept
<1>8. ASSUME NEW a \in Answers, FetchAnswer(a) PROVE VersionInv'
  <2>1. phase = "sent" /\ ep = 0 /\ ep' = 0
    BY <1>8 DEF FetchAnswer
  <2>2. CASE UNCHANGED <<doc, tries, version>>
    BY <1>0, <2>1, <2>2, VersionsKept
  <2>3. CASE \E d \in Documents : doc' = d /\ tries' = [i \in DOMAIN d |-> 0] /\ phase' = "choose"
    BY <2>1, <2>3 DEF VersionInv, Running
  <2> QED  BY <1>8, <2>2, <2>3 DEF FetchAnswer
<1>9. ASSUME NEW a \in Answers, DiscoverAnswer(a) PROVE VersionInv'
  <2>1. phase = "sent" /\ UNCHANGED <<doc, ep, tries, version>>
    BY <1>9 DEF DiscoverAnswer, call
  <2> QED  BY <1>0, <2>1, VersionsKept DEF Running
<1>10. CASE UNCHANGED vars
  BY <1>0, <1>10, VersionsKept DEF vars, call, history
<1> QED
  BY <1>1, <1>2, <1>3, <1>4, <1>5, <1>6, <1>7, <1>8, <1>9, <1>10 DEF Next, Step

(***************************************************************************)
(* Negotiation: whatever versions a document lists and in whatever order,  *)
(* the version that BootstrapDiscover asks of an endpoint is one that the  *)
(* endpoint lists and this client speaks, and none that both have comes    *)
(* after it in the precedence of compareSemVer.                            *)
(***************************************************************************)
THEOREM HighestVersionAskedHolds == Spec => []HighestVersionAsked
<1>1. Init => VersionInv
  BY DEF Init, VersionInv
<1>2. Inv /\ VersionInv /\ [Next]_vars => VersionInv'
  BY VersionStep
<1>3. ASSUME Inv, VersionInv PROVE HighestVersionAsked
  <2>1. ASSUME NEW i \in DOMAIN doc, tries[i] > 0
        PROVE  version[i] \in Mutual(doc[i].versions)
               /\ \A e \in Mutual(doc[i].versions) : ~compareSemVer(e, version[i])
    <3>1. doc \in Documents
      BY <1>3, DocsAre DEF Inv, TypeOK
    <3>2. doc[i].versions \in Seq(SemVers)
      BY <3>1, VersionsAssumption
    <3>3. /\ version[i] = highestMutualVersion(SupportedVersions, doc[i].versions)
          /\ version[i] # NoVersion
      BY <1>3, <2>1 DEF VersionInv, Usable
    <3>4. IsBest(version[i], Mutual(doc[i].versions))
      BY <3>2, <3>3, HighestMutualVersionIsHighest
    <3> QED  BY <3>3, <3>4 DEF IsBest
  <2> QED  BY <2>1 DEF HighestVersionAsked, Mutual
<1> QED  BY <1>1, <1>2, <1>3, InvHolds, PTL DEF Spec

-----------------------------------------------------------------------------
(* The stable sort has a result, and only one.                             *)

\* s arranges the first n endpoints of d in order.
Arranges(s, d, n) ==
    /\ s \in [1 .. n -> 1 .. n]
    /\ \A k \in 1 .. n : \E m \in 1 .. n : s[m] = k
    /\ \A m, k \in 1 .. n : m < k => Prior(d, s[m], s[k])

\* Insertion of the next endpoint after those that go before it.
LEMMA InsertEndpoint ==
    ASSUME NEW d \in Documents, NEW n \in Nat, n + 1 <= Len(d), NEW s, Arranges(s, d, n)
    PROVE  \E t : Arranges(t, d, n + 1)
<1>1. /\ DOMAIN d = 1 .. Len(d) /\ Len(d) \in Nat /\ n + 1 \in DOMAIN d
      /\ \A m \in 1 .. n : s[m] \in DOMAIN d /\ s[m] \in 1 .. n /\ s[m] # n + 1
  <2>1. DOMAIN d = 1 .. Len(d) /\ Len(d) \in Nat
    BY DocsAre
  <2>2. \A m \in 1 .. n : s[m] \in 1 .. n
    BY DEF Arranges
  <2> QED  BY <2>1, <2>2
<1>2. \A m, k \in 1 .. n : m < k => Prior(d, s[m], s[k])
  BY DEF Arranges
<1> DEFINE After == {m \in 1 .. n : Prior(d, n + 1, s[m])}
<1>3. PICK p \in 1 .. n + 1 : /\ \A m \in 1 .. n : m < p => Prior(d, s[m], n + 1)
                              /\ \A m \in 1 .. n : m >= p => Prior(d, n + 1, s[m])
  <2>1. \A m \in 1 .. n : m \notin After => Prior(d, s[m], n + 1)
    BY <1>1, PriorIsAnOrder
  <2>2. CASE After = {}
    <3>1. n + 1 \in 1 .. n + 1 /\ \A m \in 1 .. n : m < n + 1 /\ ~(m >= n + 1)
      OBVIOUS
    <3> QED  BY <2>1, <2>2, <3>1
  <2>3. CASE After # {}
    <3>0. After \in SUBSET Nat
      OBVIOUS
    <3>1. PICK p \in After : \A m \in After : p <= m
      <4> HIDE DEF After
      <4> QED  BY <2>3, <3>0, LeastNatural
    <3>2. ASSUME NEW m \in 1 .. n, m < p PROVE Prior(d, s[m], n + 1)
      <4>1. ~(p <= m)
        BY <3>1, <3>2
      <4> QED  BY <2>1, <3>1, <4>1
    <3>3. ASSUME NEW m \in 1 .. n, m >= p PROVE Prior(d, n + 1, s[m])
      <4>1. CASE m = p
        BY <3>1, <4>1
      <4>2. CASE m # p
        <5>1. Prior(d, s[p], s[m])
          BY <1>2, <3>1, <3>3, <4>2
        <5>2. Prior(d, n + 1, s[p])
          BY <3>1
        <5> QED  BY <1>1, <3>1, <5>1, <5>2, PriorIsAnOrder
      <4> QED  BY <4>1, <4>2
    <3>4. p \in 1 .. n + 1
      BY <3>1
    <3> QED  BY <3>2, <3>3, <3>4
  <2> QED  BY <2>2, <2>3
<1> HIDE DEF After
<1> DEFINE t == [m \in 1 .. n + 1 |-> IF m < p THEN s[m] ELSE IF m = p THEN n + 1 ELSE s[m - 1]]
<1>4. \A m \in 1 .. n + 1 : (m < p => m \in 1 .. n) /\ (m > p => m - 1 \in 1 .. n /\ m - 1 >= p)
  BY <1>3
<1>5. /\ \A m \in 1 .. n + 1 : m < p => t[m] = s[m]
      /\ \A m \in 1 .. n + 1 : m > p => t[m] = s[m - 1]
      /\ t[p] = n + 1
  BY <1>3
<1>6. t \in [1 .. n + 1 -> 1 .. n + 1]
  <2>1. \A k \in 1 .. n : k \in 1 .. n + 1
    OBVIOUS
  <2>2. ASSUME NEW m \in 1 .. n + 1
        PROVE  (IF m < p THEN s[m] ELSE IF m = p THEN n + 1 ELSE s[m - 1]) \in 1 .. n + 1
    <3>1. CASE m < p
      BY <1>1, <1>4, <2>1, <3>1
    <3>2. CASE m = p
      BY <3>2
    <3>3. CASE m > p
      BY <1>1, <1>4, <2>1, <3>3
    <3> QED  BY <1>3, <3>1, <3>2, <3>3
  <2> QED  BY <2>2
<1> HIDE DEF t
<1>7. ASSUME NEW k \in 1 .. n + 1 PROVE \E m \in 1 .. n + 1 : t[m] = k
  <2>1. CASE k = n + 1
    BY <1>3, <1>5, <2>1
  <2>2. CASE k # n + 1
    <3>1. PICK m \in 1 .. n : s[m] = k
      BY <2>2 DEF Arranges
    <3>2. CASE m < p
      BY <1>5, <3>1, <3>2
    <3>3. CASE ~(m < p)
      <4>1. PICK j \in 1 .. n + 1 : j > p /\ j - 1 = m
        <5>1. m + 1 \in 1 .. n + 1 /\ m + 1 > p /\ m + 1 - 1 = m
          BY <1>3, <3>3
        <5> QED  BY <5>1
      <4>2. t[j] = s[m]
        BY <1>5, <4>1
      <4> QED  BY <3>1, <4>2
    <3> QED  BY <3>2, <3>3
  <2> QED  BY <2>1, <2>2
<1>8. ASSUME NEW m \in 1 .. n + 1, NEW k \in 1 .. n + 1, m < k PROVE Prior(d, t[m], t[k])
  <2>1. CASE k < p
    <3>1. m < p /\ m \in 1 .. n /\ k \in 1 .. n
      BY <1>3, <1>4, <1>8, <2>1
    <3> QED  BY <1>2, <1>5, <1>8, <2>1, <3>1
  <2>2. CASE k = p
    BY <1>3, <1>4, <1>5, <1>8, <2>2
  <2>3. CASE k > p /\ m < p
    <3>1. t[k] = s[k - 1] /\ k - 1 \in 1 .. n /\ t[m] = s[m] /\ m \in 1 .. n /\ m < k - 1
      BY <1>3, <1>4, <1>5, <2>3
    <3> QED  BY <1>2, <3>1
  <2>4. CASE k > p /\ m = p
    BY <1>3, <1>4, <1>5, <2>4
  <2>5. CASE k > p /\ m > p
    <3>1. t[k] = s[k - 1] /\ k - 1 \in 1 .. n /\ t[m] = s[m - 1] /\ m - 1 \in 1 .. n /\ m - 1 < k - 1
      BY <1>3, <1>4, <1>5, <1>8, <2>5
    <3> QED  BY <1>2, <3>1
  <2> QED  BY <1>3, <2>1, <2>2, <2>3, <2>4, <2>5
<1>9. Arranges(t, d, n + 1)
  BY <1>6, <1>7, <1>8 DEF Arranges
<1> QED  BY <1>9

LEMMA SomeArrangement ==
    ASSUME NEW d \in Documents
    PROVE  \E s : Arranges(s, d, Len(d))
<1> DEFINE G == {n \in Nat : n <= Len(d) => \E s : Arranges(s, d, n)}
<1>1. Len(d) \in Nat
  BY DocsAre
<1>2. 0 \in G
  <2>1. Arranges(<<>>, d, 0)
    BY DEF Arranges
  <2> QED  BY <2>1
<1>3. ASSUME NEW n \in Nat, n \in G PROVE n + 1 \in G
  <2> SUFFICES ASSUME n + 1 <= Len(d) PROVE \E s : Arranges(s, d, n + 1)
    OBVIOUS
  <2>1. n <= Len(d)
    BY <1>1
  <2>2. PICK s : Arranges(s, d, n)
    BY <1>3, <2>1
  <2> QED  BY <2>2, InsertEndpoint
<1> HIDE DEF G
<1>4. Nat \subseteq G
  BY <1>2, <1>3, NaturalsByInduction
<1>5. Len(d) \in G /\ Len(d) <= Len(d)
  BY <1>1, <1>4
<1> QED  BY <1>5 DEF G

LEMMA ArrangementsAgree ==
    ASSUME NEW d \in Documents, NEW s, NEW t, Arranges(s, d, Len(d)), Arranges(t, d, Len(d))
    PROVE  s = t
<1> DEFINE n == Len(d)
           Differ == {m \in 1 .. n : s[m] # t[m]}
<1>1. n \in Nat /\ DOMAIN d = 1 .. n
  BY DocsAre
<1>2. SUFFICES ASSUME Differ # {} PROVE FALSE
  <2>1. s \in [1 .. n -> 1 .. n] /\ t \in [1 .. n -> 1 .. n]
    BY DEF Arranges
  <2>2. ASSUME Differ = {} PROVE \A m \in 1 .. n : s[m] = t[m]
    BY <2>2
  <2> HIDE DEF n, Differ
  <2>3. ASSUME Differ = {} PROVE s = t
    <3>1. \A m \in 1 .. n : s[m] = t[m]
      BY <2>2, <2>3
    <3>2. s = [m \in 1 .. n |-> s[m]] /\ t = [m \in 1 .. n |-> t[m]]
      BY <2>1
    <3>3. [m \in 1 .. n |-> s[m]] = [m \in 1 .. n |-> t[m]]
      BY <3>1
    <3> QED  BY <3>2, <3>3, Zenon
  <2> QED  BY <2>3
<1>3. PICK i \in Differ : \A m \in Differ : i <= m
  <2>1. Differ \in SUBSET Nat
    BY <1>1
  <2> HIDE DEF Differ
  <2> QED  BY <1>2, <2>1, LeastNatural
<1>4. i \in 1 .. n /\ s[i] # t[i] /\ \A m \in 1 .. n : m < i => s[m] = t[m]
  BY <1>3
<1> HIDE DEF Differ
\* What one of them has at i, the other has later.
<1>5. ASSUME NEW x, NEW y, Arranges(x, d, n), Arranges(y, d, n),
             x[i] # y[i], \A m \in 1 .. n : m < i => x[m] = y[m]
      PROVE  Prior(d, y[i], x[i])
  <2>1. x[i] \in 1 .. n
    BY <1>4, <1>5 DEF Arranges
  <2>2. PICK j \in 1 .. n : y[j] = x[i]
    BY <1>5, <2>1 DEF Arranges
  <2>3. ~Prior(d, x[i], x[i])
    BY <1>1, <2>1, PriorIsAnOrder
  <2>4. ~(j < i)
    <3> SUFFICES ASSUME j < i PROVE FALSE
      OBVIOUS
    <3>1. x[j] = x[i]
      BY <1>5, <2>2
    <3>2. Prior(d, x[j], x[i])
      BY <1>4, <1>5 DEF Arranges
    <3> QED  BY <2>3, <3>1, <3>2
  <2>5. i < j
    BY <1>4, <1>5, <2>2, <2>4
  <2> QED  BY <1>4, <1>5, <2>2, <2>5 DEF Arranges
<1>6. Prior(d, t[i], s[i]) /\ Prior(d, s[i], t[i])
  BY <1>4, <1>5
<1>7. s[i] \in DOMAIN d /\ t[i] \in DOMAIN d
  BY <1>1, <1>4 DEF Arranges
<1> QED  BY <1>6, <1>7, PriorIsAnOrder

(***************************************************************************)
(* sortEndpointsByPriority is defined by what a stable sort promises       *)
(* (sort.SliceStable with the comparison of priorities): for every         *)
(* document there is an arrangement of its endpoints with that promise,    *)
(* and exactly one.                                                        *)
(***************************************************************************)
THEOREM StableSortIsUnique ==
    ASSUME NEW d \in Documents
    PROVE  \E s : sortEndpointsByPriority(d) = {s}
<1>1. DOMAIN d = 1 .. Len(d) /\ Len(d) \in Nat
  BY DocsAre
<1>2. ASSUME NEW s, Arranges(s, d, Len(d)) PROVE s \in sortEndpointsByPriority(d)
  <2>1. s \in [DOMAIN d -> DOMAIN d] /\ \A k \in DOMAIN d : \E m \in DOMAIN d : s[m] = k
    BY <1>1, <1>2 DEF Arranges
  <2>2. \A m, k \in DOMAIN d : m < k => Prior(d, s[m], s[k])
    BY <1>1, <1>2 DEF Arranges
  <2>3. ASSUME NEW m \in DOMAIN d, NEW k \in DOMAIN d, s[m] = s[k] PROVE m = k
    <3>1. ~Prior(d, s[m], s[m])
      BY <2>1, PriorIsAnOrder
    <3>2. ~(m < k) /\ ~(k < m)
      BY <2>2, <2>3, <3>1
    <3> QED  BY <1>1, <3>2
  <2>4. s \in Bijection(DOMAIN d, DOMAIN d)
    BY <2>1, <2>3 DEF Bijection, Injection, Surjection, IsInjective
  <2> QED  BY <2>2, <2>4 DEF sortEndpointsByPriority, Prior
<1>3. ASSUME NEW s \in sortEndpointsByPriority(d) PROVE Arranges(s, d, Len(d))
  <2>1. /\ s \in [DOMAIN d -> DOMAIN d] /\ \A t \in DOMAIN d : \E m \in DOMAIN d : s[m] = t
        /\ \A m, n \in DOMAIN d : m < n => Prior(d, s[m], s[n])
    BY DEF sortEndpointsByPriority, Bijection, Surjection, Prior
  <2> QED  BY <1>1, <2>1 DEF Arranges
<1>4. PICK s : Arranges(s, d, Len(d))
  BY SomeArrangement
<1>5. \A t \in sortEndpointsByPriority(d) : t = s
  BY <1>3, <1>4, ArrangementsAgree
<1>6. sortEndpointsByPriority(d) = {s}
  BY <1>2, <1>4, <1>5
<1> QED  BY <1>6

-----------------------------------------------------------------------------
(* A call takes finitely many steps.                                       *)

\* What is left of a call, most significant first: lookups and the .well-known
\* fetch, endpoints that wait, attempts of the request in hand, and what is
\* left of the attempt: its redirects, the answer, and the pause.
Rank ==
    <<CASE phase = "resolve" -> 3 [] phase = "alias" -> 2
        [] phase \in Running /\ ep = 0 -> 1 [] OTHER -> 0,
      Len(queue),
      IF phase \in Running THEN MaxRetries + 2 - attempt ELSE 0,
      CASE phase = "send" -> MaxRedirects + 2 [] phase = "sent" -> MaxRedirects + 1 - hops
        [] phase = "choose" -> 1 [] OTHER -> 0>>

Ranks == [1 .. 4 -> Nat]

Lower == LexProductOrdering(OpToRel(<, Nat), Nat, 4)

LEMMA LowerRank ==
    ASSUME NEW a \in Ranks, NEW b \in Ranks,
           \/ a[1] < b[1]
           \/ a[1] = b[1] /\ a[2] < b[2]
           \/ a[1] = b[1] /\ a[2] = b[2] /\ a[3] < b[3]
           \/ a[1] = b[1] /\ a[2] = b[2] /\ a[3] = b[3] /\ a[4] < b[4]
    PROVE  <<a, b>> \in Lower
<1>1. /\ 1 .. 1 - 1 = {} /\ 1 .. 2 - 1 = {1} /\ 1 .. 3 - 1 = {1, 2} /\ 1 .. 4 - 1 = {1, 2, 3}
      /\ 1 \in 1 .. 4 /\ 2 \in 1 .. 4 /\ 3 \in 1 .. 4 /\ 4 \in 1 .. 4
  OBVIOUS
<1>2. PICK j \in 1 .. 4 : a[j] < b[j] /\ \A i \in 1 .. j - 1 : a[i] = b[i]
  <2>1. CASE a[1] < b[1]
    BY <1>1, <2>1
  <2>2. CASE a[1] = b[1] /\ a[2] < b[2]
    BY <1>1, <2>2
  <2>3. CASE a[1] = b[1] /\ a[2] = b[2] /\ a[3] < b[3]
    BY <1>1, <2>3
  <2>4. CASE a[1] = b[1] /\ a[2] = b[2] /\ a[3] = b[3] /\ a[4] < b[4]
    BY <1>1, <2>4
  <2> QED  BY <2>1, <2>2, <2>3, <2>4
<1>3. <<a[j], b[j]>> \in OpToRel(<, Nat)
  BY <1>2 DEF OpToRel, Ranks
<1> QED  BY <1>2, <1>3 DEF Lower, LexProductOrdering, Ranks

LEMMA RankType == Inv => Rank \in Ranks
<1> SUFFICES ASSUME Inv PROVE Rank \in Ranks
  OBVIOUS
<1>1. Len(queue) \in Nat /\ attempt \in 0 .. MaxRetries + 1 /\ hops \in 0 .. MaxRedirects
      /\ MaxRetries \in Nat /\ MaxRedirects \in Nat
  BY DiscoveryAssumption DEF Inv, TypeOK
<1>2. MaxRedirects + 2 \in Nat /\ MaxRedirects + 1 - hops \in Nat /\ MaxRetries + 2 - attempt \in Nat
  BY <1>1
<1>3. \A a, b, c, d \in Nat : <<a, b, c, d>> \in [1 .. 4 -> Nat]
  OBVIOUS
<1>4. (CASE phase = "resolve" -> 3 [] phase = "alias" -> 2
         [] phase \in Running /\ ep = 0 -> 1 [] OTHER -> 0) \in Nat
  OBVIOUS
<1>5. (IF phase \in Running THEN MaxRetries + 2 - attempt ELSE 0) \in Nat
  BY <1>2
<1>6. (CASE phase = "send" -> MaxRedirects + 2 [] phase = "sent" -> MaxRedirects + 1 - hops
         [] phase = "choose" -> 1 [] OTHER -> 0) \in Nat
  BY <1>2
<1> QED  BY <1>1, <1>3, <1>4, <1>5, <1>6 DEF Rank, Ranks

LEMMA StepLowersRank ==
    ASSUME Inv, Inv', Step
    PROVE  <<Rank', Rank>> \in Lower
<1>0. /\ Len(queue) \in Nat /\ attempt \in 0 .. MaxRetries + 1 /\ hops \in 0 .. MaxRedirects
      /\ MaxRetries \in Nat /\ MaxRedirects \in Nat
      /\ attempt' \in 0 .. MaxRetries + 1 /\ hops' \in 0 .. MaxRedirects /\ Len(queue') \in Nat
  BY DiscoveryAssumption DEF Inv, TypeOK
<1>1. Rank \in Ranks
  BY RankType
<1>2. Rank' \in Ranks
  <2>1. (Inv => Rank \in Ranks)'
    BY RankType, PTL
  <2> QED  BY <2>1 DEF Ranks
<1>3. SUFFICES \/ Rank'[1] < Rank[1]
               \/ Rank'[1] = Rank[1] /\ Rank'[2] < Rank[2]
               \/ Rank'[1] = Rank[1] /\ Rank'[2] = Rank[2] /\ Rank'[3] < Rank[3]
               \/ /\ Rank'[1] = Rank[1] /\ Rank'[2] = Rank[2] /\ Rank'[3] = Rank[3]
                  /\ Rank'[4] < Rank[4]
  <2> HIDE DEF Rank
  <2> QED  BY <1>1, <1>2, LowerRank
<1>4. /\ Rank[1] = CASE phase = "resolve" -> 3 [] phase = "alias" -> 2
                     [] phase \in Running /\ ep = 0 -> 1 [] OTHER -> 0
      /\ Rank[2] = Len(queue)
      /\ Rank[3] = IF phase \in Running THEN MaxRetries + 2 - attempt ELSE 0
      /\ Rank[4] = CASE phase = "send" -> MaxRedirects + 2
                     [] phase = "sent" -> MaxRedirects + 1 - hops
                     [] phase = "choose" -> 1 [] OTHER -> 0
  BY DEF Rank
<1>5. /\ Rank'[1] = CASE phase' = "resolve" -> 3 [] phase' = "alias" -> 2
                      [] phase' \in Running /\ ep' = 0 -> 1 [] OTHER -> 0
      /\ Rank'[2] = Len(queue')
      /\ Rank'[3] = IF phase' \in Running THEN MaxRetries + 2 - attempt' ELSE 0
      /\ Rank'[4] = CASE phase' = "send" -> MaxRedirects + 2
                      [] phase' = "sent" -> MaxRedirects + 1 - hops'
                      [] phase' = "choose" -> 1 [] OTHER -> 0
  BY DEF Rank
<1> HIDE DEF Rank
\* The phase after a failed attempt.
<1>6. ASSUME NEW a, Failed(a) \/ GiveUp(a)
      PROVE  phase' \in {"wait", "choose", "failed"} /\ (ep = 0 => phase' # "choose")
  BY <1>6 DEF Failed, GiveUp
<1>7. CASE Resolve \/ Alias
  <2>1. \/ phase = "resolve" /\ phase' \in {"alias", "send"}
        \/ phase = "alias" /\ phase' = "send"
    BY <1>7 DEF Resolve, Alias, FetchFrom
  <2> QED  BY <1>4, <1>5, <2>1 DEF Running
<1>8. CASE Send
  <2>1. phase = "send" /\ UNCHANGED <<queue, ep, attempt, hops>>
    BY <1>8 DEF Send, call, wire
  <2>2. phase' = "sent" \/ (phase' \in {"wait", "choose", "failed"} /\ (ep = 0 => phase' # "choose"))
    BY <1>6, <1>8 DEF Send
  <2>3. Rank'[2] = Rank[2] /\ Rank[4] = MaxRedirects + 2
    BY <1>4, <1>5, <2>1
  <2>4. CASE phase' \in {"sent", "wait"}
    <3>1. Rank'[1] = Rank[1]
      BY <1>4, <1>5, <2>1, <2>4 DEF Running
    <3>2. Rank'[3] = Rank[3]
      BY <1>4, <1>5, <2>1, <2>4 DEF Running
    <3>3. Rank'[4] \in {0, MaxRedirects + 1 - hops}
      BY <1>5, <2>1, <2>4
    <3>4. 0 < MaxRedirects + 2 /\ MaxRedirects + 1 - hops < MaxRedirects + 2
      BY <1>0
    <3> QED  BY <2>3, <3>1, <3>2, <3>3, <3>4
  <2>5. CASE phase' \in {"choose", "failed"} /\ (ep = 0 => phase' # "choose")
    <3>1. Rank'[1] <= Rank[1] /\ Rank[1] \in Nat /\ Rank'[1] \in Nat
      BY <1>4, <1>5, <2>1, <2>5 DEF Running
    <3>2. Rank'[3] < Rank[3]
      <4>1. Rank'[3] = 0
        BY <1>5, <2>5 DEF Running
      <4>2. Rank[3] = MaxRetries + 2 - attempt
        BY <1>4, <2>1 DEF Running
      <4>3. 0 < MaxRetries + 2 - attempt
        BY <1>0
      <4> QED  BY <4>1, <4>2, <4>3
    <3> QED  BY <2>3, <3>1, <3>2
  <2> QED  BY <2>2, <2>4, <2>5
<1>9. CASE \E o \in Origins : Redirect(o)
  <2>1. phase = "sent" /\ hops' = hops + 1 /\ UNCHANGED <<phase, queue, ep, attempt>>
    BY <1>9 DEF Redirect, NextHop, call
  <2> QED  BY <1>0, <1>4, <1>5, <2>1 DEF Running
<1>10. ASSUME NEW a \in Answers, FetchAnswer(a) PROVE Rank'[1] < Rank[1] \/
              (Rank'[1] = Rank[1] /\ Rank'[2] = Rank[2] /\ Rank'[3] = Rank[3] /\ Rank'[4] < Rank[4])
  <2>1. phase = "sent" /\ ep = 0 /\ UNCHANGED <<ep, attempt, hops>>
    BY <1>10 DEF FetchAnswer, wire
  <2>2. phase' = "choose" \/ (UNCHANGED queue /\ phase' \in {"wait", "failed"})
    BY <1>6, <1>10, <2>1 DEF FetchAnswer
  <2>3. Rank[1] = 1
    BY <1>4, <2>1 DEF Running
  <2>4. CASE phase' \in {"choose", "failed"}
    <3>1. Rank'[1] = 0
      BY <1>5, <2>4 DEF Running
    <3> QED  BY <2>3, <3>1
  <2>5. CASE UNCHANGED queue /\ phase' = "wait"
    <3>1. Rank'[1] = 1 /\ Rank'[4] = 0
      BY <1>5, <2>1, <2>5 DEF Running
    <3>2. Rank'[2] = Rank[2]
      BY <1>4, <1>5, <2>5
    <3>3. Rank'[3] = Rank[3]
      BY <1>4, <1>5, <2>1, <2>5 DEF Running
    <3>4. Rank[4] = MaxRedirects + 1 - hops
      BY <1>4, <2>1
    <3>5. 0 < MaxRedirects + 1 - hops
      BY <1>0
    <3> QED  BY <2>3, <3>1, <3>2, <3>3, <3>4, <3>5
  <2> QED  BY <2>2, <2>4, <2>5
<1>11. CASE Choose
  <2>1. phase = "choose" /\ queue \in Seq(DOMAIN doc)
    BY <1>11 DEF Choose, Inv, TypeOK
  <2>2. CASE queue = <<>>
    <3>1. phase' = "failed" /\ UNCHANGED queue
      BY <1>11, <2>2 DEF Choose, call
    <3> QED  BY <1>4, <1>5, <2>1, <3>1 DEF Running
  <2>3. CASE queue # <<>>
    <3>1. queue' = Tail(queue) /\ Len(queue') < Len(queue)
      BY <1>11, <2>1, <2>3 DEF Choose
    <3>2. phase' = "choose" \/ (phase' = "send" /\ ep' = Head(queue) /\ doc' = doc)
      BY <1>11, <2>1, <2>3 DEF Choose
    <3>3. phase' = "send" => ep' # 0
      <4>1. Head(queue) \in DOMAIN doc /\ doc \in Documents \cup {<<>>}
        BY <2>1, <2>3 DEF Inv, TypeOK
      <4> QED  BY <3>2, <4>1, DocsAre
    <3>4. Rank[1] = 0 /\ Rank'[1] = 0
      BY <1>4, <1>5, <2>1, <3>2, <3>3 DEF Running
    <3> QED  BY <1>4, <1>5, <3>1, <3>4
  <2> QED  BY <2>2, <2>3
<1>12. ASSUME NEW a \in Answers, DiscoverAnswer(a)
       PROVE  /\ Rank'[1] = Rank[1] /\ Rank'[2] = Rank[2]
              /\ Rank'[3] < Rank[3] \/ (Rank'[3] = Rank[3] /\ Rank'[4] < Rank[4])
  <2>1. phase = "sent" /\ ep # 0 /\ UNCHANGED <<queue, ep, attempt, hops>>
    BY <1>12 DEF DiscoverAnswer, call, wire
  <2>2. phase' \in {"wait", "choose", "failed", "resolved"}
    BY <1>6, <1>12 DEF DiscoverAnswer
  <2>3. Rank'[1] = 0 /\ Rank[1] = 0
    BY <1>4, <1>5, <2>1, <2>2 DEF Running
  <2>4. Rank'[2] = Rank[2]
    BY <1>4, <1>5, <2>1
  <2>5. Rank[3] = MaxRetries + 2 - attempt /\ Rank[4] = MaxRedirects + 1 - hops
    BY <1>4, <2>1 DEF Running
  <2>6. 0 < MaxRetries + 2 - attempt /\ 0 < MaxRedirects + 1 - hops
    BY <1>0
  <2>7. CASE phase' = "wait"
    <3>1. Rank'[3] = MaxRetries + 2 - attempt /\ Rank'[4] = 0
      BY <1>5, <2>1, <2>7 DEF Running
    <3> QED  BY <2>3, <2>4, <2>5, <2>6, <3>1
  <2>8. CASE phase' \in {"choose", "failed", "resolved"}
    <3>1. Rank'[3] = 0
      BY <1>5, <2>8 DEF Running
    <3> QED  BY <2>3, <2>4, <2>5, <2>6, <3>1
  <2> QED  BY <2>2, <2>7, <2>8
<1>13. CASE Wait
  <2>1. phase = "wait" /\ UNCHANGED <<queue, ep>>
    BY <1>13 DEF Wait
  <2>2. \/ phase' = "send" /\ attempt' = attempt + 1
        \/ attempt' = attempt /\ phase' \in {"choose", "failed"} /\ (ep = 0 => phase' # "choose")
    BY <1>13 DEF Wait, GiveUp
  <2>3. Rank'[2] = Rank[2]
    BY <1>4, <1>5, <2>1
  <2>4. CASE phase' = "send" /\ attempt' = attempt + 1
    <3>1. Rank'[1] = Rank[1]
      BY <1>4, <1>5, <2>1, <2>4 DEF Running
    <3>2. Rank'[3] < Rank[3]
      <4>1. Rank'[3] = MaxRetries + 2 - (attempt + 1)
        BY <1>5, <2>4 DEF Running
      <4>2. Rank[3] = MaxRetries + 2 - attempt
        BY <1>4, <2>1 DEF Running
      <4>3. MaxRetries + 2 - (attempt + 1) < MaxRetries + 2 - attempt
        BY <1>0
      <4> QED  BY <4>1, <4>2, <4>3
    <3> QED  BY <2>3, <3>1, <3>2
  <2>5. CASE phase' \in {"choose", "failed"} /\ (ep = 0 => phase' # "choose")
    <3>1. Rank'[1] <= Rank[1] /\ Rank[1] \in Nat /\ Rank'[1] \in Nat
      BY <1>4, <1>5, <2>1, <2>5 DEF Running
    <3>2. Rank'[3] < Rank[3]
      <4>1. Rank'[3] = 0
        BY <1>5, <2>5 DEF Running
      <4>2. Rank[3] = MaxRetries + 2 - attempt
        BY <1>4, <2>1 DEF Running
      <4>3. 0 < MaxRetries + 2 - attempt
        BY <1>0
      <4> QED  BY <4>1, <4>2, <4>3
    <3> QED  BY <2>3, <3>1, <3>2
  <2> QED  BY <2>2, <2>4, <2>5
<1>14. CASE \E a \in Answers : FetchAnswer(a)
  BY <1>10, <1>14
<1>15. CASE \E a \in Answers : DiscoverAnswer(a)
  BY <1>12, <1>15
<1>16. \/ Resolve \/ Alias \/ Send \/ Choose \/ Wait
       \/ \E o \in Origins : Redirect(o)
       \/ \E a \in Answers : FetchAnswer(a)
       \/ \E a \in Answers : DiscoverAnswer(a)
  BY DEF Step
<1> QED  BY <1>7, <1>8, <1>9, <1>11, <1>13, <1>14, <1>15, <1>16

(***************************************************************************)
(* Every step of a call leaves less to do, whatever is answered and        *)
(* however often servers redirect, and a cancellation adds nothing.        *)
(***************************************************************************)
CallRunsOut == [][/\ Step => <<Rank', Rank>> \in Lower
                  /\ Cancel => Rank' = Rank]_vars

(***************************************************************************)
(* A call runs out of steps: the lookups and the fetch come once, the loop *)
(* over the endpoints takes each once, retryWithBackoff counts its         *)
(* attempts and crossOriginCheckRedirect the redirects of each.            *)
(***************************************************************************)
THEOREM CallRunsOutHolds == Spec => CallRunsOut
<1>1. Inv /\ Inv' /\ [Next]_vars => [/\ Step => <<Rank', Rank>> \in Lower
                                     /\ Cancel => Rank' = Rank]_vars
  <2>1. ASSUME Cancel PROVE Rank' = Rank
    BY <2>1 DEF Cancel, Rank, call, wire
  <2> QED  BY <2>1, StepLowersRank
<1> QED  BY <1>1, InvHolds, PTL DEF Spec, CallRunsOut

(***************************************************************************)
(* Nothing can go down for ever in that order: no call takes endlessly     *)
(* many steps, for any document, any redirects and any number of retries.  *)
(***************************************************************************)
THEOREM RankIsWellFounded == IsWellFoundedOn(Lower, Ranks) /\ (Spec => [](Rank \in Ranks))
<1>1. IsWellFoundedOn(Lower, Ranks)
  BY NatLessThanWellFounded, WFLexProductOrdering DEF Lower, Ranks
<1>2. Spec => [](Rank \in Ranks)
  BY RankType, InvHolds, PTL
<1> QED  BY <1>1, <1>2
=============================================================================
