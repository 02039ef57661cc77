---------------------------- MODULE MakerChecker ----------------------------
(***************************************************************************)
(* What the collection-draft workflow promises of a release's signed       *)
(* collections, without locks, clocks, signatures or revisions: whatever   *)
(* is published was proposed by one party and endorsed, in exactly that    *)
(* form, by another one, and publishing uses the proposal up.              *)
(***************************************************************************)
EXTENDS Integers

CONSTANTS Owners, Contents, Parties, Nothing, MaxVersion

VARIABLES proposal,   \* proposal[o]: the proposal open for o, or Nothing
          published   \* the collections published through proposals

vars == <<proposal, published>>

\* A party is an actor together with the credential it acts under; two
\* parties are independent when they share neither.
Independent(p, q) == p[1] # q[1] /\ p[2] # q[2]

Init ==
    /\ proposal = [o \in Owners |-> Nothing]
    /\ published = {}

\* A proposal, or a changed one, is endorsed by nobody.
Propose(o) ==
    /\ \E c \in Contents, p \in Parties :
          proposal' = [proposal EXCEPT ![o] =
                          [content |-> c, maker |-> p, checker |-> Nothing]]
    /\ UNCHANGED published

Endorse(o) ==
    /\ proposal[o] # Nothing
    /\ \E p \in Parties :
          /\ Independent(p, proposal[o].maker)
          /\ proposal' = [proposal EXCEPT ![o].checker = p]
    /\ UNCHANGED published

Refuse(o) ==
    /\ proposal[o] # Nothing
    /\ proposal' = [proposal EXCEPT ![o].checker = Nothing]
    /\ UNCHANGED published

Withdraw(o) ==
    /\ proposal[o] # Nothing
    /\ proposal' = [proposal EXCEPT ![o] = Nothing]
    /\ UNCHANGED published

Publish(o) ==
    /\ proposal[o] # Nothing
    /\ proposal[o].checker # Nothing
    /\ proposal' = [proposal EXCEPT ![o] = Nothing]
    /\ \E v \in 1..MaxVersion :
          /\ \A q \in published : q.owner = o => q.version < v
          /\ published' = published \cup
                {[owner |-> o, version |-> v, content |-> proposal[o].content]}

Next == \E o \in Owners : \/ Propose(o)
                          \/ Endorse(o)
                          \/ Refuse(o)
                          \/ Withdraw(o)
                          \/ Publish(o)

Spec == Init /\ [][Next]_vars
=============================================================================
