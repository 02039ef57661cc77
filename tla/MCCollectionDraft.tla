------------------------- MODULE MCCollectionDraft -------------------------
(***************************************************************************)
(* Instances of CollectionDraft for TLC.                                   *)
(***************************************************************************)
EXTENDS CollectionDraft, TLC

CONSTANTS a1, a2, k1, k2, s1, s2, f1, f2, e1, r1, o1

OneInput == {[artifacts |-> <<r1>>, reason |-> "listed"]}

\* With a draft that names an artifact twice.
DupInputs == OneInput \cup {[artifacts |-> <<r1, r1>>, reason |-> "listed"]}

(***************************************************************************)
(* The states TLC goes on from.  All of the workflow at once is too large; *)
(* the run follows one signer and an editor for longer, and two signers    *)
(* with the admin API and imports beside them for a shorter time.          *)
(***************************************************************************)

Busy == {s \in Signers : signer[s].phase # "idle"}

\* The admin API and imports have not interfered.
DraftsOnly ==
    /\ creating = {}
    /\ \A s \in Signers : signer[s].phase # "attesting"
    /\ \A o \in Owners : releases[o] # "absent" => 1 \in Versions(o)
    /\ \A c \in collections :
          c.origin = IF c.version = 1 THEN "initial" ELSE "commit"
    /\ \A x \in evidence : x.fingerprint = f1 /\ x.version > 1

\* Edits, decisions, locks, cancels and a changing artifact, up to the time
\* at which an approval runs out under a lock.
OneSigner ==
    /\ DraftsOnly
    /\ Cardinality(Busy) <= 1
    /\ \A s \in Busy :
          /\ signer[s].fingerprint = f1
          /\ now < 3 \/ signer[s].digest.version \notin
                            Versions(signer[s].digest.owner)
    /\ (\E e \in Editors : editor[e].phase # "idle") =>
          /\ cancelling = {}
          /\ \A o \in Owners : releases[o] = "present"
          /\ \A s \in Busy : signer[s].phase = "signing"

\* Two commits at once, with evidence and collections from elsewhere.
TwoSigners ==
    /\ now = 1 \/ (now = 2 /\ DraftsOnly)
    /\ \A r \in Refs : content[r] <= 1
    /\ \A o \in Owners : /\ drafts[o].revision <= 1
                         /\ Len(drafts[o].artifacts) <= 1
                         /\ drafts[o].status # "rejected"
    /\ \A c \in collections : Len(c.artifacts) <= 1
    /\ \A s \in Busy :
          signer[s].fingerprint = f1 \/ signer[s].phase = "attesting"
    /\ cancelling = {}
    /\ \A e \in Editors : editor[e].phase = "idle"

Focus == OneSigner \/ TwoSigners

Symmetry ==
    Permutations(Actors) \cup Permutations(Creds) \cup Permutations(Signers)
=============================================================================
