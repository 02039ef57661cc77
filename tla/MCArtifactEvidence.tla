------------------------- MODULE MCArtifactEvidence -------------------------
(* Instances of ArtifactEvidence for TLC.                                  *)
EXTENDS ArtifactEvidence, TLC

CONSTANTS a1, c1, d1, f1, h1, h2, k1

URL(k, v, f) == [kind |-> k, artifact |-> a1, version |-> v, format |-> f]

\* Clients read the latest version of the artifact, and the content of its file.
TwoKinds == {URL("artifact", 0, 1), URL("checksum", 0, 1)}

\* A version imported by reference is the first one of its artifact, and clients
\* have kept nothing while it is there.
Focus ==
    \A a \in Artifacts, v \in Versions :
        Exists(a, v) /\ artifact[a][v].source = "referenced" =>
            v = 1 /\ copy = [c \in Clients |-> NULL]

Symmetric == Permutations(Handlers)
=============================================================================
