--------------------------- MODULE MCClusterCreate ---------------------------
(* ClusterCreate on two legacy releases, the second of them published later,
   and a Cluster API release.                                              *)
EXTENDS ClusterCreate, TLC

CONSTANTS op0, op1   \* versions of the azure-operator

V(major, minor) == [major |-> major, minor |-> minor, patch |-> 0, pre |-> 0]

MCVersions == {V(1, 0), V(1, 1), V(2, 0)}

MCPublished == {V(1, 0), V(2, 0)}

MCAlphaPres == {}

MCLabels == {NoLabel, op0, op1}

MCOperator == [v \in MCVersions |-> CASE v = V(1, 0) -> op0
                                      [] v = V(1, 1) -> op1
                                      [] v = V(2, 0) -> NoLabel]

\* Two spellings of one organization.
MCAsDNSLabelName == [l \in OrgLabels |-> "acme"]

Symmetry == Permutations(Requests)

Proposal(v, op) ==
    [release |-> v, azureOp |-> op, organization |-> "acme", host |-> "", port |-> "",
     network |-> "nil", target |-> NoRelease, location |-> "", apiServerLB |-> ""]

Complete(o) == [o EXCEPT !.host = "right", !.port = "right", !.network = "right",
                         !.location = "right", !.apiServerLB = "other"]

\* With and without defaults and labels.
MCProposals ==
    [k \in Kinds |->
        IF k = "Cluster"
        THEN {Proposal(V(1, 0), NoLabel), Proposal(V(1, 1), NoLabel), Proposal(NoRelease, op1),
              [Complete(Proposal(V(1, 0), op1)) EXCEPT !.target = V(1, 1)]}
        ELSE {Proposal(V(1, 0), NoLabel),
              [Proposal(V(1, 1), op0) EXCEPT !.apiServerLB = "right"],
              [Proposal(NoRelease, NoLabel) EXCEPT !.organization = "Acme"],
              [Complete(Proposal(V(2, 0), op1)) EXCEPT !.location = "other"]}]
=============================================================================
