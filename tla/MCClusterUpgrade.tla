-------------------------- MODULE MCClusterUpgrade --------------------------
(* ClusterUpgrade on small instances. *)
EXTENDS ClusterUpgrade, TLC

CONSTANTS op0, op1, op2   \* versions of the operators

V(major, minor) == [major |-> major, minor |-> minor, patch |-> 0, pre |-> 0]

\* Three legacy lines and a Cluster API release, which has no azure-operator.
MCVersions == {V(1, 0), V(1, 1), V(1, 2), V(2, 0)}

MCAlphaPres == {}

MCLabels == {NoLabel, op0, op1, op2}

OperatorOf(v) == CASE v = V(1, 0) -> op0
                   [] v = V(1, 1) -> op1
                   [] v = V(1, 2) -> op2
                   [] v = V(2, 0) -> NoLabel

MCComponent == [v \in MCVersions |-> [azureOp |-> OperatorOf(v), clusterOp |-> OperatorOf(v)]]

Symmetry == Permutations(Requests)

Proposal(v, target, f, c, u) ==
    [release |-> v, azureOp |-> op0, clusterOp |-> NoLabel, fixed |-> f,
     creating |-> c, upgrading |-> u, target |-> target, deleting |-> FALSE]

\* 1.2 has no Release CR at first.
MCPublished == MCVersions \ {V(1, 2)}

\* Every release is proposed, or none, with the operator labels of 1.0, and
\* three scheduled upgrades, to a release that was reached too, with the
\* conditions a client that owns the status may set.
MCProposals ==
    {Proposal(v, NoRelease, "f1", "Absent", "Absent") : v \in MCVersions \cup {NoRelease}}
    \cup {Proposal(V(1, 0), V(1, 1), "f1", "True", "Absent"),
          Proposal(V(1, 1), V(1, 1), "f1", "Absent", "True"),
          Proposal(V(1, 1), V(2, 0), "f1", "False", "False")}
=============================================================================
