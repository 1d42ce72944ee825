----------------------------- MODULE MCNodePool -----------------------------
(* NodePool on four VM types, one of them not offered in the location of
   the installation; one or two legacy releases, a Cluster API release and
   in Hardware.cfg a later one that still has an azure-operator.           *)
EXTENDS NodePool, TLC

Symmetry == Permutations(Requests)

MCOperator == [v \in Releases |-> IF v = FirstCAPI THEN NoOperator ELSE v]

S(memory, cpus, premium, accelerated, zones) ==
    [memory |-> memory, cpus |-> cpus, premium |-> premium, accelerated |-> accelerated,
     zones |-> zones]

\* The smallest type that is big enough, one that is a core short, one
\* without premium storage and accelerated networking, one that is offered elsewhere.
MCSku ==
    [l \in Locations |->
        [t \in VMTypes |->
            CASE t = "plain"  -> S(16, 4, FALSE, FALSE, {1, 2})
              [] t = "fast"   -> S(16, 4, TRUE, TRUE, {1})
              [] t = "short"  -> S(16, 3, TRUE, TRUE, {1})
              [] t = "remote" -> IF l = Home THEN NotOffered ELSE S(32, 8, TRUE, TRUE, {1})]]

Pool(t, storage, accelerated) ==
    [vmSize |-> t, storage |-> storage, accelerated |-> accelerated, spot |-> "none",
     dataDisks |-> "none", sshKey |-> FALSE, location |-> "", organization |-> Owner,
     release |-> NoRelease, operator |-> NoOperator, deleting |-> FALSE]

Desired(p) == [p EXCEPT !.dataDisks = "desired", !.location = Home]

\* New node pools and edits of them, and the ways to get one wrong.
HardwarePools ==
    {Pool(t, "", a) : t \in {"plain", "fast"}, a \in {"nil", "true"}}
    \cup {Desired(Pool(t, s, a)) :
             t \in VMTypes, s \in {"Premium_LRS", "Standard_LRS"}, a \in {"nil", "true"}}
    \cup LET p == Desired(Pool("fast", "Premium_LRS", "true"))
         IN  {[p EXCEPT !.storage = "other"], [p EXCEPT !.spot = "cheap"],
              [p EXCEPT !.dataDisks = "other"], [p EXCEPT !.sshKey = TRUE],
              [p EXCEPT !.location = "away"], [p EXCEPT !.organization = "other"],
              [p EXCEPT !.accelerated = "false"],
              [p EXCEPT !.release = FirstCAPI], [p EXCEPT !.release = 4, !.vmSize = "short"],
              [p EXCEPT !.release = 1]}

\* For the two objects together, in a cluster that is being upgraded.
PairPools == {Pool("plain", "", "nil"), Desired(Pool("fast", "Standard_LRS", "nil"))}

Machine(zones, v, organization) ==
    [failureDomains |-> zones, organization |-> organization, release |-> v,
     operator |-> NoOperator, replicas |-> Unset, annotated |-> TRUE, min |-> Unset,
     max |-> Unset, deleting |-> FALSE]

PairMachines == {Machine({1, 2}, NoRelease, Owner), Machine({2}, FirstCAPI, Owner)}

\* Replicas and autoscaling annotations: no annotations at all, junk and
\* junk, a maximum below the minimum, zero replicas, a negative minimum
\* and negative replicas.
ScalingMachines ==
    LET Scaled(n, a, b) == [Machine({}, NoRelease, Owner) EXCEPT
                               !.replicas = n, !.min = a, !.max = b]
    IN  {[Scaled(Unset, Unset, Unset) EXCEPT !.annotated = FALSE],
         Scaled(3, NoNumber, NoNumber), Scaled(1, 3, 1), Scaled(0, Unset, 3),
         Scaled(Unset, -1, 3), Scaled(-1, Unset, Unset)}

PoolMachines == PairMachines \cup ScalingMachines

MCCounts == {-1, 0, 1, 3}

NoMachines == {}
=============================================================================
