---------------------------- MODULE MCAzureUpdate ----------------------------
(* AzureUpdate on five versions: an early one, a line with an alpha release
   and two patches, and a later major.                                     *)
EXTENDS AzureUpdate, TLC

CONSTANTS net1, net2, zone1, zone2   \* subnets and zones

V(major, minor, patch, pre) ==
    [major |-> major, minor |-> minor, patch |-> patch, pre |-> pre]

MCVersions ==
    {V(1, 0, 0, 0), V(1, 1, 0, -1), V(1, 1, 0, 0), V(1, 1, 1, 0), V(2, 0, 0, 0)}

MCPublished == MCVersions \ {V(1, 1, 0, 0)}

MCAlphaPres == {-1}

\* net1 goes with zone1, and net2 with zone2.
MCZones(c) == [z \in Zones |-> IF <<c, z>> \in {<<net1, zone1>>, <<net2, zone2>>} THEN 1 ELSE 0]

Swapped == (net1 :> net2) @@ (net2 :> net1) @@ (zone1 :> zone2) @@ (zone2 :> zone1)

Symmetry == Permutations(Requests)
            \cup {p @@ Swapped : p \in Permutations(Requests)}

\* One release of every line, or none, with a network or without one.
MCProposal(k, v, c) ==
    [kind |-> k, version |-> v, cidr |-> c, zones |-> MCZones(c), deleting |-> FALSE]

MCProposed == {V(1, 0, 0, 0), V(1, 1, 1, 0), V(2, 0, 0, 0)}

MCProposals ==
    {MCProposal("AzureConfig", v, c) : v \in MCProposed, c \in CIDRs \cup {NoCIDR}}
    \cup {MCProposal("AzureClusterConfig", v, NoCIDR) : v \in MCProposed}
    \cup {MCProposal(k, NotAVersion, NoCIDR) : k \in Kinds}
=============================================================================
