---------------------------- MODULE ReleasePath ----------------------------
(***************************************************************************)
(* What the admission of their updates promises about the releases of a    *)
(* Cluster and its AzureCluster, two objects that clients write            *)
(* independently: both are on legacy releases and go up only, and the      *)
(* AzureCluster goes only to releases that its Cluster carries or carried. *)
(* The promise ends for good with a write that no webhook has validated,   *)
(* or a Release CR that is marked to be ignored.                           *)
(*                                                                         *)
(* ClusterUpgrade implements it; NodePool takes it for its surroundings.   *)
(***************************************************************************)
CONSTANTS
    Releases,         \* the legacy releases
    Before            \* the pairs of releases of which one precedes the other

VARIABLES
    clusterRelease,   \* the release of the Cluster
    azureRelease,     \* that of the AzureCluster
    carried,          \* the releases the Cluster carries or carried
    exempt            \* nothing is promised any more

vars == <<clusterRelease, azureRelease, carried, exempt>>

\* The Cluster may have been upgraded, and its AzureCluster not yet.
Init ==
    /\ clusterRelease \in Releases /\ azureRelease \in Releases
    /\ azureRelease = clusterRelease \/ <<azureRelease, clusterRelease>> \in Before
    /\ carried = {clusterRelease, azureRelease}
    /\ exempt = FALSE

UpgradeCluster(v) ==
    /\ <<clusterRelease, v>> \in Before
    /\ clusterRelease' = v
    /\ carried' = carried \cup {v}
    /\ UNCHANGED azureRelease
    /\ exempt' = exempt

\* The AzureCluster follows, to a release that may not be the last one: its
\* update read the Cluster earlier than it is written.
UpgradeAzureCluster(v) ==
    /\ v \in carried
    /\ <<azureRelease, v>> \in Before
    /\ azureRelease' = v
    /\ UNCHANGED <<clusterRelease, carried>>
    /\ exempt' = exempt

Next ==
    \/ \E v \in Releases : UpgradeCluster(v) \/ UpgradeAzureCluster(v)
    \/ exempt' = TRUE

Spec == Init /\ [][Next]_vars
=============================================================================
