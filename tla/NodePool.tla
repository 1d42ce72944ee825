------------------------------ MODULE NodePool ------------------------------
(***************************************************************************)
(* One node pool of a workload cluster, an AzureMachinePool and the        *)
(* MachinePool that refers to it, through the admission controller:        *)
(* pkg/azuremachinepool and pkg/machinepool behind the handler factories   *)
(* of pkg/mutator and pkg/validator, while the Cluster and its             *)
(* AzureCluster are being upgraded.                                        *)
(*                                                                         *)
(* A create request is admitted in the steps                               *)
(*                                                                         *)
(*   mutateFilter -> ensure -> operator -> validateFilter -> validate      *)
(*                                                        -> write -> done *)
(*                                                                         *)
(* where "ensure" ends with the first read of the AzureCluster, for the    *)
(* release label, and "operator" with the second, for the operator label.  *)
(* An update has no "operator" step, and one of an AzureMachinePool no     *)
(* "ensure" either: its mutator changes nothing that is modelled here.     *)
(* Answers about VM types are the truth or an error (SkuOracle); an error, *)
(* like a failing read, a patch that does not apply or a check of data     *)
(* that is not here (the CAPI and CAPZ validation), can only deny a        *)
(* request: that is Refuse.  The Release CRs stay as they are;             *)
(* ClusterUpgrade is about their edits.                                    *)
(***************************************************************************)
EXTENDS Integers, Sequences, FiniteSets

CONSTANTS
    Requests,       \* the requests, each made at most once
    Releases,       \* release versions in their order, as numbers
    FirstCAPI,      \* FirstCAPIRelease
    Operator,       \* the azure-operator of each release
    NoOperator,     \* none, or no operator label
    NoRelease,      \* no release label
    VMTypes,
    Locations,
    Home,           \* the location of the installation
    Sku,            \* what Azure offers per location and VM type
    NotOffered,     \* it does not offer it
    Zones,
    Organizations,
    Owner,          \* the organization of the Cluster
    Spots,          \* spot VM options: none, or some with or without a price
    Absent,         \* the object does not exist
    Unset,          \* an annotation that is missing or empty, replicas that are nil
    NoNumber,       \* an annotation that is no number of 32 bits
    Counts,         \* the numbers of replicas in use, some of them negative
    PoolProposals,  \* the AzureMachinePools clients propose
    MachineProposals,
    MaxLabels       \* bound on the pairs of labels that the AzureCluster has in turn

Kinds == {"AzureMachinePool", "MachinePool"}

Operators == {Operator[v] : v \in Releases} \cup {NoOperator}

SkuRecord == [memory : Nat, cpus : Nat, premium : BOOLEAN, accelerated : BOOLEAN,
              zones : SUBSET Zones]

AzureMachinePool ==
    [vmSize : VMTypes,
     storage : {"", "Premium_LRS", "Standard_LRS", "other"},
     accelerated : {"nil", "true", "false"},
     spot : Spots,
     dataDisks : {"none", "desired", "other"},
     sshKey : BOOLEAN,
     location : Locations \cup {""},
     organization : Organizations,
     release : Releases \cup {NoRelease},
     operator : Operators,
     deleting : BOOLEAN]

MachinePool ==
    [failureDomains : SUBSET Zones,
     organization : Organizations,
     release : Releases \cup {NoRelease},
     operator : Operators,
     replicas : Counts \cup {Unset},
     annotated : BOOLEAN,                    \* metadata.annotations is there
     min : Counts \cup {Unset, NoNumber},    \* the autoscaling annotations
     max : Counts \cup {Unset, NoNumber},
     deleting : BOOLEAN]

Objects(k) == IF k = "MachinePool" THEN MachinePool ELSE AzureMachinePool

minMemory == 16
minCPUs == 4
defaultReplicas == 1

ASSUME NodePoolAssumption ==
    /\ Releases \subseteq Nat /\ NoRelease \notin Releases
    /\ FirstCAPI \in Nat
    /\ Home \in Locations /\ "" \notin Locations
    /\ Sku \in [Locations -> [VMTypes -> SkuRecord \cup {NotOffered}]]
    /\ NotOffered \notin SkuRecord
    /\ Absent \notin AzureMachinePool \cup MachinePool
    /\ Owner \in Organizations
    /\ PoolProposals \subseteq AzureMachinePool
    /\ MachineProposals \subseteq MachinePool
    /\ Counts \subseteq Int /\ defaultReplicas \in Counts
    /\ Unset \notin Counts \cup {NoNumber} /\ NoNumber \notin Counts

Steps == {"idle", "mutateFilter", "ensure", "operator", "validateFilter", "validate",
          "write", "done"}

VARIABLES
    clusterRelease,   \* the release label of the Cluster
    azureRelease,     \* that of the AzureCluster
    azureOperator,    \* the operator label of the AzureCluster
    clusterHistory,   \* the releases the Cluster carries or carried
    store,            \* the stored node pool, per kind
    reqs,             \* the requests
    \* history variables, read by the properties only
    azureHistory,     \* the pairs of labels the AzureCluster ever had
    vmHistory,        \* the VM types the AzureMachinePool ever had
    unchecked,        \* kinds with a write that was not validated
    unmutated         \* the last write of the MachinePool was not mutated

clusterVars == <<clusterRelease, azureRelease, azureOperator, clusterHistory, azureHistory>>
vars == <<clusterRelease, azureRelease, azureOperator, clusterHistory, store, reqs,
          azureHistory, vmHistory, unchecked, unmutated>>

\* The labels that one version of the AzureCluster carries.
Labels == [release : Releases, operator : Operators]

AzureLabels == [release |-> azureRelease, operator |-> azureOperator]

\* The releases a cluster with azure-operator is upgraded to.
LegacyReleases == {v \in Releases : v < FirstCAPI /\ Operator[v] # NoOperator}

\* The Cluster and its AzureCluster, of which ClusterUpgrade shows that their
\* updates keep to this as long as all of them are validated.
Path == INSTANCE ReleasePath
    WITH Releases <- LegacyReleases,
         Before <- {p \in Releases \X Releases : p[1] < p[2]},
         carried <- clusterHistory,
         exempt <- FALSE

Request(k) == [step : Steps, kind : {k}, old : Objects(k) \cup {Absent},
               new : Objects(k), stale : BOOLEAN, checked : BOOLEAN,
               mutated : BOOLEAN, scales : BOOLEAN,
               copied : SUBSET {"release", "operator"}]

\* No default is left open once OnCreateMutate has made its patches.
Ensured(q) ==
    /\ q.new.release # NoRelease
    /\ q.kind = "AzureMachinePool" => q.new.location # "" /\ q.new.storage # ""
                                     /\ q.new.dataDisks # "none"

Idle == [step |-> "idle"]
Done == [step |-> "done"]

TypeOK ==
    /\ clusterRelease \in Releases
    /\ azureRelease \in Releases
    /\ azureOperator \in Operators
    /\ clusterHistory \subseteq Releases
    /\ DOMAIN store = Kinds
    /\ \A k \in Kinds : store[k] \in Objects(k) \cup {Absent}
    /\ DOMAIN reqs = Requests
    /\ \A r \in Requests : \/ reqs[r] \in {Idle, Done}
                           \/ \E k \in Kinds : reqs[r] \in Request(k)
    /\ \A r \in Requests : reqs[r].step = "operator" => Ensured(reqs[r])
    /\ azureHistory \subseteq Labels
    /\ vmHistory \subseteq VMTypes
    /\ unchecked \subseteq Kinds
    /\ unmutated \in BOOLEAN

Init ==
    /\ Path!Init
    /\ azureOperator = Operator[azureRelease]
    /\ store = [k \in Kinds |-> Absent]
    /\ reqs = [r \in Requests |-> Idle]
    /\ azureHistory = {AzureLabels}
    /\ vmHistory = {}
    /\ unchecked = {}
    /\ unmutated = FALSE

-----------------------------------------------------------------------------
(* internal/vmcapabilities, as far as the answer is not an error. *)

Known(p) == p.location # "" /\ Sku[p.location][p.vmSize] # NotOffered

SkuOf(p) == Sku[p.location][p.vmSize]

-----------------------------------------------------------------------------
(* pkg/azuremachinepool *)

checkInstanceTypeIsValid(p) ==
    Known(p) /\ SkuOf(p).memory >= minMemory /\ SkuOf(p).cpus >= minCPUs

checkAcceleratedNetworking(p) ==
    p.accelerated = "true" => Known(p) /\ SkuOf(p).accelerated

checkStorageAccountTypeIsValid(p) ==
    /\ p.storage \in {"Standard_LRS", "Premium_LRS"}
    /\ p.storage = "Premium_LRS" => Known(p) /\ SkuOf(p).premium

checkAcceleratedNetworkingUpdateIsValid(old, new) ==
    /\ old.accelerated = new.accelerated
    /\ old.vmSize # new.vmSize => checkAcceleratedNetworking(new)

\* Fault: the old and the new VM type are mixed up.
FaultyInstanceTypeChange(old, new) ==
    old.vmSize # new.vmSize =>
        /\ Known(old) /\ Known(new)
        /\ ~(SkuOf(new).premium /\ ~SkuOf(old).premium)

checkInstanceTypeChangeIsValid(old, new) ==
    old.vmSize # new.vmSize =>
        /\ Known(old) /\ Known(new)
        /\ ~(SkuOf(old).premium /\ ~SkuOf(new).premium)

PoolOnCreateValidate(new) ==
    /\ new.organization = Owner
    /\ checkInstanceTypeIsValid(new)
    /\ checkAcceleratedNetworking(new)
    /\ checkStorageAccountTypeIsValid(new)
    /\ ~new.sshKey
    /\ new.dataDisks = "desired"
    /\ new.location = Home

IsCAPIRelease(o) == o.release # NoRelease /\ o.release >= FirstCAPI

\* Fault: the spot options are not compared.
FaultyPoolUpdateChecks(old, new) ==
    /\ old.organization = new.organization
    /\ checkInstanceTypeIsValid(new)
    /\ checkAcceleratedNetworkingUpdateIsValid(old, new)
    /\ checkInstanceTypeChangeIsValid(old, new)
    /\ old.storage = new.storage
    /\ ~new.sshKey
    /\ new.dataDisks = "desired"
    /\ old.location = new.location

\* Everything after the shortcuts for deletion and Cluster API releases.
PoolUpdateChecks(old, new) ==
    /\ old.organization = new.organization
    /\ checkInstanceTypeIsValid(new)
    /\ checkAcceleratedNetworkingUpdateIsValid(old, new)
    /\ checkInstanceTypeChangeIsValid(old, new)
    /\ old.spot = new.spot
    /\ old.storage = new.storage
    /\ ~new.sshKey
    /\ new.dataDisks = "desired"
    /\ old.location = new.location

\* Fault: no storage account type is chosen when the location was empty.
FaultyEnsurePool(p) ==
    [p EXCEPT !.location = IF @ = "" THEN Home ELSE @,
              !.storage = IF @ # "" \/ p.location = "" THEN @
                          ELSE IF Sku[p.location][p.vmSize].premium THEN "Premium_LRS"
                          ELSE "Standard_LRS",
              !.dataDisks = IF @ = "none" THEN "desired" ELSE @]

\* ensureLocation, ensureStorageAccountType and ensureDataDisks, each made
\* for the object as the client sent it.
EnsurePool(p) ==
    LET location == IF p.location = "" THEN Home ELSE p.location
    IN  [p EXCEPT !.location = location,
                  !.storage = IF @ # "" THEN @
                              ELSE IF Sku[location][p.vmSize].premium THEN "Premium_LRS"
                              ELSE "Standard_LRS",
                  !.dataDisks = IF @ = "none" THEN "desired" ELSE @]

\* The VM type has to be known to choose the storage account type.
CanEnsurePool(p) ==
    p.storage = "" => Known([p EXCEPT !.location = IF @ = "" THEN Home ELSE @])

-----------------------------------------------------------------------------
(* pkg/machinepool *)

\* SupportedAZs of the AzureMachinePool's VM type: an error is no zones.
SupportedAZs(zones) ==
    LET p == store["AzureMachinePool"]
    IN  zones = {} \/ (Known(p) /\ zones = SkuOf(p).zones)

\* Fault: a MachinePool without its AzureMachinePool is let through.
FaultyMachineOnCreateValidate(new) ==
    /\ new.organization = Owner
    /\ store["AzureMachinePool"] # Absent =>
          \E zones \in SUBSET Zones : SupportedAZs(zones) /\ new.failureDomains \subseteq zones

MachineOnCreateValidate(new) ==
    /\ new.organization = Owner
    /\ store["AzureMachinePool"] # Absent
    /\ \E zones \in SUBSET Zones : SupportedAZs(zones) /\ new.failureDomains \subseteq zones

MachineUpdateChecks(old, new) ==
    /\ old.organization = new.organization
    /\ old.failureDomains = new.failureDomains

\* One operation of a JSON patch, on the autoscaling annotations or the
\* replicas: "add" needs the object it adds to, "replace" a value.
Patch(op, path, value) == [op |-> op, path |-> path, value |-> value]

Applies(o, p) ==
    /\ p.op = "add" => p.path = "replicas" \/ o.annotated
    /\ p.op = "replace" => o[p.path] # Unset

Apply(o, p) == [o EXCEPT ![p.path] = p.value]

\* The states of the object while the API server applies the patches.
Patching(o, patches) ==
    LET state[i \in 0..Len(patches)] ==
            IF i = 0 THEN o ELSE Apply(state[i - 1], patches[i])
    IN  state

CanPatch(o, patches) ==
    \A i \in 1..Len(patches) : Applies(Patching(o, patches)[i - 1], patches[i])

Patched(o, patches) == Patching(o, patches)[Len(patches)]

\* A patch that sets an annotation, for its value before.
PatchAnnotation(path, before, value) ==
    << Patch(IF before = Unset THEN "add" ELSE "replace", path, value) >>

IsNumber(value) == value \notin {Unset, NoNumber}

\* Fault: the maximum is compared with the replicas.
FaultyAutoscaling(o) ==
    LET replicas == IF o.replicas = Unset THEN defaultReplicas ELSE o.replicas
        minValid == IsNumber(o.min) /\ o.min >= 0
        maxValid == IsNumber(o.max) /\ o.max >= replicas
    IN  (IF minValid THEN << >> ELSE PatchAnnotation("min", o.min, replicas))
        \o (IF maxValid THEN << >> ELSE PatchAnnotation("max", o.max, replicas))

\* Fault: a minimum of 0 is taken for none.
FaultyZeroMinimum(o) ==
    LET replicas == IF o.replicas = Unset THEN defaultReplicas ELSE o.replicas
        minValid == IsNumber(o.min) /\ o.min > 0
        currentMin == IF minValid THEN o.min ELSE replicas
        maxValid == IsNumber(o.max) /\ o.max >= currentMin
    IN  (IF minValid THEN << >> ELSE PatchAnnotation("min", o.min, replicas))
        \o (IF maxValid THEN << >> ELSE PatchAnnotation("max", o.max, currentMin))

ensureAutoscalingAnnotations(o) ==
    LET replicas == IF o.replicas = Unset THEN defaultReplicas ELSE o.replicas
        minValid == IsNumber(o.min) /\ o.min >= 0
        currentMin == IF minValid THEN o.min ELSE replicas
        maxValid == IsNumber(o.max) /\ o.max >= currentMin
    IN  (IF minValid THEN << >> ELSE PatchAnnotation("min", o.min, replicas))
        \o (IF maxValid THEN << >> ELSE PatchAnnotation("max", o.max, currentMin))

\* GenerateFromObjectDiff of the object and what Default makes of it, both
\* without the patches before.
DefaultPatches(o) ==
    IF o.replicas = Unset THEN << Patch("add", "replicas", defaultReplicas) >> ELSE << >>

MachinePatches(o) == ensureAutoscalingAnnotations(o) \o DefaultPatches(o)

-----------------------------------------------------------------------------
(* The requests *)

Unaffected == UNCHANGED <<clusterVars, store, vmHistory, unchecked, unmutated>>

\* The API server accepts a request to create or update the object; an
\* update keeps the deletion timestamp.
Submit(r, k, o, scales) ==
    /\ reqs[r] = Idle
    /\ LET old == store[k]
           new == IF old = Absent THEN o ELSE [o EXCEPT !.deleting = old.deleting]
       IN  reqs' = [reqs EXCEPT ![r] =
                       [step |-> "mutateFilter", kind |-> k, old |-> old, new |-> new,
                        stale |-> FALSE, checked |-> FALSE, mutated |-> FALSE,
                        scales |-> scales, copied |-> {}]]
    /\ Unaffected

\* The cluster autoscaler changes the number of replicas of the MachinePool
\* and sends everything else as it found it.
Scale(r, n) ==
    /\ store["MachinePool"] # Absent
    /\ Submit(r, "MachinePool", [store["MachinePool"] EXCEPT !.replicas = n], TRUE)

Advance(r, from, to) ==
    /\ reqs[r].step = from
    /\ reqs' = [reqs EXCEPT ![r].step = to]
    /\ Unaffected

Deny(r, from) ==
    /\ reqs[r].step = from
    /\ reqs' = [reqs EXCEPT ![r] = Done]
    /\ Unaffected

\* IsObjectReconciledByLegacyRelease: the object's release or its Cluster's.
Legacy(o) ==
    Operator[IF o.release # NoRelease THEN o.release ELSE clusterRelease] # NoOperator

MutateFilter(r) ==
    /\ reqs[r].step = "mutateFilter"
    /\ Advance(r, "mutateFilter",
               IF /\ Legacy(reqs[r].new)
                  /\ reqs[r].old = Absent \/ reqs[r].kind = "MachinePool"
               THEN "ensure" ELSE "validateFilter")

\* EnsureReleaseVersionLabel, from the AzureCluster (docs/mutating.md says
\* from the Cluster; the two differ while an upgrade is under way).
EnsureReleaseVersionLabel(o) ==
    IF o.release = NoRelease THEN [o EXCEPT !.release = azureRelease] ELSE o

\* The patches of either kind that need no read of another object.
CanEnsure(q) ==
    IF q.kind = "AzureMachinePool" THEN CanEnsurePool(q.new)
                                   ELSE CanPatch(q.new, MachinePatches(q.new))

EnsureObject(q) ==
    IF q.kind = "AzureMachinePool" THEN EnsurePool(q.new)
                                   ELSE Patched(q.new, MachinePatches(q.new))

\* OnCreateMutate of either kind up to its first read of the AzureCluster.
Ensure(r) ==
    LET q == reqs[r]
    IN  /\ q.step = "ensure" /\ q.old = Absent
        /\ CanEnsure(q)
        /\ reqs' = [reqs EXCEPT ![r] =
                       [q EXCEPT
                           !.step = "operator",
                           !.mutated = TRUE,
                           !.new = EnsureReleaseVersionLabel(EnsureObject(q)),
                           !.copied = IF q.new.release = NoRelease THEN {"release"} ELSE {}]]
        /\ Unaffected

\* OnUpdateMutate of a MachinePool.
EnsureUpdate(r) ==
    LET q == reqs[r]
    IN  /\ q.step = "ensure" /\ q.old # Absent
        /\ CanEnsure(q)
        /\ reqs' = [reqs EXCEPT ![r] = [q EXCEPT !.step = "validateFilter", !.mutated = TRUE,
                                                 !.new = EnsureObject(q)]]
        /\ Unaffected

\* Fault: the operator label is that of the Cluster's release.
FaultyCopyOperatorLabel(o) ==
    IF o.operator = NoOperator THEN [o EXCEPT !.operator = Operator[clusterRelease]] ELSE o

CopyAzureOperatorVersionLabelFromAzureClusterCR(o) ==
    IF o.operator = NoOperator THEN [o EXCEPT !.operator = azureOperator] ELSE o

\* The second read of the AzureCluster, which fails without the label there.
CopyOperatorLabel(r) ==
    /\ reqs[r].step = "operator"
    /\ reqs[r].new.operator # NoOperator \/ azureOperator # NoOperator
    /\ LET o == reqs[r].new
       IN  reqs' = [reqs EXCEPT ![r] =
                       [reqs[r] EXCEPT
                           !.step = "validateFilter",
                           !.new = CopyAzureOperatorVersionLabelFromAzureClusterCR(o),
                           !.copied = IF o.operator = NoOperator THEN @ \cup {"operator"}
                                                                 ELSE @]]
    /\ Unaffected

ValidateFilter(r) ==
    /\ reqs[r].step = "validateFilter"
    /\ Advance(r, "validateFilter", IF Legacy(reqs[r].new) THEN "validate" ELSE "write")

ChecksPass(q) ==
    CASE q.kind = "AzureMachinePool" /\ q.old = Absent -> PoolOnCreateValidate(q.new)
      [] q.kind = "AzureMachinePool" /\ q.old # Absent -> PoolUpdateChecks(q.old, q.new)
      [] q.kind = "MachinePool" /\ q.old = Absent -> MachineOnCreateValidate(q.new)
      [] q.kind = "MachinePool" /\ q.old # Absent -> MachineUpdateChecks(q.old, q.new)

\* An update of an object that is being deleted is let through, and so is
\* one of an AzureMachinePool with a Cluster API release.
LetThrough(q) ==
    /\ q.old # Absent
    /\ q.new.deleting \/ (q.kind = "AzureMachinePool" /\ IsCAPIRelease(q.new))

\* OnCreateValidate and OnUpdateValidate of either kind.
OnValidate(r) ==
    /\ reqs[r].step = "validate"
    /\ \/ LetThrough(reqs[r]) /\ Advance(r, "validate", "write")
       \/ /\ ~LetThrough(reqs[r]) /\ ChecksPass(reqs[r])
          /\ reqs' = [reqs EXCEPT ![r] = [reqs[r] EXCEPT !.step = "write", !.checked = TRUE]]
          /\ Unaffected
       \/ ~LetThrough(reqs[r]) /\ ~ChecksPass(reqs[r]) /\ Deny(r, "validate")

\* A read, a question about a VM type, or a check that is not modelled fails.
Refuse(r) ==
    \E s \in {"mutateFilter", "ensure", "operator", "validateFilter", "validate"} : Deny(r, s)

-----------------------------------------------------------------------------
\* Requests for the object that were submitted before it changed.
Outdated(k) ==
    [q \in Requests |-> IF reqs[q] \notin {Idle, Done} /\ reqs[q].kind = k
                        THEN [reqs[q] EXCEPT !.stale = TRUE] ELSE reqs[q]]

Stored(k, o) ==
    /\ store' = [store EXCEPT ![k] = o]
    /\ vmHistory' = IF k = "AzureMachinePool" /\ o # Absent THEN vmHistory \cup {o.vmSize}
                                                            ELSE vmHistory

Write(r) ==
    /\ reqs[r].step = "write"
    /\ ~reqs[r].stale
    /\ Stored(reqs[r].kind, reqs[r].new)
    /\ reqs' = [Outdated(reqs[r].kind) EXCEPT ![r] = Done]
    /\ unchecked' = IF reqs[r].checked THEN unchecked ELSE unchecked \cup {reqs[r].kind}
    /\ unmutated' = IF reqs[r].kind = "MachinePool" THEN ~reqs[r].mutated ELSE unmutated
    /\ UNCHANGED clusterVars

\* The object was changed, created or removed in the meantime.
Conflict(r) == reqs[r].step = "write" /\ reqs[r].stale /\ Deny(r, "write")

\* A DELETE request, for which no webhook is called, and the removal of the
\* object once its finalizers are gone.
Delete(k) ==
    /\ store[k] # Absent
    /\ Stored(k, IF store[k].deleting THEN Absent ELSE [store[k] EXCEPT !.deleting = TRUE])
    /\ reqs' = Outdated(k)
    /\ UNCHANGED <<clusterVars, unchecked, unmutated>>

\* The Cluster is upgraded.
UpgradeCluster(v) ==
    /\ Path!UpgradeCluster(v)
    /\ UNCHANGED <<azureOperator, store, reqs, azureHistory, vmHistory, unchecked, unmutated>>

\* Its AzureCluster follows, or stays at its release.  The operator label is
\* what the client sent or what the mutator put in its place: it need not fit
\* the release (OperatorsMatchRelease of ClusterUpgrade).
UpdateAzureCluster(v, operator) ==
    /\ Cardinality(azureHistory \cup {[release |-> v, operator |-> operator]}) <= MaxLabels
    /\ IF v = azureRelease THEN UNCHANGED <<clusterRelease, azureRelease, clusterHistory>>
                            ELSE Path!UpgradeAzureCluster(v)
    /\ azureOperator' = operator
    /\ azureHistory' = azureHistory \cup {[release |-> v, operator |-> operator]}
    /\ UNCHANGED <<store, reqs, vmHistory, unchecked, unmutated>>

HandleRequest(r) ==
    \/ MutateFilter(r) \/ Ensure(r) \/ EnsureUpdate(r) \/ CopyOperatorLabel(r)
    \/ ValidateFilter(r) \/ OnValidate(r) \/ Refuse(r) \/ Write(r) \/ Conflict(r)

Next ==
    \/ \E r \in Requests :
          \/ \E p \in PoolProposals : Submit(r, "AzureMachinePool", p, FALSE)
          \/ \E m \in MachineProposals : Submit(r, "MachinePool", m, FALSE)
          \/ \E n \in Counts : n >= 0 /\ Scale(r, n)
          \/ HandleRequest(r)
    \/ \E k \in Kinds : Delete(k)
    \/ \E v \in LegacyReleases :
          UpgradeCluster(v) \/ \E operator \in Operators : UpdateAzureCluster(v, operator)

Spec == Init /\ [][Next]_vars

-----------------------------------------------------------------------------
(* As long as every write of it was validated, the node pool fits the VM
   type it has, whatever sequence of updates led there: the type is big
   enough, supports premium storage if the OS disk uses it, and accelerated
   networking if that is enabled.  The update handler never checks the
   storage account type again; it relies on comparing the two VM types.    *)
HardwareFits ==
    LET p == store["AzureMachinePool"]
    IN  ("AzureMachinePool" \notin unchecked /\ p # Absent)
        => /\ p.location = Home
           /\ checkInstanceTypeIsValid(p)
           /\ checkStorageAccountTypeIsValid(p)
           /\ checkAcceleratedNetworking(p)
           /\ p.dataDisks = "desired" /\ ~p.sshKey

(* A node pool that takes both labels from the AzureCluster gets an operator
   label that the AzureCluster carried at the release of the node pool or a
   later one, never one of before: the AzureCluster is read twice, first for
   the release, and may be upgraded or labelled anew in between.           *)
OperatorNotOlderThanRelease ==
    \A r \in Requests :
        (reqs[r] \notin {Idle, Done} /\ reqs[r].copied = {"release", "operator"})
        => \E w \in azureHistory :
              reqs[r].new.release <= w.release /\ reqs[r].new.operator = w.operator

(* The availability zones of a MachinePool whose writes are validated are
   supported by a VM type that its AzureMachinePool has or had, although the
   AzureMachinePool may change, or be replaced, before the write.          *)
ZonesWereSupported ==
    LET m == store["MachinePool"]
    IN  ("MachinePool" \notin unchecked /\ m # Absent /\ "AzureMachinePool" \notin unchecked)
        => \E t \in vmHistory : m.failureDomains \subseteq Sku[Home][t].zones

(* The autoscaling annotations of a MachinePool whose last write was mutated
   are numbers that make a range, not below zero unless the replicas are,
   whatever annotations and replicas clients sent: the two annotations are
   patched one after the other from the object without patches, and the
   maximum is completed from a minimum that is itself completed.           *)
ScalingRangeValid ==
    LET m == store["MachinePool"]
    IN  (m # Absent /\ ~unmutated)
        => /\ m.replicas # Unset /\ IsNumber(m.min) /\ IsNumber(m.max)
           /\ m.min <= m.max
           /\ m.replicas >= 0 => m.min >= 0

(* Once a MachinePool has a range, a change of its replicas by the cluster
   autoscaler never moves it: what the webhook fills in is what it later
   accepts, a minimum of zero and replicas outside the range included.     *)
ScalingKeepsRange ==
    [][LET m == store["MachinePool"]
           n == store'["MachinePool"]
       IN  (/\ Absent \notin {m, n}
            /\ IsNumber(m.min) /\ IsNumber(m.max) /\ 0 <= m.min /\ m.min <= m.max
            /\ \E r \in Requests : reqs[r].step = "write" /\ reqs[r].scales /\ Write(r))
           => n.min = m.min /\ n.max = m.max]_vars

(* Over the life of a validated AzureMachinePool nothing changes that Azure
   cannot change in a scale set: its location, OS disk storage, spot options
   and accelerated networking.                                             *)
FixedForLife ==
    [][LET p == store["AzureMachinePool"]
           n == store'["AzureMachinePool"]
       IN  ("AzureMachinePool" \notin unchecked' /\ Absent \notin {p, n})
           => /\ n.location = p.location /\ n.storage = p.storage
              /\ n.spot = p.spot /\ n.accelerated = p.accelerated
              /\ n.organization = Owner]_vars

-----------------------------------------------------------------------------
(* What the repository says. *)

(* CHANGELOG.md: "Ensure failureDomains in MachinePool are supported by the
   AzureMachinePool VM type in the current location."  The VM type can be
   changed by an update of the AzureMachinePool, which does not look at the
   MachinePool.                                                            *)
ZonesAreSupported ==
    LET p == store["AzureMachinePool"]
        m == store["MachinePool"]
    IN  (unchecked = {} /\ Absent \notin {p, m} /\ ~p.deleting /\ ~m.deleting)
        => m.failureDomains \subseteq Sku[Home][p.vmSize].zones

-----------------------------------------------------------------------------
(* The inductive invariant behind the invariants and action properties above. *)

\* The AzureCluster follows the Cluster, and both only go up.
UpwardsOnly ==
    /\ AzureLabels \in azureHistory
    /\ \A w \in azureHistory : w.release <= azureRelease /\ w.release \in clusterHistory
    /\ \A w \in clusterHistory : w <= clusterRelease

\* What validation keeps of an AzureMachinePool.
Fits(p) ==
    /\ p.organization = Owner
    /\ p.location = Home
    /\ checkInstanceTypeIsValid(p)
    /\ checkStorageAccountTypeIsValid(p)
    /\ checkAcceleratedNetworking(p)
    /\ p.dataDisks = "desired" /\ ~p.sshKey

PoolInv ==
    LET p == store["AzureMachinePool"]
    IN  p # Absent => /\ p.vmSize \in vmHistory
                      /\ "AzureMachinePool" \notin unchecked => Fits(p)

\* The zones are supported by a VM type that the AzureMachinePool had.
WereSupported(zones) ==
    "AzureMachinePool" \in unchecked \/ \E t \in vmHistory : zones \subseteq Sku[Home][t].zones

HasRange(m) ==
    /\ m.replicas # Unset /\ IsNumber(m.min) /\ IsNumber(m.max)
    /\ m.min <= m.max
    /\ m.replicas >= 0 => m.min >= 0

MachineInv ==
    LET m == store["MachinePool"]
    IN  m # Absent => /\ "MachinePool" \notin unchecked => WereSupported(m.failureDomains)
                      /\ ~unmutated => HasRange(m)

\* What the checks of a request have found, which lasts until it is written.
Passed(q) ==
    IF q.kind = "AzureMachinePool"
    THEN IF q.old = Absent THEN Fits(q.new) ELSE PoolUpdateChecks(q.old, q.new)
    ELSE IF q.old = Absent THEN WereSupported(q.new.failureDomains)
                           ELSE q.old.failureDomains = q.new.failureDomains

\* A range that ensureAutoscalingAnnotations leaves alone.
KeptRange(m) == IsNumber(m.min) /\ IsNumber(m.max) /\ 0 <= m.min /\ m.min <= m.max

RequestOK(q) ==
    /\ ~q.stale => q.old = store[q.kind]
    /\ q.checked => q.step = "write" /\ Passed(q)
    /\ "release" \in q.copied => \E w \in azureHistory : q.new.release = w.release
    /\ q.copied = {"release", "operator"}
       => \E w \in azureHistory : q.new.release <= w.release /\ q.new.operator = w.operator
    /\ (q.mutated /\ q.kind = "MachinePool") => HasRange(q.new)
    /\ q.scales => /\ q.kind = "MachinePool" /\ q.old # Absent
                   /\ KeptRange(q.old) => q.new.min = q.old.min /\ q.new.max = q.old.max

RequestInv == \A r \in Requests : reqs[r] \notin {Idle, Done} => RequestOK(reqs[r])

IInv == TypeOK /\ UpwardsOnly /\ PoolInv /\ MachineInv /\ RequestInv
=============================================================================
