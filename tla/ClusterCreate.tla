---------------------------- MODULE ClusterCreate ----------------------------
(***************************************************************************)
(* The creation of a workload cluster's AzureCluster and Cluster, in       *)
(* either order, through the admission controller: OnCreateMutate and      *)
(* OnCreateValidate of pkg/azurecluster and pkg/cluster behind the handler *)
(* factories of pkg/mutator and pkg/validator, while Release CRs and       *)
(* Organizations come and go and either object may be deleted and created  *)
(* again.  What happens to the two afterwards is ClusterUpgrade.           *)
(*                                                                         *)
(*   mutateFilter -> mutate -> validateFilter -> validate -> write -> done *)
(*                                                                         *)
(* A text that has one right value for this cluster is empty, right or     *)
(* another one.  Decoding, the CAPI and CAPZ validation, the schedule time *)
(* and failing reads can only deny: that is Refuse.                        *)
(***************************************************************************)
EXTENDS ReleaseCatalog

CONSTANTS
    Requests,        \* the create requests, each made at most once
    Labels,          \* values of the operator version label
    NoLabel,         \* the empty label value, or a component that is missing
    NoRelease,       \* no release label, or no scheduled target
    Operator,        \* the azure-operator in each release
    Organizations,   \* names of Organization CRs
    OrgLabels,       \* values of the organization label
    AsDNSLabelName,  \* the name of an Organization CR for each of them
    Absent,          \* the object does not exist
    Proposals        \* what clients propose, per kind

Kinds == {"Cluster", "AzureCluster"}

Text == {"", "right", "other"}

Object == [release      : Versions \cup {NoRelease},
           azureOp      : Labels,
           organization : OrgLabels,
           host         : Text,      \* spec.controlPlaneEndpoint
           port         : Text,
           network      : {"nil", "noPort", "right", "other"},  \* of a Cluster
           target       : Versions \cup {NoRelease},            \* of a Cluster
           location     : Text,      \* of an AzureCluster
           apiServerLB  : Text]      \* of an AzureCluster

ASSUME CreateAssumption ==
    /\ NoRelease \notin Versions
    /\ NoLabel \in Labels
    /\ Operator \in [Versions -> Labels]
    /\ AsDNSLabelName \in [OrgLabels -> Organizations]
    /\ Absent \notin Object
    /\ Proposals \in [Kinds -> SUBSET Object]

Steps == {"mutateFilter", "mutate", "validateFilter", "validate", "write"}

VARIABLES
    store,        \* the two objects
    reqs,         \* the create requests
    cached,       \* the releases the informer cache holds
    orgs,         \* the Organization CRs
    \* history variables, read by the properties only
    azurePast,    \* every AzureCluster ever stored
    bypassed,     \* kinds with a write that was not mutated
    copied        \* the stored Cluster's operator label is a copy

vars == <<releases, moves, store, reqs, cached, orgs, azurePast, bypassed, copied>>
historyVars == <<azurePast, bypassed, copied>>

Request == [step : Steps, kind : Kinds, sent : Object, new : Object, mutated : BOOLEAN]

Idle == [step |-> "idle"]
Done == [step |-> "done"]

\* Nothing is left open that the mutators of either kind provide.
Ensured(q) ==
    /\ q.new.host # "" /\ q.new.port # "" /\ q.new.azureOp # NoLabel
    /\ q.kind = "Cluster" => q.new.network # "nil"
    /\ q.kind = "AzureCluster" => q.new.location # "" /\ q.new.apiServerLB # ""

TypeOK ==
    /\ CatalogTypeOK
    /\ store \in [Kinds -> Object \cup {Absent}]
    /\ DOMAIN reqs = Requests
    /\ \A r \in Requests :
          \/ reqs[r] \in {Idle, Done}
          \/ reqs[r] \in Request /\ (reqs[r].mutated => Ensured(reqs[r]))
    /\ cached \subseteq Versions
    /\ orgs \subseteq Organizations
    /\ azurePast \subseteq Object
    /\ bypassed \subseteq Kinds
    /\ copied \in BOOLEAN

Init ==
    /\ CatalogInit
    /\ store = [k \in Kinds |-> Absent]
    /\ reqs = [r \in Requests |-> Idle]
    /\ cached = Published
    /\ orgs \in SUBSET Organizations
    /\ azurePast = {} /\ bypassed = {} /\ copied = FALSE

-----------------------------------------------------------------------------
(* pkg/filter and pkg/release: the release of the object, or else of the
   Cluster if there is one.                                                *)
ReleaseForObject(o) ==
    CASE o.release # NoRelease -> o.release
      [] o.release = NoRelease /\ store["Cluster"] # Absent -> store["Cluster"].release
      [] OTHER -> NoRelease

IsObjectReconciledByLegacyRelease(o) ==
    LET v == ReleaseForObject(o)
    IN  v # NoRelease /\ v \in cached /\ Operator[v] # NoLabel

-----------------------------------------------------------------------------
(* OnCreateMutate *)

Default(text) == IF text = "" THEN "right" ELSE text

\* The patch replaces whatever load balancer the client has sent.
ensureAPIServerLB(o) == [o EXCEPT !.apiServerLB = "right"]

\* EnsureComponentVersionLabelFromRelease, for the azure-operator.
CanEnsureComponentVersionLabel(o) ==
    o.release # NoRelease /\ o.release \in cached /\ Operator[o.release] # NoLabel

\* Fault: a label that the client has set is kept.
FaultyAzureClusterMutated(o) ==
    [ensureAPIServerLB(o) EXCEPT
        !.host = Default(@), !.port = Default(@), !.location = Default(@),
        !.azureOp = IF @ = NoLabel THEN Operator[o.release] ELSE @]

AzureClusterMutated(o) ==
    [ensureAPIServerLB(o) EXCEPT
        !.host = Default(@), !.port = Default(@), !.location = Default(@),
        !.azureOp = Operator[o.release]]

\* AzureCluster.Default of CAPZ completes the object as it was sent, and its
\* patches come after those above: they may put a part of CAPZ's own load
\* balancer in the place of the right one, unless that was sent.
Defaulted(sent, patched) ==
    {patched} \cup {[patched EXCEPT !.apiServerLB = lb] :
                       lb \in IF sent.apiServerLB = "right" THEN {} ELSE {"other"}}

\* CopyAzureOperatorVersionLabelFromAzureClusterCR: an AzureCluster with the
\* label has to exist, unless the Cluster has it already.
CanCopyOperatorLabel(o) ==
    o.azureOp = NoLabel =>
        store["AzureCluster"] # Absent /\ store["AzureCluster"].azureOp # NoLabel

CopyOperatorLabel(o) ==
    IF o.azureOp = NoLabel THEN store["AzureCluster"].azureOp ELSE o.azureOp

ensureClusterNetwork(network) == IF network = "nil" THEN "right" ELSE network

\* Fault: the port is left to the operator.
FaultyClusterMutated(o) ==
    [o EXCEPT !.network = ensureClusterNetwork(@), !.host = Default(@),
              !.azureOp = CopyOperatorLabel(o)]

ClusterMutated(o) ==
    [o EXCEPT !.network = ensureClusterNetwork(@), !.host = Default(@), !.port = Default(@),
              !.azureOp = CopyOperatorLabel(o)]

-----------------------------------------------------------------------------
(* OnCreateValidate *)

ValidateOrganizationLabelContainsExistingOrganization(o) ==
    AsDNSLabelName[o.organization] \in orgs

validateControlPlaneEndpoint(o) == o.host = "right" /\ o.port = "right"

\* A network without a port makes the handler panic.
validateClusterNetwork(o) == o.network = "right"

validateLocation(o) == o.location = "right"

ValidateClusterAnnotationUpgradeRelease(o) ==
    o.target # NoRelease => /\ o.release # NoRelease
                            /\ Validate(releases, o.release, o.target)
                            /\ o.release # o.target

ClusterOnCreateValidate(o) ==
    /\ ValidateOrganizationLabelContainsExistingOrganization(o)
    /\ validateClusterNetwork(o)
    /\ validateControlPlaneEndpoint(o)
    /\ ValidateClusterAnnotationUpgradeRelease(o)

AzureClusterOnCreateValidate(o) ==
    /\ ValidateOrganizationLabelContainsExistingOrganization(o)
    /\ validateControlPlaneEndpoint(o)
    /\ validateLocation(o)

-----------------------------------------------------------------------------
Unaffected == UNCHANGED <<releases, moves, store, cached, orgs, historyVars>>

Submit(r, k, o) ==
    /\ reqs[r] = Idle
    /\ reqs' = [reqs EXCEPT ![r] = [step |-> "mutateFilter", kind |-> k,
                                    sent |-> o, new |-> o, mutated |-> FALSE]]
    /\ Unaffected

Advance(r, from, to) ==
    /\ reqs[r].step = from
    /\ reqs' = [reqs EXCEPT ![r].step = to]
    /\ Unaffected

Deny(r, from) ==
    /\ reqs[r].step = from
    /\ reqs' = [reqs EXCEPT ![r] = Done]
    /\ Unaffected

MutateFilter(r) ==
    /\ reqs[r].step = "mutateFilter"
    /\ Advance(r, "mutateFilter",
               IF IsObjectReconciledByLegacyRelease(reqs[r].new) THEN "mutate"
                                                                 ELSE "validateFilter")

CanMutate(q) == IF q.kind = "Cluster" THEN CanCopyOperatorLabel(q.new)
                                      ELSE CanEnsureComponentVersionLabel(q.new)

Mutated(q) ==
    IF q.kind = "Cluster" THEN {ClusterMutated(q.new)}
                          ELSE Defaulted(q.new, AzureClusterMutated(q.new))

OnCreateMutate(r) ==
    /\ reqs[r].step = "mutate"
    /\ CanMutate(reqs[r])
    /\ \E new \in Mutated(reqs[r]) :
          reqs' = [reqs EXCEPT ![r] = [reqs[r] EXCEPT !.step = "validateFilter",
                                                      !.mutated = TRUE, !.new = new]]
    /\ Unaffected

OnCreateMutateFails(r) ==
    /\ reqs[r].step = "mutate"
    /\ ~CanMutate(reqs[r])
    /\ Deny(r, "mutate")

ValidateFilter(r) ==
    /\ reqs[r].step = "validateFilter"
    /\ Advance(r, "validateFilter",
               IF IsObjectReconciledByLegacyRelease(reqs[r].new) THEN "validate" ELSE "write")

ChecksPass(q) == IF q.kind = "Cluster" THEN ClusterOnCreateValidate(q.new)
                                       ELSE AzureClusterOnCreateValidate(q.new)

OnCreateValidate(r) ==
    /\ reqs[r].step = "validate"
    /\ \/ ChecksPass(reqs[r]) /\ Advance(r, "validate", "write")
       \/ ~ChecksPass(reqs[r]) /\ Deny(r, "validate")

\* A read, or a check that is not modelled, fails.
Refuse(r) ==
    \E s \in {"mutateFilter", "mutate", "validateFilter", "validate"} : Deny(r, s)

Write(r) ==
    LET q == reqs[r]
    IN  /\ q.step = "write"
        /\ store[q.kind] = Absent
        /\ store' = [store EXCEPT ![q.kind] = q.new]
        /\ reqs' = [reqs EXCEPT ![r] = Done]
        /\ azurePast' = IF q.kind = "AzureCluster" THEN azurePast \cup {q.new} ELSE azurePast
        /\ bypassed' = IF q.mutated THEN bypassed ELSE bypassed \cup {q.kind}
        /\ copied' = IF q.kind = "Cluster" THEN q.mutated /\ q.sent.azureOp = NoLabel
                                           ELSE copied
        /\ UNCHANGED <<releases, moves, cached, orgs>>

AlreadyExists(r) ==
    /\ reqs[r].step = "write"
    /\ store[reqs[r].kind] # Absent
    /\ Deny(r, "write")

\* The object is deleted and gone.
Delete(k) ==
    /\ store[k] # Absent
    /\ CountMove
    /\ store' = [store EXCEPT ![k] = Absent]
    /\ copied' = (copied /\ k # "Cluster")
    /\ UNCHANGED <<releases, reqs, cached, orgs, azurePast, bypassed>>

\* An Organization is created or deleted.
EditOrganization(org) ==
    /\ CountMove
    /\ orgs' = IF org \in orgs THEN orgs \ {org} ELSE orgs \cup {org}
    /\ UNCHANGED <<releases, store, reqs, cached, historyVars>>

EditReleases == CatalogNext /\ UNCHANGED <<store, reqs, cached, orgs, historyVars>>

\* The informer cache catches up with the Release CRs.
SyncCache ==
    /\ cached # releases.names
    /\ cached' = releases.names
    /\ UNCHANGED <<releases, moves, store, reqs, orgs, historyVars>>

HandleRequest(r) ==
    \/ MutateFilter(r) \/ OnCreateMutate(r) \/ OnCreateMutateFails(r) \/ ValidateFilter(r)
    \/ OnCreateValidate(r) \/ Refuse(r) \/ Write(r) \/ AlreadyExists(r)

Next ==
    \/ \E r \in Requests :
          \/ \E k \in Kinds : \E o \in Proposals[k] : Submit(r, k, o)
          \/ HandleRequest(r)
    \/ \E k \in Kinds : Delete(k)
    \/ \E org \in Organizations : EditOrganization(org)
    \/ EditReleases
    \/ SyncCache

Spec == Init /\ [][Next]_vars

-----------------------------------------------------------------------------
(* The operator label that a Cluster copied is one its AzureCluster had,
   although that may be deleted, and created again, before the Cluster is
   written.  If every AzureCluster so far was mutated and carried the release
   of the Cluster, then it is the operator of that release: nothing compares
   the two releases at creation, the Cluster only inherits what the mutator
   made of the AzureCluster.                                               *)
CopiedOperatorFitsRelease ==
    LET c == store["Cluster"]
    IN  copied =>
          /\ \E a \in azurePast : a.azureOp = c.azureOp
          /\ ("AzureCluster" \notin bypassed /\ \A a \in azurePast : a.release = c.release)
             => c.azureOp = Operator[c.release]

-----------------------------------------------------------------------------
(* The invariant that makes the properties inductive, proved in
   ClusterCreateProofs.                                                    *)

\* Every AzureCluster is remembered, and has the operator of its own release
\* if the mutator has seen all of them.
PastInv ==
    /\ store["AzureCluster"] \in azurePast \cup {Absent}
    /\ "AzureCluster" \notin bypassed => \A a \in azurePast : a.azureOp = Operator[a.release]

\* A label that was copied stems from an AzureCluster that was stored.
Stems(o) == \E a \in azurePast : a.azureOp = o.azureOp

CopyInv == copied => store["Cluster"] # Absent /\ Stems(store["Cluster"])

\* What a request carries, before and after its mutation.
RequestOK(q) ==
    /\ q.step \in {"mutateFilter", "mutate"} => ~q.mutated /\ q.new = q.sent
    /\ q.mutated =>
          /\ (q.kind = "Cluster" /\ q.sent.azureOp = NoLabel) => Stems(q.new)
          /\ q.kind = "AzureCluster" => q.new.azureOp = Operator[q.new.release]

RequestInv == \A r \in Requests : reqs[r] \in Request => RequestOK(reqs[r])

IInv == TypeOK /\ PastInv /\ CopyInv /\ RequestInv
=============================================================================
