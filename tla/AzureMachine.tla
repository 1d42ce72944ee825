---------------------------- MODULE AzureMachine ----------------------------
(***************************************************************************)
(* pkg/azuremachine: the AzureMachine of a master node, created and        *)
(* updated through the admission controller while Release CRs are edited,  *)
(* the cluster is upgraded and the informer cache lags behind.             *)
(*                                                                         *)
(* A request is admitted in three steps, the mutating call, the validating *)
(* call and the write; each call filters first and reads the cluster, the  *)
(* Release CRs and the Organizations as they are at that moment.  Failing  *)
(* reads, and checks of data that is not here, can only deny a request:    *)
(* that is Refuse.  A request whose object was written after it read it    *)
(* ends in a conflict whatever the webhooks answer, and is dropped with    *)
(* that write: the old object of a request is the stored one.              *)
(***************************************************************************)
EXTENDS ReleaseCatalog, Normalize

CONSTANTS
    Requests,        \* the requests that are under way at the same time
    Operator,        \* the azure-operator of each release
    NoOperator,      \* none, or no operator label
    NoRelease,       \* no release label
    NoLabel,         \* no organization label
    Organizations,   \* names of the Organization CRs
    VMTypes,
    Home,            \* the location of the installation
    Elsewhere,       \* another location
    SupportedAZs,    \* the zones of each VM type that Azure offers in Home
    Nil,             \* the nil pointer
    Fields,          \* fields that the validation of CAPZ finds fault with
    Absent,          \* the AzureMachine does not exist
    NewMachines,     \* the AzureMachines clients create
    Edits            \* what clients want to turn an AzureMachine into

Operators == {Operator[v] : v \in Versions} \cup {NoOperator}

OSDiskCachingType == "ReadWrite"

SSHField == "sshPublicKey"

AZs == UNION {SupportedAZs[t] : t \in DOMAIN SupportedAZs}

\* o is an AzureMachine: a predicate, as there are many label values.
IsMachine(o) ==
    /\ o.organization = NoLabel \/ IsLabelValue(o.organization)
    /\ o \in [organization  : {o.organization},
              release       : Versions \cup {NoRelease},
              operator      : Operators,
              sshKey        : BOOLEAN,
              location      : {"", Home, Elsewhere},
              failureDomain : AZs \cup {Nil, ""},
              vmSize        : VMTypes,
              caching       : {"", OSDiskCachingType, "None"},
              defects       : SUBSET Fields,
              deleting      : BOOLEAN]

ASSUME AzureMachineAssumption ==
    /\ Operator \in [Versions -> Operators]
    /\ NoRelease \notin Versions
    /\ DOMAIN SupportedAZs \subseteq VMTypes
    /\ SSHField \notin Fields
    /\ \A o \in NewMachines \cup Edits : IsMachine(o)
    \* The API server clears the deletion timestamp of a new object.
    /\ \A o \in NewMachines : ~o.deleting

VARIABLES
    machine,       \* the stored AzureMachine
    reqs,          \* the requests
    owner,         \* the release of the Cluster
    azureOperator, \* the operator label of the AzureCluster
    cached,        \* the releases the informer cache holds
    \* history variables, read by the properties only
    birth,         \* the AzureMachine as it was created, while all is validated
    unchecked,     \* some write of it was not validated, or it is being deleted
    unmutated,     \* the last write of it was not mutated
    everIgnored    \* releases that ever carried the ignore annotation

historyVars == <<birth, unchecked, unmutated, everIgnored>>
vars == <<releases, moves, machine, reqs, owner, azureOperator, cached,
          birth, unchecked, unmutated, everIgnored>>

Idle == [step |-> "idle"]

InFlight(r) == reqs[r] # Idle

IsRequest(q) ==
    /\ q \in [step : {"mutate", "validate", "write"}, new : {q.new},
              mutated : BOOLEAN, checked : BOOLEAN]
    /\ IsMachine(q.new)

TypeOK ==
    /\ CatalogTypeOK
    /\ \A o \in {machine, birth} : o = Absent \/ IsMachine(o)
    /\ DOMAIN reqs = Requests
    /\ \A r \in Requests : InFlight(r) => IsRequest(reqs[r])
    /\ owner \in Versions
    /\ azureOperator \in Operators
    /\ cached \subseteq Versions
    /\ everIgnored \subseteq Versions
    /\ unchecked \in BOOLEAN /\ unmutated \in BOOLEAN

Init ==
    /\ CatalogInit
    /\ machine = Absent /\ birth = Absent
    /\ reqs = [r \in Requests |-> Idle]
    /\ owner \in Published
    /\ azureOperator = Operator[owner]
    /\ cached = Published
    /\ unchecked = FALSE /\ unmutated = FALSE
    /\ everIgnored = {}

-----------------------------------------------------------------------------
(* pkg/filter, pkg/mutator *)

ReleaseForObject(o) == IF o.release # NoRelease THEN o.release ELSE owner

IsObjectReconciledByLegacyRelease(o) ==
    /\ ReleaseForObject(o) \in cached
    /\ Operator[ReleaseForObject(o)] # NoOperator

\* Fault: the patch has the path of the caching type.
FaultyEnsureLocation(o) == IF o.location = "" THEN [o EXCEPT !.caching = Home] ELSE o

ensureLocation(o) == IF o.location = "" THEN [o EXCEPT !.location = Home] ELSE o

ensureOSDiskCachingType(o) ==
    IF o.caching = "" THEN [o EXCEPT !.caching = OSDiskCachingType] ELSE o

\* The operator label of the AzureCluster is copied if there is none.
CanCopyOperatorLabel(o) == o.operator = NoOperator => azureOperator # NoOperator

CopyAzureOperatorVersionLabelFromAzureClusterCR(o) ==
    IF o.operator = NoOperator THEN [o EXCEPT !.operator = azureOperator] ELSE o

\* OnCreateMutate.  Default would also fill in an SSH key, and its patch for
\* that is skipped.
MutatedForCreate(o) ==
    CopyAzureOperatorVersionLabelFromAzureClusterCR(
        ensureOSDiskCachingType(ensureLocation(o)))

\* OnUpdateMutate
MutatedForUpdate(o) == ensureOSDiskCachingType(o)

-----------------------------------------------------------------------------
(* The validators *)

\* What ValidateCreate and ValidateUpdate of CAPZ object to: an SSH key that
\* is no key, such as an empty one, and the defects of the object.
CapzErrors(o) == o.defects \cup (IF o.sshKey THEN {} ELSE {SSHField})

\* Fault: one ignored error makes the whole answer ignored.
FaultyIgnoreCAPIErrorForField(field, causes) == IF field \in causes THEN {} ELSE causes

\* The fields that are left; no error when there are none.
IgnoreCAPIErrorForField(field, causes) == causes \ {field}

CapzAccepts(o) == IgnoreCAPIErrorForField(SSHField, CapzErrors(o)) = {}

ValidateOrganizationLabelContainsExistingOrganization(o) ==
    o.organization # NoLabel /\ AsDNSLabelName(o.organization) \in Organizations

ValidateOrganizationLabelUnchanged(old, new) ==
    NoLabel \notin {old.organization, new.organization} /\ old.organization = new.organization

checkSSHKeyIsEmpty(o) == ~o.sshKey

validateLocation(o) == o.location = Home

\* SupportedAZs answers with an error for a type that is not offered.
validateFailureDomain(o) ==
    /\ o.vmSize \in DOMAIN SupportedAZs
    /\ o.failureDomain \in SupportedAZs[o.vmSize] \cup {Nil, ""}

\* Fault: a failure domain may be set where there was none.
FaultyFailureDomainUnchanged(old, new) ==
    old.failureDomain \in {Nil, ""} \/ old.failureDomain = new.failureDomain

validateFailureDomainUnchanged(old, new) ==
    \/ {old.failureDomain, new.failureDomain} \subseteq {Nil, ""}
    \/ old.failureDomain = new.failureDomain

OnCreateValidate(o) ==
    /\ CapzAccepts(o)
    /\ ValidateOrganizationLabelContainsExistingOrganization(o)
    /\ checkSSHKeyIsEmpty(o)
    /\ validateLocation(o)
    /\ validateFailureDomain(o)

\* Fault: a machine without a release label is taken to be on any release.
FaultyOnUpdateValidate(old, new) ==
    \/ new.deleting
    \/ /\ CapzAccepts(new) /\ checkSSHKeyIsEmpty(new)
       /\ ValidateOrganizationLabelUnchanged(old, new)
       /\ old.location = new.location
       /\ validateFailureDomainUnchanged(old, new)
       /\ NoRelease \notin {old.release, new.release}
          => Validate(releases, old.release, new.release)

OnUpdateValidate(old, new) ==
    \/ new.deleting
    \/ /\ CapzAccepts(new) /\ checkSSHKeyIsEmpty(new)
       /\ ValidateOrganizationLabelUnchanged(old, new)
       /\ old.location = new.location
       /\ validateFailureDomainUnchanged(old, new)
       /\ NoRelease \notin {old.release, new.release}
       /\ Validate(releases, old.release, new.release)

-----------------------------------------------------------------------------
\* The API server reads the stored object, if there is one; an update keeps
\* the deletion timestamp.
Submit(r, o) ==
    /\ reqs[r] = Idle
    /\ o \in (IF machine = Absent THEN NewMachines ELSE Edits)
    /\ reqs' = [reqs EXCEPT ![r] =
                   [step |-> "mutate", mutated |-> FALSE, checked |-> FALSE,
                    new |-> IF machine = Absent THEN o
                            ELSE [o EXCEPT !.deleting = machine.deleting]]]
    /\ UNCHANGED <<releases, moves, machine, owner, azureOperator, cached, historyVars>>

RequestMoves(r, q) ==
    /\ reqs' = [reqs EXCEPT ![r] = q]
    /\ UNCHANGED <<releases, moves, machine, owner, azureOperator, cached, historyVars>>

Mutate(r) ==
    LET q == reqs[r]
    IN  /\ q.step = "mutate"
        /\ \/ /\ ~IsObjectReconciledByLegacyRelease(q.new)
              /\ RequestMoves(r, [q EXCEPT !.step = "validate"])
           \/ /\ IsObjectReconciledByLegacyRelease(q.new)
              /\ machine = Absent => CanCopyOperatorLabel(q.new)
              /\ RequestMoves(r, [q EXCEPT !.step = "validate", !.mutated = TRUE,
                                           !.new = IF machine = Absent
                                                   THEN MutatedForCreate(@)
                                                   ELSE MutatedForUpdate(@)])

Accepts(q) ==
    IF machine = Absent THEN OnCreateValidate(q.new) ELSE OnUpdateValidate(machine, q.new)

ValidateRequest(r) ==
    LET q == reqs[r]
    IN  /\ q.step = "validate"
        /\ \/ /\ ~IsObjectReconciledByLegacyRelease(q.new)
              /\ RequestMoves(r, [q EXCEPT !.step = "write"])
           \/ /\ IsObjectReconciledByLegacyRelease(q.new)
              /\ Accepts(q)
              /\ RequestMoves(r, [q EXCEPT !.step = "write", !.checked = TRUE])

\* The request is denied, by a check or because a read fails.
Refuse(r) == InFlight(r) /\ RequestMoves(r, Idle)

\* The requests that have read the object end in a conflict.
Conflicts == reqs' = [r \in Requests |-> Idle]

Write(r) ==
    LET q == reqs[r]
    IN  /\ q.step = "write"
        /\ machine' = q.new
        /\ unchecked' = (~q.checked \/ (machine # Absent /\ unchecked))
        /\ birth' = IF unchecked' THEN Absent ELSE IF machine = Absent THEN q.new ELSE birth
        /\ unmutated' = ~q.mutated
        /\ Conflicts
        /\ UNCHANGED <<releases, moves, owner, azureOperator, cached, everIgnored>>

\* A DELETE request, which no webhook sees, and the removal once every
\* finalizer is done.
Delete ==
    /\ machine # Absent
    /\ \/ /\ ~machine.deleting
          /\ machine' = [machine EXCEPT !.deleting = TRUE]
          /\ unchecked' = TRUE
       \/ /\ machine.deleting
          /\ machine' = Absent
          /\ unchecked' = FALSE
    /\ birth' = Absent
    /\ unmutated' = FALSE
    /\ Conflicts
    /\ UNCHANGED <<releases, moves, owner, azureOperator, cached, everIgnored>>

UpgradeOwner(v) ==
    /\ v # owner
    /\ CountMove
    /\ Validate(releases, owner, v)
    /\ owner' = v
    /\ UNCHANGED <<releases, machine, reqs, azureOperator, cached, historyVars>>

\* An update of the AzureCluster: its operator label need not fit its release,
\* or that of the Cluster (OperatorsMatchRelease of ClusterUpgrade).
UpdateAzureCluster(operator) ==
    /\ operator # azureOperator
    /\ CountMove
    /\ azureOperator' = operator
    /\ UNCHANGED <<releases, machine, reqs, owner, cached, historyVars>>

EditReleases ==
    /\ CatalogNext
    /\ everIgnored' = everIgnored \cup releases'.ignored
    /\ UNCHANGED <<machine, reqs, owner, azureOperator, cached, birth, unchecked, unmutated>>

SyncCache ==
    /\ cached # releases.names
    /\ cached' = releases.names
    /\ UNCHANGED <<releases, moves, machine, reqs, owner, azureOperator, historyVars>>

Next ==
    \/ \E r \in Requests : \/ \E o \in NewMachines \cup Edits : Submit(r, o)
                           \/ Mutate(r) \/ ValidateRequest(r) \/ Write(r) \/ Refuse(r)
    \/ \E v \in Versions : UpgradeOwner(v)
    \/ \E operator \in Operators : UpdateAzureCluster(operator)
    \/ Delete
    \/ EditReleases
    \/ SyncCache

Spec == Init /\ [][Next]_vars

-----------------------------------------------------------------------------
(* The name that AsDNSLabelName makes of an organization label which the API
   server lets through is a DNS label with the letters of the label: the
   lookup of the Organization never asks for a name that cannot exist.     *)
NamesAreLabels ==
    \A r \in Requests :
        (InFlight(r) /\ reqs[r].new.organization \notin {NoLabel, <<>>})
        => NamedWell(reqs[r].new.organization)

\* No zone may be written in two ways.
Zone(o) == IF o.failureDomain = Nil THEN "" ELSE o.failureDomain

(* A machine that is not being deleted and whose writes were all validated
   is what its creation was checked for: it is in the location of the
   installation and in the same zone, which its first VM type supports,
   belongs to the same organization, and CAPZ has nothing against it but the
   SSH key that is missing; and none of its updates came without a caching
   type, whatever the clients sent.                                        *)
PlacedForLife ==
    (machine # Absent /\ ~unchecked) =>
        /\ Zone(machine) = Zone(birth)
        /\ Zone(birth) \in SupportedAZs[birth.vmSize] \cup {""}
        /\ machine.location = Home
        /\ machine.organization = birth.organization
        /\ AsDNSLabelName(machine.organization) \in Organizations
        /\ CapzErrors(machine) = {SSHField}
        /\ ~unmutated => machine.caching # ""

(* As long as it is validated, a machine moves to an older release only over
   a release that was ever ignored, and it has a release label from its
   creation on or never: OnCreateMutate fills in none, and OnUpdateValidate
   refuses every update of a machine without one, the one that would add it
   included.                                                               *)
ReleaseLabelForLife ==
    [][(/\ machine # Absent /\ machine' # Absent
        /\ ~unchecked /\ ~unchecked')
       => \/ machine' = machine
          \/ /\ NoRelease \notin {machine.release, machine'.release}
             /\ \/ ~LT(machine'.release, machine.release)
                \/ {machine.release, machine'.release} \cap everIgnored # {}]_vars

-----------------------------------------------------------------------------
(* The invariant that makes the properties inductive, proved in
   AzureMachineProofs.                                                     *)

\* From release to release without a step back, but for ignored releases.
Forward(old, new) == ~LT(new, old) \/ {old, new} \cap everIgnored # {}

\* What OnUpdateValidate has seen of an update, whatever happens later to the
\* Release CRs it has read.
MayFollow(old, new) ==
    /\ CapzErrors(new) = {SSHField}
    /\ old.organization = new.organization
    /\ old.location = new.location
    /\ Zone(old) = Zone(new)
    /\ NoRelease \notin {old.release, new.release}
    /\ Forward(old.release, new.release)

\* A request agrees with the stored object on the deletion timestamp, and with
\* the webhooks it has passed.
RequestOK(q) ==
    /\ q.mutated => q.new.caching # ""
    /\ q.new.deleting <=> (machine # Absent /\ machine.deleting)
    /\ q.checked => /\ q.step = "write"
                    /\ IF machine = Absent THEN OnCreateValidate(q.new)
                                           ELSE q.new.deleting \/ MayFollow(machine, q.new)

RequestInv == \A r \in Requests : InFlight(r) => RequestOK(reqs[r])

\* The deletion is a write that no webhook has validated.
DeletionInv == (machine # Absent /\ ~unchecked) => ~machine.deleting

IgnoredInv == releases.ignored \subseteq everIgnored

IInv == TypeOK /\ IgnoredInv /\ DeletionInv /\ PlacedForLife /\ RequestInv
=============================================================================
