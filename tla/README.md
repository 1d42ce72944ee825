# A TLA+ development for azure-admission-controller

The admission controller is a set of Kubernetes webhooks. The API server of a
management cluster calls it before it stores a custom resource that describes a
workload cluster on Azure: first the mutating webhooks, which answer with JSON
patches, then the validating ones, which allow or deny. The controller keeps
almost no state of its own. What makes it hard is that its decisions are made
on state that others change: the stored objects, the Release CRs, the informer
cache it reads them through, the status the operator reports, Azure's catalogue
of VM types, and a map shared by all requests.

## 1. Inventory

| Component (source) | State it keeps or reads | Operations | What makes it correct |
|---|---|---|---|
| Upgrade rules (`internal/releaseversion`, `internal/semverhelper`) | lists Release CRs, live | `Validate` | accepts what the upgrade policy allows, no more, no less; never strands a version |
| Cluster and AzureCluster updates (`pkg/cluster`, `pkg/azurecluster`) | the two CRs, the owner Cluster, Release CRs | `OnUpdateMutate`, `OnUpdateValidate` | the two objects move together, forward, line by line, with the operators of their release |
| Their creations (same packages) | AzureCluster, Release CRs | `OnCreateMutate`, `OnCreateValidate` | the operator label that a Cluster copies fits its release in every order of creation |
| Filter (`pkg/filter`, `pkg/release`) | Release CRs in an informer cache | `IsObjectReconciledByLegacyRelease` | the same answer for one request in both webhooks, no object of ours let through |
| HTTP handlers (`pkg/mutator`, `pkg/validator`) | none | one handler per operation and kind | a failure denies (failure policy `Fail`), the filter comes first |
| Conditions (`internal/conditions`) | status of a Cluster | `ValidateClusterConditions` | clients never undo what the operator reported of a creation |
| Scheduled upgrades (`internal/scheduledupgrades`) | annotations of a Cluster, Release CRs, clock | two checks | the target stays ahead of the release |
| SKU cache (`internal/vmcapabilities`) | map from location to VM types, a mutex | `CPUs`, `Memory`, `HasCapability`, `SupportedAZs` | answers are Azure's, nobody waits for ever |
| AzureMachinePool (`pkg/azuremachinepool`) | the CR, AzureCluster, SKU cache | create and update, mutate and validate | the hardware fits the VM type for life |
| MachinePool (`pkg/machinepool`) | the CR, its AzureMachinePool, AzureCluster | the same, autoscaling annotations | zones the VM type supports, a consistent range of replicas |
| AzureConfig, AzureClusterConfig (`pkg/azureupdate`) | the CRs, Release CRs | `OnUpdateValidate` | upgrade rules, the network stays |
| AzureMachine (`pkg/azuremachine`) | the CR, SKU cache, Release CRs | the same four | failure domain supported and fixed |
| Spark (`pkg/spark`) | the CR, AzureCluster | `OnCreateMutate` | release label |
| Organization names (`internal/normalize`, `pkg/generic`) | Organization and owner Cluster CRs | `AsDNSLabelName`, label checks | valid DNS label |
| JSON patches (`internal/patches`, `pkg/mutator/patch.go`) | none | `GenerateFromObjectDiff` | the patched object is the intended one |
| Start and wiring (`main.go`, `pkg/app`, the chart's `webhook.yaml`) | the process, its informer goroutine, the routes | start, register, listen, shut down | every configured webhook is served, the process comes back after every failure |
| Errors, keys (`internal/errors`, `pkg/key`) | none | `IgnoreCAPIErrorForField` | an ignored error hides no other |

How they interact. The API server reads the stored object, calls the mutating
webhook (filter, then `On...Mutate`), applies the patches, calls the validating
webhook (filter again, then `On...Validate`) and writes with optimistic
concurrency. The handlers call the libraries above directly and share only the
SKU cache. A handler makes several reads, of different objects or of the same
object twice, and each of them may see another state. There is no timer, no
queue and no retry in the controller; timeouts are the API server's:
it denies and ignores a late answer, while the handler runs on. The process is one replica:
it stops on SIGTERM, dies with its informer cache or of a fatal error, and is
started again by the kubelet.

The hard behaviours are listed as `hazards` in `PROJECT.json`, at their lines.

## 2. Modules

| Module | Models | Proofs |
|---|---|---|
| `ReleaseVersion` | `releaseversion.Validate` and its helpers as operators, with `Policy`, the upgrade rules stated independently in terms of release lines | `ReleaseVersionProofs` |
| `ReleaseCatalog` | the edits of Release CRs: publish, withdraw, deprecate, set and unset the ignore annotation, a CR with a name that is no version (environment) | `ReleaseVersionProofs` |
| `AzureUpdate` | one AzureConfig or AzureClusterConfig under concurrent updates, while Release CRs are edited | `AzureUpdateProofs` |
| `ClusterCreate` | concurrent creations of AzureCluster and Cluster, every step of their admission | `ClusterCreateProofs` |
| `ReleasePath` | what the updates of Cluster and AzureCluster promise about the two releases (abstract specification) | |
| `ClusterUpgrade` | concurrent updates of Cluster and AzureCluster, every step of their admission | `ClusterUpgradeProofs` |
| `SkuOracle` | what the SKU cache promises (abstract specification) | |
| `VMCapabilities` | `getSKU` and `initCache`, goroutines, mutex and the data race | `VMCapabilitiesProofs` |
| `NodePool` | AzureMachinePool and MachinePool of one node pool, created, updated and deleted while the cluster goes along `ReleasePath` | `NodePoolProofs` |
| `Normalize` | `AsDNSLabelName` on sequences of characters, with the rules for label values and DNS labels as reference | `AzureMachineProofs` |
| `AzureMachine` | one AzureMachine, created, updated, deleted and created again while Release CRs are edited and the cluster is upgraded | `AzureMachineProofs` |
| `Serving` | the process from start to end, its routes, and the calls of the API server from the request of a client to the write | `ServingProofs` |
| `MC...` | the small instances | |

### ReleaseVersion, ReleaseCatalog, AzureUpdate

A version is a record of major, minor, patch and one number for the pre-release
(0 is none, negative numbers are pre-releases in their order), so that `LT` is
semver's order. A listing of Release CRs has its names and the subsets that are
deprecated and ignored. `Validate` keeps the order of the code: equal versions,
failing listing, unknown release, ignored releases, downgrade, alpha, and the
loop over the remaining releases (`SkipsRelease`). `Policy` says the same with
lines, that is major and minor: do not go back, do not leave out an active line.
In `AzureUpdate` an update takes three steps: it is submitted and filtered, since
there is no mutating webhook for these kinds, then validated, which lists the Release
CRs, then written. Release CRs may be edited and other updates written in between;
a write makes the updates that read the object before it end in a conflict. The list
of zones is a function from zones to how often they occur, since the code sorts both
lists before it compares them. `networks` remembers every release the resource
had with the network it had then.

### ClusterCreate

Both kinds go through the steps of a create request. A text that has one right
value for the cluster (host, port, location, load balancer) is empty, right or
another one; a cluster network is missing, without a port, right or another one.
`AsDNSLabelName` is a parameter, any function from labels to names of
Organizations. Nothing in the code compares the releases of the two objects when
they are created; clients choose them together. `ClusterUpgrade` starts from
clusters whose clients did. The upstream `Default` is called on the object as it was
sent and its patches follow the controller's own, so it may replace the load balancer
that `ensureAPIServerLB` has set (`Defaulted`); which value it sets is upstream's.

### ClusterUpgrade and ReleasePath

`store` has the two objects, `reqs` the requests in flight, `cached` what the
informer cache holds, `releases` the Release CRs. A request goes through
`mutateFilter`, `mutate`, `validateFilter`, `validate`, `validateRelease` and
`write`; each is one webhook call or one read within it, and anything else can
happen in between. `validate` and `validateRelease` are separate because
`Validate` lists the Release CRs once for the scheduled target and once for the
change of the release, and because the owner Cluster is read before the second.
Fields that must not change are one value, `fixed`. There are two ways to the
owner Cluster: the filter takes the name in the cluster label (`OwnerCluster`),
`validateRelease` the ownerReferences (`GetOwnerCluster`). Without such a reference
the handler panics on a nil Cluster, but only if the release changes and the fixed
fields do not (`OwnerMissing`). `Refuse` denies at any step: failing reads, the
checks of upstream CAPI and CAPZ, the scheduled time. The operator's reports go
through the status subresource, for which no webhook is registered: `OperatorReports`
changes the conditions in any way, `reported` keeps its last word on the creation.

History variables (`history`, `unchecked`, `reported`, `everIgnored`, `settled`)
are read by properties only. `unchecked` marks objects that were written although
the filter of the validator skipped them, or while they were being deleted; the
properties are about the others, and `filter_bypass` shows what happens without that
exemption. Nothing exempts an object that the mutator's filter skipped:
`operator_labels` shows what becomes of its labels.

`ReleasePath` is what the rest of the system may rely on: two releases that only go
up, the AzureCluster's to one that the Cluster carries or carried. The refinement
mapping takes the two releases from `store`, the carried ones from `history`, and
lets the promise end with the first unvalidated write or ignored release. What the
steps of a request read and when they read it is all below that level.

### VMCapabilities and SkuOracle

The assignment to the Go map is three steps, as in the runtime's `mapassign`:
the `hashWriting` flag is set, the key is inserted with a zero element and the
flag cleared, the element is stored by the caller. A concurrent access that
meets the flag ends the process (`ConcurrentMapAccess`), after which the
deployment starts a new one with an empty cache; one that does not may see a key
without its element. `SkuOracle` allows every answer to be a denial, and only
true answers to be positive; the refinement mapping takes the open questions to
be the callers that are not idle.

### NodePool

One request is submitted, filtered, mutated (`ensure` up to the read of the
AzureCluster for the release label, `operator` for its second read), filtered
again, validated and written. VM types are records of memory, CPUs, premium
storage, accelerated networking and zones. The cluster goes
along `ReleasePath`, which `ClusterUpgrade` is shown to implement: the initial states,
`UpgradeCluster` and the moves of the AzureCluster's release are those of its instance,
for the releases below the first Cluster API release that have an azure-operator. So a
node pool may meet an AzureCluster that is two releases behind and follows to either;
the run `pair` has it one behind, the proofs any number. The operator label of the
AzureCluster is a variable of its own, `azureOperator`, since the code copies it and
does not derive it, and since it need not fit the release (`operator_labels`):
`UpdateAzureCluster` sets it to anything, with the release or without. Answers
of the SKU cache are the truth or an error, which is what `ImplementsOracle`
shows; an error denies (`Refuse`).

The mutator of a MachinePool runs on updates too and completes the autoscaling
annotations. Here a patch is not its effect but an operation, `add` or `replace`,
computed from the object as the client sent it and applied by the API server
after the patches before it (`Patching`): an `add` below annotations that do not
exist fails the request, and the minimum is completed from replicas that
`Default`'s patch, later in the list, fills in. `Unset` is a missing value and an
empty text, `NoNumber` one that does not parse or does not fit 32 bits. `Scale` is
the cluster autoscaler, which changes the replicas and nothing else.

### Normalize and AzureMachine

A text is a sequence of characters; small letters, capitals, other punctuation
and the dash are told apart, which is all the code does. Label values are at most
63 characters long and begin and end with a letter or a digit (the API server
sees to that), so the cut at the end of `AsDNSLabelName` never happens for them.
For a longer text the cut could leave a dash at the end, contrary to the comment
on the function; no caller has such a text.

A request has three steps, the mutating call, the validating call and the write.
A write or a deletion ends the requests that have read the object before it, as
the API server's conflict would; therefore a slot is free again and the number of
requests over time is not bounded. `owner` is the release of the Cluster, which the
filter falls back on; the operator label comes from the AzureCluster and is a variable
of its own, as in `NodePool`. `CapzErrors` is the answer of CAPZ's
validation, a set of fields; `IgnoreCAPIErrorForField` removes one.

### Serving

The start of the process is one step for each thing `mainError` and `serve` wait
for or can fail at. The informer goroutine is a variable of its own: it can fail
at any time, and takes the process with it (`CachePanics`). SIGTERM ends the
process at once until `signal.Notify` has run; later it makes the goroutine call
`Shutdown`, upon which `ListenAndServeTLS` returns and `main` with it, whether or
not handlers are still running: `Exit` cuts their calls off. The routes follow
from the methods of the handlers, as the type assertions in
`RegisterWebhookHandlers` find them; the calls follow from the chart.

A call is connected, decided and answered, with every early return of
`newHttpHandler`. What is decided is not modelled here: the filter leaves the object
alone (`LeaveAlone`), or the handler succeeds (`Decide`), fails or panics
(`DecideFails`), the answer may be lost, and the process may end. The API server gives
up on a call at any time (`TimeOut`) and denies the request; the handler runs on for
`Nobody`, in the slot of its call, and may come to its decision when the client has
sent the same request again and the webhook is called for it a second time. `decided`
remembers of each request and webhook whether the object was found exempt, or
mutation or checks ran to the end without an error, in a call made for this request;
neither happens in the mutator for a dry run.

## 3. Runs

| Run | Shows | Bounds |
|---|---|---|
| `azure_update` | `Validate` is the policy, no dead end; releases are taken line by line, a network stays the one of its release | 2 requests; 5 versions: an early one, an alpha release and two patches of the next line, a later major, one of them unpublished at first; 2 networks; 2 edits |
| `upgrade` | both objects stay together and move line by line, they keep to `ReleasePath`; conditions and scheduled target | 4 releases, three legacy ones and one without azure-operator, one unpublished at first; 2 requests for every release or none, and three with a scheduled target and conditions, by clients that own the status or not; 1 edit, deletion or report of two conditions |
| `filter_bypass` (violation) | AzureCluster on a release its Cluster never had | as `upgrade` |
| `operator_labels` (violation) | a validated upgrade that keeps the operator label of the old release | as `upgrade` |
| `cluster_create` | a copied operator label fits the release | 3 requests, 4 proposals per kind, 3 releases, one of them unpublished at first and one without azure-operator; 2 edits or deletions |
| `capabilities` | exclusion, completeness, refinement of the oracle, liveness | 2 goroutines, 2 locations, 2 types, one of them not offered in one location; unbounded questions, failures and restarts |
| `sku_race` (violation) | an offered VM type reported as unknown | as `capabilities` |
| `hardware` | the node pool fits its VM type over its life | 3 requests, 4 VM types of which one is too small, one lacks premium storage and one is not offered; every single wrong field; the AzureCluster is not updated |
| `pair` | operator label not older than the release; zones were supported; the autoscaling range is valid and scaling keeps it | 3 requests for both objects, 3 releases, two of them legacy ones; one update of the AzureCluster, to either of them with any operator label (`MaxLabels`); missing, wrong, negative, zero and crossed annotations |
| `zones_drift` (violation) | zones that the VM type does not support | as `pair`, without annotations |
| `azure_machine` | names are DNS labels; the machine stays in its zone, location and organization; it moves forward and keeps its release label | 2 requests at a time, any number over time; 2 legacy releases and one without azure-operator; label values of up to 4 characters; 1 edit of Release CRs, upgrade or new operator label; deletions unbounded |
| `serving` | nothing is stored past a webhook, the process comes back | 1 client that repeats its request without bound, 2 calls open at a time, so that one handler may run late; a resource with all webhooks, one with a mutator only and one with an update validator only; 2 failures |

Why the bounds are enough to be interesting. Two requests are what it takes for
one to invalidate what another has read; a third lets a creation be followed by
two racing changes. `Validate` distinguishes at most three versions at a time
(old, new, one between), and three lines with a fourth release outside the
filter give every order of them. One environment move lands between any two
steps, since the moves are not tied to a request; `MaxMoves` is the only bound on
the environment in `ClusterUpgrade`, `ClusterCreate`, `AzureUpdate` and
`AzureMachine`. In `Serving` two failures are enough for one to hit the restart
after another; requests meet only in the process, whose handlers share nothing there,
so one client with two calls has every meeting of a late answer and a repeated request;
the resources asked for are one of each set of webhooks, since the handlers treat all
alike. The largest runs have two to three million distinct states and take about two
and a half minutes. Four characters are the shortest label value with two
characters of punctuation side by side between letters. What the
bounds cut off is covered by the proofs, which have none, for every property but
the two that section 4 names.

Symmetry is used in runs without liveness properties: over requests, which are all
alike, and in `azure_update` over the two networks, a subnet with its zone. No
definition chooses between them. Deadlock is checked
for `capabilities`, `sku_race` and `serving`. In the other modules requests are
made at most once, or the moves are bounded and an object may stay as it is, so
the system may stop.

Fairness is assumed in `VMCapabilities` and `Serving`. In `Serving` it is weak
fairness of the steps of the start, the kubelet's included, and of the steps that
end a process: each of them is a thread that only has to run, or a restart that a
Deployment guarantees. Failures are bounded, no client is assumed to ask and no
handler to answer. In `VMCapabilities` a goroutine that can run does so
(weak fairness of its steps). A call to `List` returns, since it gets the
context of the webhook call, which ends with the API server's timeout. A
goroutine that waits for the mutex gets it in the end if it is released again
and again (strong fairness of `Lock`), which is what the starvation mode of
`sync.Mutex` gives. Nobody is assumed to ask, and no listing to succeed.

Every property of a passing run has a mutant, a fault of the kind the code could
have (`Faulty...` next to the definition it replaces), under which TLC finds the
property violated.

### Disagreements between code and documents

Four, each with a run: the filter skips the comparison of the AzureCluster with
its Cluster (`docs/validating.md`, run `filter_bypass`); the two filters of one request
disagree when a Release CR enters the informer cache between them, and a validated
object is stored with the operator label of its old release, although `CHANGELOG.md`
has the label right on every update (`operator_labels`); the unlocked read of the
SKU map reports an offered VM type as unknown (`docs/validating.md`, `sku_race`);
and a change of the VM type is not checked against the zones of the MachinePool
(`CHANGELOG.md`, `zones_drift`).

Others have no run of their own. The master CIDR is not compared when the release
changes (`validate_azureconfig.go:86`), although `CHANGELOG.md:176` says that it does
not change and makes no exception; what is left of that promise is
`OneNetworkPerRelease`. `docs/validating.md:27` has the service domain checked against
the installation's base domain, the code compares it with `cluster.local`
(`pkg/key/key.go:26`). `docs/mutating.md` says that node pools copy their labels from
the Cluster, the code reads the AzureCluster. `AsDNSLabelName` may end a name in a dash
when it cuts a long text.

## 4. Proofs

`tlapm` checks eight modules, with no assumption but those named `...Assumption`
in the modules that declare the constants: the versions are semantic versions,
the special values (`NoRelease`, `Nobody`, ...) are none of the ordinary ones,
proposed objects are objects, the bound on moves is a number. One says something
about the surroundings: in `AzureMachine`, that the API server clears the deletion
timestamp of a new object. Without it an update of a machine born in deletion
would skip every check, and `PlacedForLife` would be false. TLC evaluates all of
them on its instances.

`ReleaseVersionProofs`: a set of numbers that is not empty has a least element
(`LeastNat`, because `<` is well founded on them); `LT` is a total order; `Validate` is `Policy` for every
set of versions and every listing (`ValidateIsPolicy`). The argument is
`BetweenIsLineBetween`: for an upgrade, "between old and new and on neither's
line" is "on a line strictly between theirs". It needs the order of versions
only.

`AzureUpdateProofs`: for `NoDeadEnd` take the active releases
up to the goal and, of these, one whose line no other's precedes (`LowestLine`,
by `LeastNat`): nothing active lies on a line
between, so the policy allows it, and so does `Validate`. `IInv` says of an update
that waits for its write what was accepted (`Accepted`), with `Validate`'s verdict
replaced by a stable one (`AllowedMove`), since Release CRs are edited meanwhile:
`LinesCorrect` follows. For `NetworkCorrect` the checks only compare neighbours, and an
empty value with nothing; `NetworkInv` relates the present object to all earlier ones:
its release comes after theirs, or is the same with whatever network they had chosen
(`Succeeds`). A validated resource never goes back, so no detour leads to the same
release with another network.

`ClusterUpgradeProofs`: none of the properties is inductive, since a write
stores what was checked several steps before, on a state that may be gone.
`IInv` says for each step of a request what it has established (`RequestOK`):
the old object is still the stored one unless the request is outdated; from `validateRelease` on `ChecksHold`; at the write
also `ReleaseHolds`. The facts the code finds, such as "`Validate` accepts", are
not stable when Release CRs are edited or the Cluster moves on. So each has a
stable counterpart in terms of history that only grows or only shrinks:
`AllowedMove` speaks of releases that were ever ignored or have been active all
along, `ChecksHold` of the releases the Cluster ever had. `StoreInv` is the same
for the stored objects; its last conjunct, that without ignored releases the
Cluster is on the newest release it ever had, is what `AzureClusterNeverAhead`
follows from. One lemma per action shows that it preserves `IInv`. From it follow
`FollowsCorrect`, `NeverAheadCorrect`, `ScheduleCorrect`, `CreationCorrect` and
the action properties `SettledCorrect` and `LinesCorrect`, for
any number of requests, releases and moves.

`PathCorrect` is the refinement of `ReleasePath`. A write is the only step that moves
one of the releases (`OnlyWritesMove`). `CheckedMove` says what a validated write does
to them: the new release is a legacy one, which the validator's filter has established, and
it is the old one or a later one; for an AzureCluster it is in `history`, though the
Cluster may have gone on since it was read. The promise has ended as soon as something
is unchecked or ignored, and never comes back since both histories only grow.

`VMCapabilitiesProofs`: `IInv` adds to the completeness of the cache who holds
the mutex in which step, that a listing in hand is Azure's, and that locations
being filled are real ones. From it follow exclusion and completeness, and
`OracleCorrect`: every step maps to a step of `SkuOracle` or to none. The one
positive answer, of `Read`, needs that cached types are offered ones.

`ClusterCreateProofs`: a request remembers what was sent, and `RequestOK` says what
the mutators have made of it: nothing left open, and a label that stems from an
AzureCluster of the past. The AzureCluster itself may be gone when the Cluster is written, hence
the history `azurePast`; `PastInv` says that every one in it has the operator of its
release unless one came in without its mutation.

`NodePoolProofs`: `IInv` has for the stored objects what validation keeps of them
(`Fits`, `WereSupported`, `HasRange`) and for a request what its checks have found
(`Passed`), either about the object alone or compared with the old one, which is
the stored one unless the request is outdated. An update is checked for less than a
creation (the size of the VM type only if it changes, say), so that
`HardwareFits` needs both: the stored object fits, and the update keeps that. For
the two labels the history of the AzureCluster has pairs of a release and an operator
label; `UpwardsOnly` relates their releases to those the Cluster carried, and both to
the present ones, and every step of `ReleasePath` keeps it. The second read then finds
a pair whose release is not older than the one the first read found.
The range of the autoscaler rests on lemmas about patches: `Patching` is a recursive function, unfolded for the up to three patches the mutator makes
(`PatchedUpToThree`), and a case for each combination of missing and wrong annotations.

`AzureMachineProofs`: what `OnUpdateValidate` accepts depends on Release CRs that may
be edited before the write; `MayFollow` is its stable counterpart, with `Forward` in
terms of releases that were ever ignored. `RequestOK` adds that a request agrees
with the stored machine on the deletion timestamp: otherwise an update could use
the exemption of objects that are being deleted. These proofs
use of `AsDNSLabelName` only that it is a function of the label.

`NamesCorrect` is about that function, for label values of any length: the lookup of
an Organization asks for a DNS label with the letters and digits of the label. The
library's induction theorems are out of reach, so the induction over the characters
is made by hand from `LeastNat` (`PrefixInduction`: a set of lengths that contains 0
and with a length the next one contains all). The recursive functions of `Normalize`
come without their equations; `RecursionExists` shows, by the same induction, that a
function with such an equation exists, and `CHOOSE` then picks one (`LoopUnfold`,
`LettersUnfold`). `LoopDone` is the loop invariant of the code: what has been written
so far consists of small letters, digits and dashes, is no longer than what has been
read and has its letters in their order, begins with the first of them and ends with
the last one if that was just read, and has two dashes in a row only if the text has a
dash of its own. A label value begins and ends with a letter or a digit, so that there
is nothing to trim or to cut (`TrimmedIdentity`), and a DNS label is a fixed point
(`LabelIsFixed`).

`ServingProofs`: `CallOK` relates a request, its call and the outcomes of its webhooks:
a request past a webhook has an outcome there, and an answer "allowed" comes with an
outcome or is one of a dry run. A request has at most one call of its own (`CallInv`);
a call that the API server gave up on belongs to `Nobody` and records nothing for the
request that came after. The end of a process at any moment cuts calls off and leaves
outcomes alone.

Each `IInv` is an invariant that TLC has confirmed under the configurations of
the runs, and each is written at the end of its module.

Only model-checked: `EveryQuestionEnds` and `KeepsServing`, liveness under
fairness, which is out of the prover's reach. The refuted properties of the `violation` runs have no
proof, of course.

## 5. Not modelled, and why

- Decoding of requests, logging, encoding of answers: that they can fail is in
  `Serving`, what they produce is no part of any decision.
- The upstream `Default`, `ValidateCreate` and `ValidateUpdate` of CAPI and CAPZ:
  not in this repository. They can only deny (`Refuse`, `CapzErrors`), or set fields
  no check reads; of `Default` the replicas of a MachinePool and the load balancer of
  an AzureCluster are modelled.
- The time of a scheduled upgrade: it is compared with the clock once, when the
  annotation is set, and can only deny (`Refuse`). Who acts on it is the operator.
- That an AzureCluster eventually follows its Cluster: when the Cluster is upgraded
  twice in a row the AzureCluster may have to skip a line and is refused. Nothing in
  the code or its documents promises otherwise.
- What Spark's mutator decides: one label, by `EnsureReleaseVersionLabel`, which
  `NodePool` has. Error matchers, type assertions, accessors of labels, and the
  older handlers of `handler.go`, which no route uses.

## 6. Plan

Done: the modules above. They hold every handler that decides about an object, the
libraries that the handlers share, and the process around them; and proofs of all
their invariants and action properties, and of both refinements.

Next: what holds between the remaining components. `NodePool` takes its cluster from
`ReleasePath`, which is proved of `ClusterUpgrade`, and the answers about VM types from
what is proved of `VMCapabilities`. That the owner of an AzureMachine is upgraded as
`Validate` allows (`UpgradeOwner`) is still stated in its module and not derived from
`ClusterUpgrade`.
