--------------------------- MODULE ClusterUpgrade ---------------------------
(***************************************************************************)
(* Updates of a workload cluster's two custom resources, Cluster and       *)
(* AzureCluster, through the admission controller: pkg/mutator and         *)
(* pkg/validator (the handler factories), pkg/filter, pkg/release,         *)
(* pkg/cluster and pkg/azurecluster (OnUpdateMutate, OnUpdateValidate),    *)
(* internal/conditions and internal/scheduledupgrades.                     *)
(*                                                                         *)
(* An update request is admitted in steps, each a separate HTTP call or a  *)
(* separate read inside a handler, and other requests, the operator, the   *)
(* editors of Release CRs and the informer cache move between them:        *)
(*                                                                         *)
(*   mutateFilter -> mutate -> validateFilter -> validate                  *)
(*                                    -> validateRelease -> write -> done  *)
(*                                                                         *)
(* The API server writes with optimistic concurrency: a request whose      *)
(* object was written after it read it ends in a conflict.                 *)
(*                                                                         *)
(* The data is abstracted to what the handlers compare.  The fields an     *)
(* update must leave alone (organization label, cluster network, control   *)
(* plane endpoint) are one value, "fixed".  Checks of data that is not     *)
(* here (decoding, the CAPI and CAPZ ValidateUpdate, the schedule time)    *)
(* and failing reads can only deny a request: that is Refuse.              *)
(***************************************************************************)
EXTENDS ReleaseCatalog

CONSTANTS
    Requests,    \* the update requests, each made at most once
    Labels,      \* values of a component version label
    NoLabel,     \* the empty label value, or a component that is missing
    NoRelease,   \* no release label, or no scheduled target
    Fixed,       \* values of the fields an update must not change
    Component,   \* the operators in each release
    Proposals,   \* the objects clients propose
    Reports      \* the statuses the operator reports for a condition

Kinds == {"Cluster", "AzureCluster"}

\* The status of a condition; Unknown stands for every unsupported value.
Status == {"Absent", "True", "False", "Unknown"}

Release == Versions \cup {NoRelease}

Object == [release   : Release,          \* release.giantswarm.io/version
           azureOp   : Labels,           \* azure-operator.giantswarm.io/version
           clusterOp : Labels,           \* cluster-operator.giantswarm.io/version
           fixed     : Fixed,
           creating  : Status,           \* conditions, of a Cluster only
           upgrading : Status,
           target    : Release,          \* scheduled upgrade, of a Cluster only
           deleting  : BOOLEAN]          \* the deletion timestamp is set

Steps == {"idle", "mutateFilter", "mutate", "validateFilter", "validate",
          "validateRelease", "write", "done"}

Request == [step    : Steps,
            kind    : Kinds,
            old     : Object,            \* the stored object the API server read
            new     : Object,            \* the proposed object, patched by mutate
            stale   : BOOLEAN,           \* the object was written since then
            checked : BOOLEAN]           \* OnUpdateValidate ran to its end

ASSUME UpgradeAssumption ==
    /\ NoRelease \notin Versions
    /\ NoLabel \in Labels
    /\ Fixed # {}
    /\ Component \in [Versions -> [azureOp : Labels, clusterOp : Labels]]
    /\ Proposals \subseteq Object
    /\ Reports \subseteq Status

VARIABLES
    store,       \* the stored Cluster and AzureCluster
    reqs,        \* the update requests
    cached,      \* the releases the informer cache holds
    \* history variables, read by the properties only
    history,     \* every release the Cluster was ever stored with
    unchecked,   \* kinds with a write that was not validated
    reported,    \* Creating as the operator last reported it
    everIgnored, \* releases that ever carried the ignore annotation
    settled      \* releases active from the start on, never edited

systemVars == <<store, reqs, cached>>
historyVars == <<history, unchecked, reported, everIgnored, settled>>
vars == <<releases, moves, store, reqs, cached,
          history, unchecked, reported, everIgnored, settled>>

TypeOK ==
    /\ CatalogTypeOK
    /\ store \in [Kinds -> Object]
    /\ reqs \in [Requests -> Request]
    /\ cached \subseteq Versions
    /\ history \subseteq Release
    /\ unchecked \subseteq Kinds
    /\ reported \in Status
    /\ everIgnored \subseteq Versions
    /\ settled \subseteq Versions

-----------------------------------------------------------------------------
(* pkg/release, pkg/filter *)

IsLegacy(v) == Component[v].azureOp # NoLabel

\* The Cluster that the cluster label of either object names.
OwnerCluster == store["Cluster"]

\* The Cluster that the ownerReferences of an AzureCluster name.  Cluster API
\* adds the reference; OwnerMissing is the update of an object without it.
GetOwnerCluster == store["Cluster"]

\* The release label of the object or else of its owner Cluster.
ReleaseForObject(o) ==
    IF o.release # NoRelease THEN o.release ELSE OwnerCluster.release

IsObjectReconciledByLegacyRelease(o) ==
    /\ ReleaseForObject(o) # NoRelease
    /\ ReleaseForObject(o) \in cached
    /\ IsLegacy(ReleaseForObject(o))

-----------------------------------------------------------------------------
(* internal/conditions, internal/scheduledupgrades *)

\* Fault: validateRemovingConditionIsNotAllowed is forgotten.
FaultyConditionChangeAllowed(old, new) == new # "Unknown"

ConditionChangeAllowed(old, new) ==
    /\ new # "Unknown"
    /\ old # "Absent" => new # "Absent"

ValidateClusterConditions(old, new) ==
    /\ ConditionChangeAllowed(old.creating, new.creating)
    /\ ~(old.creating = "False" /\ new.creating = "True")
    /\ ConditionChangeAllowed(old.upgrading, new.upgrading)

\* Fault: the target is not compared with the current release.
FaultyAnnotationUpgradeRelease(o) ==
    o.target # NoRelease => /\ o.release # NoRelease
                            /\ Validate(releases, o.release, o.target)

ValidateClusterAnnotationUpgradeRelease(o) ==
    o.target # NoRelease =>
        /\ o.release # NoRelease
        /\ Validate(releases, o.release, o.target)
        /\ o.release # o.target

-----------------------------------------------------------------------------
(* pkg/cluster and pkg/azurecluster: OnUpdateValidate, in two parts, since
   the Release CRs are read twice, or the owner Cluster and then they.     *)

FixedFieldsUnchanged(old, new) == old.fixed = new.fixed

ClusterChecks(old, new) ==
    /\ FixedFieldsUnchanged(old, new)
    /\ ValidateClusterConditions(old, new)
    /\ ValidateClusterAnnotationUpgradeRelease(new)

\* Fault: the owner Cluster is not asked.
FaultyAzureClusterChecks(old, new) ==
    /\ FixedFieldsUnchanged(old, new)
    /\ old.release # NoRelease /\ new.release # NoRelease

AzureClusterChecks(old, new) ==
    /\ FixedFieldsUnchanged(old, new)
    /\ old.release # NoRelease /\ new.release # NoRelease
    /\ old.release # new.release => new.release = GetOwnerCluster.release

\* Fault: the conditions of the proposed object are looked at.
FaultyConditionsOfNew(old, new) ==
    /\ old.release # NoRelease /\ new.release # NoRelease
    /\ old.release # new.release => new.creating # "True" /\ new.upgrading # "True"
    /\ Validate(releases, old.release, new.release)

\* Fault: the versions are passed in the wrong order.
FaultyVersionOrder(old, new) ==
    /\ old.release # NoRelease /\ new.release # NoRelease
    /\ old.release # new.release => old.creating # "True" /\ old.upgrading # "True"
    /\ Validate(releases, new.release, old.release)

ClusterValidateRelease(old, new) ==
    /\ old.release # NoRelease /\ new.release # NoRelease
    /\ old.release # new.release => old.creating # "True" /\ old.upgrading # "True"
    /\ Validate(releases, old.release, new.release)

\* Fault: the release of the owner Cluster is taken to be a valid step.
FaultyAzureClusterValidateRelease(old, new) == included(releases, new.release)

AzureClusterValidateRelease(old, new) == Validate(releases, old.release, new.release)

-----------------------------------------------------------------------------
\* What a request that is not in flight holds.
NoObject == [release |-> NoRelease, azureOp |-> NoLabel, clusterOp |-> NoLabel,
             fixed |-> CHOOSE f \in Fixed : TRUE, creating |-> "Absent",
             upgrading |-> "Absent", target |-> NoRelease, deleting |-> FALSE]

Idle == [step |-> "idle", kind |-> "Cluster", old |-> NoObject, new |-> NoObject,
         stale |-> FALSE, checked |-> FALSE]

Done == [Idle EXCEPT !.step = "done"]

\* An object just created with the legacy release v.
CreatedWith(v, f) ==
    [NoObject EXCEPT !.release = v, !.azureOp = Component[v].azureOp, !.fixed = f]

\* A cluster just created, both objects with one release, or one whose
\* Cluster was upgraded since and whose AzureCluster was not yet.
Init ==
    /\ CatalogInit
    /\ cached = Published
    /\ \E v, w \in Published, f \in Fixed, c \in {"Absent", "True", "False"} :
          /\ IsLegacy(v) /\ IsLegacy(w)
          /\ Validate(releases, v, w)
          /\ c # "False" => v = w
          /\ store = [k \in Kinds |->
                         IF k = "Cluster" THEN [CreatedWith(w, f) EXCEPT !.creating = c]
                                          ELSE CreatedWith(v, f)]
          /\ history = {v, w}
    /\ reqs = [r \in Requests |-> Idle]
    /\ unchecked = {}
    /\ reported = store["Cluster"].creating
    /\ everIgnored = {}
    /\ settled = {v \in Published : ~isAlphaRelease(v)}

-----------------------------------------------------------------------------
(* One update request.  The API server reads the stored object and calls
   the webhooks.  An update keeps the deletion timestamp; it keeps the
   conditions too unless the client owns the status.                       *)
Submit(r, k, o, ownsStatus) ==
    /\ reqs[r].step = "idle"
    /\ k = "AzureCluster" => ~ownsStatus /\ o.target = NoRelease
    /\ LET old == store[k]
           new == [o EXCEPT !.deleting  = old.deleting,
                            !.creating  = IF ownsStatus THEN @ ELSE old.creating,
                            !.upgrading = IF ownsStatus THEN @ ELSE old.upgrading]
       IN  reqs' = [reqs EXCEPT ![r] =
                       [Idle EXCEPT !.step = "mutateFilter", !.kind = k,
                                    !.old = old, !.new = new]]
    /\ UNCHANGED <<releases, moves, store, cached, historyVars>>

\* The request goes on to another step of its admission.
Advance(r, from, to) ==
    /\ reqs[r].step = from
    /\ reqs' = [reqs EXCEPT ![r].step = to]
    /\ UNCHANGED <<releases, moves, store, cached, historyVars>>

\* The request is answered with a denial.
Deny(r, from) ==
    /\ reqs[r].step = from
    /\ reqs' = [reqs EXCEPT ![r] = Done]
    /\ UNCHANGED <<releases, moves, store, cached, historyVars>>

\* HttpHandlerFactory.NewUpdateHandler of pkg/mutator: the filter decides
\* on the new object whether it is mutated at all.
MutateFilter(r) ==
    Advance(r, "mutateFilter",
            IF IsObjectReconciledByLegacyRelease(reqs[r].new) THEN "mutate"
                                                              ELSE "validateFilter")

\* EnsureComponentVersionLabelFromRelease, for both operators, in the
\* release as the informer cache has it.
ComponentsFound(o) ==
    /\ o.release # NoRelease
    /\ o.release \in cached
    /\ Component[o.release].azureOp # NoLabel
    /\ Component[o.release].clusterOp # NoLabel

\* Fault: the release version is written where an operator version belongs.
FaultyReleaseAsLabel(o) == [o EXCEPT !.azureOp = o.release]

EnsureComponentVersionLabels(o) ==
    [o EXCEPT !.azureOp = Component[o.release].azureOp,
              !.clusterOp = Component[o.release].clusterOp]

OnUpdateMutate(r) ==
    /\ reqs[r].step = "mutate"
    /\ ComponentsFound(reqs[r].new)
    /\ reqs' = [reqs EXCEPT
                   ![r] = [reqs[r] EXCEPT
                              !.step = "validateFilter",
                              !.new = EnsureComponentVersionLabels(reqs[r].new)]]
    /\ UNCHANGED <<releases, moves, store, cached, historyVars>>

OnUpdateMutateFails(r) ==
    /\ ~ComponentsFound(reqs[r].new)
    /\ Deny(r, "mutate")

\* NewUpdateHandler of pkg/validator filters again, on the patched object.
ValidateFilter(r) ==
    Advance(r, "validateFilter",
            IF IsObjectReconciledByLegacyRelease(reqs[r].new) THEN "validate" ELSE "write")

ChecksPass(r) ==
    IF reqs[r].kind = "Cluster" THEN ClusterChecks(reqs[r].old, reqs[r].new)
                                ELSE AzureClusterChecks(reqs[r].old, reqs[r].new)

\* OnUpdateValidate up to validateRelease; an object that is being deleted
\* is let through.
OnUpdateValidate(r) ==
    /\ reqs[r].step = "validate"
    /\ \/ reqs[r].new.deleting /\ Advance(r, "validate", "write")
       \/ ~reqs[r].new.deleting /\ ChecksPass(r) /\ Advance(r, "validate", "validateRelease")
       \/ ~reqs[r].new.deleting /\ ~ChecksPass(r) /\ Deny(r, "validate")

ReleasePasses(r) ==
    IF reqs[r].kind = "Cluster" THEN ClusterValidateRelease(reqs[r].old, reqs[r].new)
                                ELSE AzureClusterValidateRelease(reqs[r].old, reqs[r].new)

ValidateRelease(r) ==
    \/ /\ reqs[r].step = "validateRelease"
       /\ ReleasePasses(r)
       /\ reqs' = [reqs EXCEPT ![r] = [@ EXCEPT !.step = "write", !.checked = TRUE]]
       /\ UNCHANGED <<releases, moves, store, cached, historyVars>>
    \/ /\ reqs[r].step = "validateRelease"
       /\ ~ReleasePasses(r)
       /\ Deny(r, "validateRelease")

\* GetOwnerCluster finds no reference to a Cluster and returns nil, which
\* validateRelease dereferences: the handler panics.
OwnerMissing(r) ==
    /\ reqs[r].kind = "AzureCluster"
    /\ ~reqs[r].new.deleting
    /\ FixedFieldsUnchanged(reqs[r].old, reqs[r].new)
    /\ NoRelease \notin {reqs[r].old.release, reqs[r].new.release}
    /\ reqs[r].old.release # reqs[r].new.release
    /\ Deny(r, "validate")

\* A read fails, a handler panics, or a check of data that is not modelled
\* does: the webhooks' failure policy is Fail.
Refuse(r) ==
    \E s \in {"mutateFilter", "mutate", "validateFilter", "validate", "validateRelease"} :
        Deny(r, s)

-----------------------------------------------------------------------------
\* Requests of kind k that read the object before this write.
Outdated(k) == [q \in Requests |-> IF reqs[q].step \notin {"idle", "done"} /\ reqs[q].kind = k
                                   THEN [reqs[q] EXCEPT !.stale = TRUE] ELSE reqs[q]]

Stored(k, o) ==
    /\ store' = [store EXCEPT ![k] = o]
    /\ history' = IF k = "Cluster" THEN history \cup {o.release} ELSE history

Write(r) ==
    /\ reqs[r].step = "write"
    /\ ~reqs[r].stale
    /\ Stored(reqs[r].kind, reqs[r].new)
    /\ reqs' = [Outdated(reqs[r].kind) EXCEPT ![r] = Done]
    /\ unchecked' = IF reqs[r].checked THEN unchecked ELSE unchecked \cup {reqs[r].kind}
    /\ UNCHANGED <<releases, moves, cached, reported, everIgnored, settled>>

Conflict(r) == reqs[r].stale /\ Deny(r, "write")

\* A DELETE request: no webhook is called for it.
Delete(k) ==
    /\ ~store[k].deleting
    /\ CountMove
    /\ Stored(k, [store[k] EXCEPT !.deleting = TRUE])
    /\ reqs' = Outdated(k)
    /\ UNCHANGED <<releases, cached, unchecked, reported, everIgnored, settled>>

\* The operator reports through the status subresource, which has no
\* webhook: any condition may change in any way.
OperatorReports(c, u) ==
    LET old == store["Cluster"]
        new == [old EXCEPT !.creating = c, !.upgrading = u]
    IN  /\ new # old
        /\ CountMove
        /\ Stored("Cluster", new)
        /\ reqs' = Outdated("Cluster")
        /\ reported' = c
        /\ UNCHANGED <<releases, cached, unchecked, everIgnored, settled>>

\* A Release CR is edited.
EditReleases ==
    /\ CatalogNext
    /\ everIgnored' = everIgnored \cup releases'.ignored
    /\ settled' = {v \in settled : Active(releases', v)}
    /\ UNCHANGED <<store, reqs, cached, history, unchecked, reported>>

\* The informer cache catches up with the Release CRs.
SyncCache ==
    /\ cached # releases.names
    /\ cached' = releases.names
    /\ UNCHANGED <<releases, moves, store, reqs, historyVars>>

HandleRequest(r) ==
    \/ MutateFilter(r) \/ OnUpdateMutate(r) \/ OnUpdateMutateFails(r)
    \/ ValidateFilter(r) \/ OnUpdateValidate(r) \/ ValidateRelease(r)
    \/ OwnerMissing(r) \/ Refuse(r) \/ Write(r) \/ Conflict(r)

Next ==
    \/ \E r \in Requests :
          \/ \E k \in Kinds, o \in Proposals, b \in BOOLEAN : Submit(r, k, o, b)
          \/ HandleRequest(r)
    \/ \E k \in Kinds : Delete(k)
    \/ \E c, u \in Reports : OperatorReports(c, u)
    \/ EditReleases
    \/ SyncCache

Spec == Init /\ [][Next]_vars

-----------------------------------------------------------------------------
(* As long as every write of the AzureCluster was validated, it carries a
   release that the Cluster carries or carried: the comparison with the
   owner Cluster holds although the Cluster can move between that read and
   the write of the AzureCluster.                                          *)
AzureClusterFollowsCluster ==
    "AzureCluster" \notin unchecked => store["AzureCluster"].release \in history

(* Without ignored releases and unvalidated writes the AzureCluster is
   never on a newer release than the Cluster.                              *)
AzureClusterNeverAhead ==
    (unchecked = {} /\ everIgnored = {}) =>
        ~LT(store["Cluster"].release, store["AzureCluster"].release)

(* A validated Cluster never keeps a scheduled target that it has reached or
   passed, the write that performs the upgrade included.  Releases that were
   ever ignored are exempt from the order.                                 *)
ScheduledTargetIsNewer ==
    LET c == store["Cluster"]
    IN  ("Cluster" \notin unchecked /\ c.target # NoRelease)
        => /\ c.target # c.release
           /\ {c.target, c.release} \cap everIgnored = {} => LT(c.release, c.target)

(* The release of a Cluster whose writes are validated never changes while
   its creation or an upgrade is reported to be in progress: a report that
   arrives after validateRelease read the conditions wins over the write.  *)
UpgradeOnlyWhenSettled ==
    [][("Cluster" \notin unchecked' /\ store'["Cluster"].release # store["Cluster"].release)
       => store["Cluster"].creating # "True" /\ store["Cluster"].upgrading # "True"]_vars

(* The operator's last word on a creation that is over stands: as long as
   the writes of the Cluster are validated, no sequence of clients' updates
   that set, remove or reset the condition brings Creating back, however
   they interleave with the reports.                                       *)
CreationStaysOver ==
    ("Cluster" \notin unchecked /\ reported = "False")
    => store["Cluster"].creating = "False"

(* A validated move to another release goes forward and takes the lines one
   at a time: it leaves out no line with a release that was active all the
   time, even if the Release CRs are edited between validation and write.
   Releases that were ever ignored are exempt.                             *)
UpgradesFollowLines ==
    [][\A k \in Kinds \ unchecked' :
          LET old == store[k].release
              new == store'[k].release
          IN  (old # new /\ old \notin everIgnored /\ new \notin everIgnored)
              => /\ LT(old, new)
                 /\ ~\E v \in settled : LineBefore(old, v) /\ LineBefore(v, new)]_vars

\* One version precedes the other.
Before == {p \in Versions \X Versions : LT(p[1], p[2])}

Path == INSTANCE ReleasePath
    WITH Releases <- {v \in Versions : IsLegacy(v)},
         clusterRelease <- store["Cluster"].release,
         azureRelease <- store["AzureCluster"].release,
         carried <- history,
         exempt <- unchecked # {} \/ everIgnored # {}

(* The two kinds of updates together keep the promise of ReleasePath: each
   webhook looks at one object and reads the other and the Release CRs at
   some moment before the write, and yet every write is a step on the path. *)
ImplementsReleasePath == Path!Spec

-----------------------------------------------------------------------------
(* The inductive invariant behind these properties: what each step of the
   admission of a request has established that the write relies on, in
   terms that the moves of everyone else preserve.                         *)

\* Stable counterpart of Validate: Release CRs only leave settled and only
\* enter everIgnored.
AllowedMove(old, new) ==
    \/ old = new
    \/ old \in everIgnored \/ new \in everIgnored
    \/ /\ LT(old, new)
       /\ ~\E v \in settled : LineBefore(old, v) /\ LineBefore(v, new)

TargetNewer(o) ==
    o.target # NoRelease =>
        /\ o.release # NoRelease
        /\ o.target # o.release
        /\ o.target \in everIgnored \/ o.release \in everIgnored \/ LT(o.release, o.target)

\* What OnUpdateValidate found before validateRelease.
ChecksHold(q) ==
    IF q.kind = "Cluster"
    THEN ValidateClusterConditions(q.old, q.new) /\ TargetNewer(q.new)
    ELSE /\ q.old.release # NoRelease /\ q.new.release # NoRelease
         /\ q.old.release = q.new.release \/ q.new.release \in history

ReleaseHolds(q) ==
    /\ q.old.release # NoRelease /\ q.new.release # NoRelease
    /\ AllowedMove(q.old.release, q.new.release)
    /\ (q.kind = "Cluster" /\ q.old.release # q.new.release)
       => q.old.creating # "True" /\ q.old.upgrading # "True"

RequestOK(q) ==
    q.step \notin {"idle", "done"} =>
        /\ ~q.stale => q.old = store[q.kind]
        /\ (q.step \in {"validate", "validateRelease"} \/ q.checked)
           => q.new.release = NoRelease \/ IsLegacy(q.new.release)
        /\ q.step = "validateRelease" => ChecksHold(q)
        /\ q.checked => q.step = "write" /\ ChecksHold(q) /\ ReleaseHolds(q)

RequestInv == \A r \in Requests : RequestOK(reqs[r])

CatalogInv ==
    /\ releases.ignored \subseteq everIgnored
    /\ \A v \in settled : Active(releases, v)

StoreInv ==
    /\ store["Cluster"].release \in history
    /\ "Cluster" \notin unchecked =>
          store["Cluster"].release # NoRelease /\ TargetNewer(store["Cluster"])
    /\ CreationStaysOver
    /\ "AzureCluster" \notin unchecked =>
          store["AzureCluster"].release \in history \ {NoRelease}
    /\ (unchecked = {} /\ everIgnored = {}) =>
          \A h \in history \ {NoRelease} : ~LT(store["Cluster"].release, h)

IInv == TypeOK /\ CatalogInv /\ RequestInv /\ StoreInv

-----------------------------------------------------------------------------
(* What the repository says, without the exemptions above.                 *)

(* docs/validating.md on the release label of an AzureCluster: "New value
   must match the same label on Cluster CR".  The filter lets an update
   through unvalidated when its new release is not in the informer cache or
   has no azure-operator.                                                  *)
NewReleaseMatchesCluster ==
    [][store'["AzureCluster"].release # store["AzureCluster"].release
       => store'["AzureCluster"].release \in history]_vars

(* CHANGELOG.md of versions 2.0.0 and 2.2.0: "Ensure
   `azure-operator.giantswarm.io/version` label has the right value
   depending on the `release.giantswarm.io/version` label when updating
   `Cluster` and `AzureCluster`", and so for cluster-operator.  The mutator
   and the validator filter the same request one after the other: what the
   cache did not know for the first it can know for the second, and the
   update is validated, with the labels the client sent.                   *)
OperatorsMatchRelease ==
    [][\A k \in Kinds \ unchecked' :
          LET o == store'[k]
          IN  o.release # store[k].release
              => /\ o.azureOp = Component[o.release].azureOp
                 /\ o.clusterOp = Component[o.release].clusterOp]_vars
=============================================================================
