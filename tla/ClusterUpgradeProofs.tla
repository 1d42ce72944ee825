------------------------ MODULE ClusterUpgradeProofs ------------------------
(***************************************************************************)
(* Proofs about ClusterUpgrade, for every set of versions, requests and    *)
(* proposals.  IInv of ClusterUpgrade is inductive; the properties follow  *)
(* from it.                                                                *)
(***************************************************************************)
EXTENDS ClusterUpgrade, ReleaseVersionProofs

(* What a request that is not in flight holds is well formed. *)
LEMMA IdleType == NoObject \in Object /\ Idle \in Request /\ Done \in Request
<1>1. NoObject \in Object
  BY UpgradeAssumption DEF NoObject, Object, Release, Status
<1>. QED BY <1>1 DEF Idle, Done, Request, Steps, Kinds

(* A step that changes one request only, to one that satisfies the
   invariant, preserves the invariant.                                     *)
LEMMA RequestStep ==
    ASSUME IInv, NEW r \in Requests, NEW n \in Request, RequestOK(n),
           reqs' = [reqs EXCEPT ![r] = n],
           UNCHANGED <<releases, moves, store, cached, historyVars>>
    PROVE  IInv'
<1>1. TypeOK'
  BY DEF IInv, TypeOK, CatalogTypeOK, historyVars
<1>2. CatalogInv'
  BY Zenon DEF IInv, CatalogInv, historyVars, Active, isAlphaRelease
<1>3. StoreInv'
  BY Zenon DEF IInv, StoreInv, historyVars, CreationStaysOver, TargetNewer
<1>4. RequestInv'
  <2> SUFFICES ASSUME NEW q \in Requests PROVE RequestOK(reqs[q])'
    BY DEF RequestInv
  <2>1. PICK m \in Request : reqs'[q] = m /\ RequestOK(m)
    <3>1. CASE q = r
      BY <3>1 DEF IInv, TypeOK
    <3>2. CASE q # r
      BY <3>2 DEF IInv, RequestInv, TypeOK
    <3>. QED BY <3>1, <3>2
  <2>2. RequestOK(m)'
    BY <2>1 DEF RequestOK, ChecksHold, ReleaseHolds, TargetNewer,
       AllowedMove, historyVars
  <2>. QED
    BY <2>1, <2>2 DEF RequestOK, ChecksHold, ReleaseHolds, TargetNewer,
       AllowedMove
<1>. QED BY <1>1, <1>2, <1>3, <1>4 DEF IInv

(* A request that has not reached its write goes on to another step. *)
LEMMA AdvanceStep ==
    ASSUME IInv, NEW r \in Requests,
           NEW from \in {"mutateFilter", "mutate", "validateFilter", "validate"},
           NEW to \in {"mutate", "validateFilter", "validate", "validateRelease", "write"},
           Advance(r, from, to),
           to = "validate" => reqs[r].new.release = NoRelease \/ IsLegacy(reqs[r].new.release),
           to = "validateRelease" => from = "validate" /\ ChecksHold(reqs[r])
    PROVE  IInv'
<1>1. PICK n \in Request : n = [reqs[r] EXCEPT !.step = to]
  BY DEF IInv, TypeOK, Request, Steps
<1>2. reqs' = [reqs EXCEPT ![r] = n]
  BY <1>1 DEF Advance, IInv, TypeOK, Request
<1>3. RequestOK(n)
  <2>1. RequestOK(reqs[r]) /\ reqs[r].step = from /\ reqs[r] \in Request
    BY DEF IInv, RequestInv, TypeOK, Advance
  <2>2. /\ n.step = to /\ n.kind = reqs[r].kind /\ n.old = reqs[r].old
        /\ n.new = reqs[r].new /\ n.stale = reqs[r].stale
        /\ n.checked = reqs[r].checked
    BY <1>1, <2>1 DEF Request
  <2>. QED BY <2>1, <2>2 DEF RequestOK, ChecksHold
<1>. QED BY <1>2, <1>3, RequestStep DEF Advance

(* A request ends without a write. *)
LEMMA DenyStep ==
    ASSUME IInv, NEW r \in Requests, NEW from \in Steps, Deny(r, from)
    PROVE  IInv'
<1>1. RequestOK(Done)
  BY DEF RequestOK, Done, Idle
<1>2. PICK n \in Request : n = Done
  BY IdleType
<1>. QED BY <1>1, <1>2, RequestStep DEF Deny

(* The API server accepts a request. *)
LEMMA SubmitStep ==
    ASSUME IInv, NEW r \in Requests, NEW k \in Kinds, NEW o \in Proposals, NEW b \in BOOLEAN,
           Submit(r, k, o, b)
    PROVE  IInv'
<1>1. PICK old \in Object : old = store[k]
  BY DEF IInv, TypeOK
<1>2. PICK new \in Object :
         new = [o EXCEPT !.deleting  = old.deleting,
                         !.creating  = IF b THEN @ ELSE old.creating,
                         !.upgrading = IF b THEN @ ELSE old.upgrading]
  BY <1>1, UpgradeAssumption DEF Object
<1>3. PICK n \in Request :
         n = [Idle EXCEPT !.step = "mutateFilter", !.kind = k, !.old = old, !.new = new]
  BY <1>1, <1>2, IdleType DEF Request, Steps
<1>4. reqs' = [reqs EXCEPT ![r] = n]
  BY <1>1, <1>2, <1>3 DEF Submit
<1>5. RequestOK(n)
  <2>1. /\ n.step = "mutateFilter" /\ n.kind = k /\ n.old = old
        /\ ~n.checked
    BY <1>3 DEF Idle
  <2>. QED BY <2>1, <1>1 DEF RequestOK
<1>. QED BY <1>4, <1>5, RequestStep DEF Submit

(* OnUpdateMutate patches the operator labels. *)
LEMMA MutateStep ==
    ASSUME IInv, NEW r \in Requests, OnUpdateMutate(r)
    PROVE  IInv'
<1>0. reqs[r] \in Request /\ RequestOK(reqs[r]) /\ reqs[r].step = "mutate"
  BY DEF IInv, RequestInv, TypeOK, OnUpdateMutate
<1>1. reqs[r].new \in Object /\ reqs[r].new.release \in Versions
  BY <1>0 DEF Request, Object, Release, OnUpdateMutate, ComponentsFound
<1>2. PICK c \in [azureOp : Labels, clusterOp : Labels] : c = Component[reqs[r].new.release]
  BY <1>1, UpgradeAssumption
<1>3. PICK new \in Object :
         new = [reqs[r].new EXCEPT !.azureOp = c.azureOp, !.clusterOp = c.clusterOp]
  BY <1>1, <1>2 DEF Object
<1>4. PICK n \in Request :
         n = [reqs[r] EXCEPT !.step = "validateFilter", !.new = new]
  BY <1>0, <1>3 DEF Request, Steps
<1>5. reqs' = [reqs EXCEPT ![r] = n]
  <2>1. new = EnsureComponentVersionLabels(reqs[r].new)
    BY <1>2, <1>3 DEF EnsureComponentVersionLabels
  <2>. QED BY <1>4, <2>1 DEF OnUpdateMutate
<1>6. RequestOK(n)
  <2>1. /\ n.step = "validateFilter" /\ n.kind = reqs[r].kind /\ n.old = reqs[r].old
        /\ n.new = new /\ n.stale = reqs[r].stale /\ n.checked = reqs[r].checked
    BY <1>0, <1>4 DEF Request
  <2>. QED BY <1>0, <2>1 DEF RequestOK
<1>. QED BY <1>5, <1>6, RequestStep DEF OnUpdateMutate

(* Validate in a state of the invariant allows only moves that stay allowed
   whatever happens to the Release CRs.                                    *)
LEMMA ValidateAllowsMove ==
    ASSUME IInv, NEW old \in Versions, NEW new \in Versions, Validate(releases, old, new)
    PROVE  AllowedMove(old, new)
<1>1. releases \in Listing(Versions) /\ old \in Semver /\ new \in Semver
  BY CatalogAssumption DEF IInv, TypeOK, CatalogTypeOK
<1>2. releases.ignored \subseteq everIgnored /\ \A v \in settled : Active(releases, v)
  BY DEF IInv, CatalogInv
<1>. QED BY <1>1, <1>2, CatalogAssumption, ValidateFollowsLines DEF AllowedMove

(* OnUpdateValidate up to validateRelease. *)
LEMMA ValidateStep ==
    ASSUME IInv, NEW r \in Requests, OnUpdateValidate(r)
    PROVE  IInv'
<1>0. reqs[r] \in Request
  BY DEF IInv, TypeOK
<1>1. CASE Advance(r, "validate", "write")
  BY <1>1, AdvanceStep
<1>2. CASE Deny(r, "validate")
  BY <1>2, DenyStep DEF Steps
<1>3. CASE ChecksPass(r) /\ Advance(r, "validate", "validateRelease")
  <2>1. CASE reqs[r].kind = "Cluster"
    <3>1. ValidateClusterConditions(reqs[r].old, reqs[r].new)
      BY <1>3, <2>1 DEF ChecksPass, ClusterChecks
    <3>2. ASSUME reqs[r].new.target # NoRelease PROVE TargetNewer(reqs[r].new)
      <4>1. /\ reqs[r].new.release # NoRelease
            /\ Validate(releases, reqs[r].new.release, reqs[r].new.target)
            /\ reqs[r].new.release # reqs[r].new.target
        BY <1>3, <2>1, <3>2 DEF ChecksPass, ClusterChecks, ValidateClusterAnnotationUpgradeRelease
      <4>2. reqs[r].new.release \in Versions /\ reqs[r].new.target \in Versions
        BY <1>0, <3>2, <4>1 DEF Request, Object, Release
      <4>3. AllowedMove(reqs[r].new.release, reqs[r].new.target)
        BY <4>1, <4>2, ValidateAllowsMove
      <4>. QED BY <4>1, <4>3 DEF AllowedMove, TargetNewer
    <3>3. TargetNewer(reqs[r].new)
      BY <3>2 DEF TargetNewer
    <3>. QED BY <1>3, <2>1, <3>1, <3>3, AdvanceStep DEF ChecksHold
  <2>2. CASE reqs[r].kind # "Cluster"
    <3>1. ChecksHold(reqs[r])
      BY <1>3, <2>2 DEF ChecksPass, AzureClusterChecks, GetOwnerCluster, ChecksHold, IInv, StoreInv
    <3>. QED BY <1>3, <3>1, AdvanceStep
  <2>. QED BY <2>1, <2>2
<1>. QED BY <1>1, <1>2, <1>3 DEF OnUpdateValidate

(* validateRelease of either kind. *)
LEMMA ValidateReleaseStep ==
    ASSUME IInv, NEW r \in Requests, ValidateRelease(r)
    PROVE  IInv'
<1>1. CASE Deny(r, "validateRelease")
  BY <1>1, DenyStep DEF Steps
<1>2. CASE /\ reqs[r].step = "validateRelease"
           /\ ReleasePasses(r)
           /\ reqs' = [reqs EXCEPT ![r] = [@ EXCEPT !.step = "write", !.checked = TRUE]]
           /\ UNCHANGED <<releases, moves, store, cached, historyVars>>
  <2>1. reqs[r] \in Request /\ RequestOK(reqs[r]) /\ ChecksHold(reqs[r])
    BY <1>2 DEF IInv, TypeOK, RequestInv, RequestOK
  <2>2. PICK n \in Request : n = [reqs[r] EXCEPT !.step = "write", !.checked = TRUE]
    BY <2>1 DEF Request, Steps
  <2>3. reqs' = [reqs EXCEPT ![r] = n]
    BY <1>2, <2>2
  <2>4. /\ n.step = "write" /\ n.kind = reqs[r].kind /\ n.old = reqs[r].old
        /\ n.new = reqs[r].new /\ n.stale = reqs[r].stale
    BY <2>1, <2>2 DEF Request
  <2>5. /\ reqs[r].old.release # NoRelease /\ reqs[r].new.release # NoRelease
        /\ Validate(releases, reqs[r].old.release, reqs[r].new.release)
        /\ (reqs[r].kind = "Cluster" /\ reqs[r].old.release # reqs[r].new.release)
           => reqs[r].old.creating # "True" /\ reqs[r].old.upgrading # "True"
    BY <1>2, <2>1 DEF ReleasePasses, ClusterValidateRelease, AzureClusterValidateRelease, ChecksHold
  <2>6. reqs[r].old.release \in Versions /\ reqs[r].new.release \in Versions
    BY <2>1, <2>5 DEF Request, Object, Release
  <2>7. AllowedMove(reqs[r].old.release, reqs[r].new.release)
    BY <2>5, <2>6, ValidateAllowsMove
  <2>8. ReleaseHolds(reqs[r])
    BY <2>5, <2>7 DEF ReleaseHolds
  <2>9. RequestOK(n)
    BY <1>2, <2>1, <2>4, <2>8 DEF RequestOK, ChecksHold, ReleaseHolds
  <2>. QED BY <1>2, <2>3, <2>9, RequestStep
<1>. QED BY <1>1, <1>2 DEF ValidateRelease

-----------------------------------------------------------------------------
(* A request that read the object before a write of it can only end in a
   conflict; the requests for the other object are not touched.            *)
LEMMA OutdatedRequests ==
    ASSUME IInv, NEW k \in Kinds, NEW q \in Requests
    PROVE  /\ Outdated(k)[q] \in Request
           /\ reqs[q].step \in {"idle", "done"} => Outdated(k)[q].step \in {"idle", "done"}
           /\ reqs[q].step \notin {"idle", "done"} =>
                 /\ Outdated(k)[q].step = reqs[q].step
                 /\ Outdated(k)[q].kind = reqs[q].kind
                 /\ Outdated(k)[q].old = reqs[q].old
                 /\ Outdated(k)[q].new = reqs[q].new
                 /\ Outdated(k)[q].checked = reqs[q].checked
                 /\ reqs[q].kind = k => Outdated(k)[q].stale
                 /\ reqs[q].kind # k => Outdated(k)[q].stale = reqs[q].stale
<1>1. reqs[q] \in Request
  BY DEF IInv, TypeOK
<1>2. CASE reqs[q].step \notin {"idle", "done"} /\ reqs[q].kind = k
  <2>1. Outdated(k)[q] = [reqs[q] EXCEPT !.stale = TRUE]
    BY <1>2 DEF Outdated
  <2>. QED BY <1>1, <1>2, <2>1 DEF Request
<1>3. CASE ~(reqs[q].step \notin {"idle", "done"} /\ reqs[q].kind = k)
  <2>1. Outdated(k)[q] = reqs[q]
    BY <1>3 DEF Outdated
  <2>. QED BY <1>1, <1>3, <2>1
<1>. QED BY <1>2, <1>3

(* A write of either object, by a request or by someone else, preserves the
   invariant of the other requests.                                        *)
LEMMA StoredStep ==
    ASSUME IInv, NEW k \in Kinds, NEW o \in Object, Stored(k, o),
           reqs' \in [Requests -> Request],
           \A q \in Requests : reqs'[q].step = "done" \/ reqs'[q] = Outdated(k)[q],
           UNCHANGED <<releases, cached, everIgnored, settled>>,
           moves' \in 0 .. MaxMoves,
           unchecked' \subseteq Kinds, reported' \in Status
    PROVE  TypeOK' /\ CatalogInv' /\ RequestInv'
<1>1. TypeOK'
  <2>1. store' \in [Kinds -> Object]
    BY DEF Stored, IInv, TypeOK
  <2>2. history' \subseteq Release
    BY DEF Stored, IInv, TypeOK, Object
  <2>. QED BY <2>1, <2>2 DEF IInv, TypeOK, CatalogTypeOK
<1>2. CatalogInv'
  BY Zenon DEF IInv, CatalogInv, Active, isAlphaRelease
<1>3. RequestInv'
  <2> SUFFICES ASSUME NEW q \in Requests PROVE RequestOK(reqs[q])'
    BY DEF RequestInv
  <2>1. CASE reqs'[q].step \in {"idle", "done"}
    BY <2>1 DEF RequestOK
  <2>2. CASE reqs'[q].step \notin {"idle", "done"} /\ reqs'[q] = Outdated(k)[q]
    <3>1. PICK m \in Request : m = reqs'[q]
      OBVIOUS
    <3>2. RequestOK(reqs[q]) /\ reqs[q] \in Request
      BY DEF IInv, RequestInv, TypeOK
    <3>3. /\ m.step \notin {"idle", "done"} /\ reqs[q].step \notin {"idle", "done"}
          /\ m.step = reqs[q].step /\ m.kind = reqs[q].kind /\ m.old = reqs[q].old
          /\ m.new = reqs[q].new /\ m.checked = reqs[q].checked
          /\ reqs[q].kind = k => m.stale
          /\ reqs[q].kind # k => m.stale = reqs[q].stale
      BY <2>2, <3>1, OutdatedRequests
    <3>4. ~m.stale => m.old = store'[m.kind]
      <4>1. m.kind # k => store'[m.kind] = store[m.kind]
        BY <3>1 DEF Stored, IInv, TypeOK, Request
      <4>. QED BY <3>2, <3>3, <4>1 DEF RequestOK
    <3>5. history \subseteq history'
      BY DEF Stored
    <3>6. ChecksHold(reqs[q]) => ChecksHold(m)'
      BY <3>3, <3>5 DEF ChecksHold, TargetNewer
    <3>7. ReleaseHolds(reqs[q]) => ReleaseHolds(m)'
      BY <3>3 DEF ReleaseHolds, AllowedMove
    <3>8. RequestOK(m)'
      BY <3>2, <3>3, <3>4, <3>6, <3>7 DEF RequestOK
    <3>. QED BY <3>1, <3>8 DEF RequestOK, ChecksHold, ReleaseHolds,
                              TargetNewer, AllowedMove
  <2>3. reqs'[q].step = "done" \/ reqs'[q] = Outdated(k)[q]
    OBVIOUS
  <2>. QED BY <2>1, <2>2, <2>3
<1>. QED BY <1>1, <1>2, <1>3

(* A write that leaves release and target as they are, and a creation that
   is over too.                                                            *)
LEMMA OtherFieldsStep ==
    ASSUME IInv, NEW k \in Kinds, NEW o \in Object, Stored(k, o), reqs' = Outdated(k), CountMove,
           o.release = store[k].release, o.target = store[k].target,
           reported' \in Status,
           k = "Cluster" => \/ o.creating = reported'
                            \/ o.creating = store[k].creating /\ reported' = reported,
           k # "Cluster" => reported' = reported,
           UNCHANGED <<releases, cached, unchecked, everIgnored, settled>>
    PROVE  IInv'
<1>1. \A q \in Requests : Outdated(k)[q] \in Request
  BY OutdatedRequests
<1>2. reqs' \in [Requests -> Request]
  BY <1>1 DEF Outdated
<1>3. moves' \in 0 .. MaxMoves
  BY CatalogAssumption DEF CountMove, IInv, TypeOK, CatalogTypeOK
<1>4. TypeOK' /\ CatalogInv' /\ RequestInv'
  BY <1>2, <1>3, StoredStep DEF IInv, TypeOK
<1>5. store' = [store EXCEPT ![k] = o] /\ store \in [Kinds -> Object]
  BY DEF Stored, IInv, TypeOK
<1>6. \A j \in Kinds : /\ store'[j].release = store[j].release
                       /\ store'[j].target = store[j].target
  BY <1>5
<1>7. history' = history
  BY DEF Stored, IInv, StoreInv
<1>8. CreationStaysOver'
  BY <1>5 DEF IInv, StoreInv, CreationStaysOver, Kinds
<1>9. StoreInv'
  BY <1>6, <1>7, <1>8 DEF IInv, StoreInv, TargetNewer, Kinds
<1>. QED BY <1>4, <1>9 DEF IInv

(* A DELETE request sets the deletion timestamp, nothing else. *)
LEMMA DeleteStep ==
    ASSUME IInv, NEW k \in Kinds, Delete(k)
    PROVE  IInv'
<1>1. PICK o \in Object : o = [store[k] EXCEPT !.deleting = TRUE]
  BY DEF IInv, TypeOK, Object
<1>2. /\ o.release = store[k].release /\ o.target = store[k].target
      /\ o.creating = store[k].creating
  BY <1>1 DEF IInv, TypeOK, Object
<1>3. reported' = reported /\ reported \in Status
  BY DEF Delete, IInv, TypeOK
<1>. QED BY <1>1, <1>2, <1>3, OtherFieldsStep DEF Delete

(* A report of the operator changes the conditions, nothing else. *)
LEMMA ReportStep ==
    ASSUME IInv, NEW c \in Reports, NEW u \in Reports, OperatorReports(c, u)
    PROVE  IInv'
<1>0. "Cluster" \in Kinds /\ c \in Status /\ u \in Status
  BY UpgradeAssumption DEF Kinds
<1>1. PICK o \in Object : o = [store["Cluster"] EXCEPT !.creating = c, !.upgrading = u]
  BY <1>0 DEF IInv, TypeOK, Object
<1>2. /\ o.release = store["Cluster"].release /\ o.target = store["Cluster"].target
      /\ o.creating = c
  BY <1>0, <1>1 DEF IInv, TypeOK, Object
<1>. QED BY <1>0, <1>1, <1>2, OtherFieldsStep DEF OperatorReports

(* What a request that is written has established. *)
LEMMA WriteEffect ==
    ASSUME IInv, NEW r \in Requests, Write(r)
    PROVE  /\ reqs[r] \in Request /\ reqs[r].new \in Object /\ reqs[r].kind \in Kinds
           /\ store' = [store EXCEPT ![reqs[r].kind] = reqs[r].new]
           /\ reqs[r].old = store[reqs[r].kind]
           /\ reqs[r].checked => ChecksHold(reqs[r]) /\ ReleaseHolds(reqs[r])
BY DEF Write, Stored, IInv, TypeOK, RequestInv, RequestOK, Request

(* The write of an admitted request, validated or let through. *)
LEMMA WriteStep ==
    ASSUME IInv, NEW r \in Requests, Write(r)
    PROVE  IInv'
<1>1. PICK k \in Kinds, o \in Object : k = reqs[r].kind /\ o = reqs[r].new
  BY WriteEffect
<1>2. Stored(k, o)
  BY <1>1 DEF Write
<1>3. reqs' \in [Requests -> Request]
  <2>1. \A q \in Requests : Outdated(k)[q] \in Request
    BY OutdatedRequests
  <2>2. Outdated(k) \in [Requests -> Request]
    BY <2>1 DEF Outdated
  <2>. QED BY <1>1, <2>2, IdleType DEF Write
<1>4. \A q \in Requests : reqs'[q].step = "done" \/ reqs'[q] = Outdated(k)[q]
  <2>1. Done.step = "done"
    BY DEF Done, Idle
  <2>2. Outdated(k) = [q \in Requests |-> Outdated(k)[q]]
    BY DEF Outdated
  <2>. QED BY <1>1, <2>1, <2>2 DEF Write
<1>5. unchecked' \subseteq Kinds /\ reported' \in Status
  BY <1>1 DEF Write, IInv, TypeOK
<1>6. TypeOK' /\ CatalogInv' /\ RequestInv'
  BY <1>2, <1>3, <1>4, <1>5, StoredStep DEF Write, IInv, TypeOK, CatalogTypeOK
<1>7. StoreInv'
  <2>0. /\ store \in [Kinds -> Object] /\ store' = [store EXCEPT ![k] = o]
        /\ history \subseteq Release
    BY <1>2 DEF Stored, IInv, TypeOK
  <2>1. store'["Cluster"].release \in history'
    BY <1>2, <2>0 DEF Stored, IInv, StoreInv, Kinds
  <2>2. CreationStaysOver'
    <3>1. CASE k = "Cluster"
      <4>. SUFFICES ASSUME "Cluster" \notin unchecked', reported' = "False"
                    PROVE  store'["Cluster"].creating = "False"
        BY DEF CreationStaysOver
      <4>1. /\ "Cluster" \notin unchecked /\ reported = "False"
            /\ ChecksHold(reqs[r]) /\ reqs[r].old = store["Cluster"]
        BY <1>1, <3>1, WriteEffect DEF Write
      <4>2. ValidateClusterConditions(store["Cluster"], o) /\ store["Cluster"].creating = "False"
        BY <1>1, <3>1, <4>1 DEF ChecksHold, IInv, StoreInv, CreationStaysOver
      <4>3. o.creating = "False"
        BY <4>2 DEF ValidateClusterConditions, ConditionChangeAllowed, Object, Status
      <4>. QED BY <2>0, <3>1, <4>3
    <3>2. CASE k # "Cluster"
      BY <1>1, <2>0, <3>2 DEF Write, IInv, StoreInv, CreationStaysOver, Kinds
    <3>. QED BY <3>1, <3>2
  <2>3. ASSUME "Cluster" \notin unchecked'
        PROVE  store'["Cluster"].release # NoRelease /\ TargetNewer(store["Cluster"])'
    <3>1. CASE k = "Cluster"
      <4>1. ChecksHold(reqs[r]) /\ ReleaseHolds(reqs[r])
        BY <1>1, <2>3, <3>1, WriteEffect DEF Write
      <4>2. TargetNewer(o) /\ o.release # NoRelease
        BY <1>1, <3>1, <4>1 DEF ChecksHold, ReleaseHolds
      <4>3. store'["Cluster"] = o
        BY <2>0, <3>1
      <4>. QED BY <4>2, <4>3 DEF TargetNewer, Write
    <3>2. CASE k # "Cluster"
      BY <1>1, <2>0, <2>3, <3>2 DEF Write, IInv, StoreInv, TargetNewer, Kinds
    <3>. QED BY <3>1, <3>2
  <2>4. ASSUME "AzureCluster" \notin unchecked'
        PROVE  store'["AzureCluster"].release \in history' \ {NoRelease}
    <3>1. "AzureCluster" \notin unchecked
      BY <2>4 DEF Write
    <3>2. CASE k = "AzureCluster"
      <4>1. ChecksHold(reqs[r]) /\ reqs[r].old = store["AzureCluster"]
        BY <1>1, <2>4, <3>2, WriteEffect DEF Write
      <4>2. /\ o.release # NoRelease
            /\ store["AzureCluster"].release = o.release \/ o.release \in history
        BY <1>1, <3>2, <4>1 DEF ChecksHold
      <4>. QED BY <1>2, <2>0, <3>1, <3>2, <4>2 DEF IInv, StoreInv, Stored
    <3>3. CASE k # "AzureCluster"
      BY <1>2, <2>0, <3>1, <3>3 DEF IInv, StoreInv, Stored, Kinds
    <3>. QED BY <3>2, <3>3
  <2>5. ASSUME unchecked' = {} /\ everIgnored' = {}, NEW h \in history' \ {NoRelease}
        PROVE  ~LT(store'["Cluster"].release, h)
    <3>1. unchecked = {} /\ everIgnored = {} /\ reqs[r].checked
      BY <2>5 DEF Write
    <3>2. CASE k # "Cluster"
      BY <1>2, <2>0, <3>1, <3>2 DEF IInv, StoreInv, Stored, Kinds
    <3>3. CASE k = "Cluster"
      <4>1. ReleaseHolds(reqs[r]) /\ reqs[r].old = store["Cluster"]
        BY <1>1, <3>1, <3>3, WriteEffect
      <4>2. PICK old, new : old = store["Cluster"].release /\ new = o.release
        OBVIOUS
      <4>3. /\ old # NoRelease /\ new # NoRelease
            /\ old = new \/ LT(old, new)
        BY <1>1, <3>1, <4>1, <4>2 DEF ReleaseHolds, AllowedMove
      <4>4. old \in Semver /\ new \in Semver
        BY <2>0, <3>3, <4>2, <4>3, CatalogAssumption DEF Object, Release
      <4>5. store'["Cluster"].release = new /\ h \in history \cup {new} /\ h # NoRelease
        BY <1>2, <2>0, <2>5, <3>3, <4>2 DEF Stored
      <4>6. CASE h = new
        BY <4>4, <4>5, <4>6, LTAsymmetric
      <4>7. CASE h \in history
        <5>1. h \in Semver
          BY <2>0, <4>5, <4>7, CatalogAssumption DEF Release
        <5>2. ~LT(old, h)
          BY <3>1, <4>2, <4>5, <4>7 DEF IInv, StoreInv
        <5>. QED BY <4>3, <4>4, <4>5, <5>1, <5>2, LTTransitive
      <4>. QED BY <4>5, <4>6, <4>7
    <3>. QED BY <3>2, <3>3
  <2>. QED BY <2>1, <2>2, <2>3, <2>4, <2>5 DEF StoreInv
<1>. QED BY <1>6, <1>7 DEF IInv

(* An edit of a Release CR: versions only leave settled and only enter
   everIgnored, so what the requests established stays true. *)
LEMMA EditStep ==
    ASSUME IInv, EditReleases
    PROVE  IInv'
<1>1. CatalogTypeOK'
  BY CatalogStep DEF EditReleases, IInv, TypeOK
<1>2. everIgnored \subseteq everIgnored' /\ settled' \subseteq settled
  BY DEF EditReleases
<1>3. releases'.ignored \subseteq Versions
  BY <1>1 DEF CatalogTypeOK, Listing
<1>4. TypeOK'
  BY <1>1, <1>2, <1>3 DEF EditReleases, IInv, TypeOK
<1>5. CatalogInv'
  BY DEF EditReleases, CatalogInv, Active
<1>6. RequestInv'
  <2> SUFFICES ASSUME NEW q \in Requests PROVE RequestOK(reqs[q])'
    BY DEF RequestInv
  <2>1. PICK m \in Request : m = reqs[q]
    BY DEF IInv, TypeOK
  <2>2. RequestOK(m)
    BY <2>1 DEF IInv, RequestInv
  <2>3. TargetNewer(m.new) => TargetNewer(m.new)'
    BY <1>2 DEF TargetNewer
  <2>4. ChecksHold(m) => ChecksHold(m)'
    BY <2>3 DEF ChecksHold, EditReleases
  <2>5. ReleaseHolds(m) => ReleaseHolds(m)'
    BY <1>2 DEF ReleaseHolds, AllowedMove
  <2>6. RequestOK(m)'
    BY <2>2, <2>4, <2>5 DEF RequestOK, EditReleases
  <2>7. reqs'[q] = m
    BY <2>1 DEF EditReleases
  <2>. QED BY <2>6, <2>7 DEF RequestOK, ChecksHold, ReleaseHolds,
                            TargetNewer, AllowedMove
<1>7. StoreInv'
  BY <1>2 DEF IInv, StoreInv, EditReleases, CreationStaysOver, TargetNewer
<1>. QED BY <1>4, <1>5, <1>6, <1>7 DEF IInv

(* The informer cache catches up. *)
LEMMA SyncStep ==
    ASSUME IInv, SyncCache
    PROVE  IInv'
<1>1. TypeOK'
  BY DEF SyncCache, IInv, TypeOK, CatalogTypeOK, Listing, historyVars
<1>2. CatalogInv'
  BY Zenon DEF SyncCache, IInv, CatalogInv, historyVars, Active, isAlphaRelease
<1>3. StoreInv'
  BY Zenon DEF SyncCache, IInv, StoreInv, historyVars, CreationStaysOver, TargetNewer
<1>4. RequestInv'
  BY DEF SyncCache, IInv, RequestInv, historyVars, RequestOK, ChecksHold, ReleaseHolds,
         TargetNewer, AllowedMove
<1>. QED BY <1>1, <1>2, <1>3, <1>4 DEF IInv

-----------------------------------------------------------------------------
(* The initial states satisfy the invariant. *)
LEMMA InitInv == Init => IInv
<1> SUFFICES ASSUME Init PROVE IInv
  OBVIOUS
<1>1. PICK v \in Published, w \in Published, f \in Fixed, c \in {"Absent", "True", "False"} :
         /\ Validate(releases, v, w)
         /\ store = [k \in Kinds |->
                        IF k = "Cluster" THEN [CreatedWith(w, f) EXCEPT !.creating = c]
                                         ELSE CreatedWith(v, f)]
         /\ history = {v, w}
  BY DEF Init
<1>2. v \in Versions /\ w \in Versions /\ v # NoRelease /\ w # NoRelease
  BY CatalogAssumption, UpgradeAssumption
<1>3. /\ CreatedWith(v, f) \in Object /\ CreatedWith(v, f).release = v
      /\ CreatedWith(v, f).target = NoRelease
      /\ [CreatedWith(w, f) EXCEPT !.creating = c] \in Object
      /\ [CreatedWith(w, f) EXCEPT !.creating = c].release = w
      /\ [CreatedWith(w, f) EXCEPT !.creating = c].target = NoRelease
  <2>1. Component[v].azureOp \in Labels /\ Component[w].azureOp \in Labels
    BY <1>2, UpgradeAssumption
  <2>2. NoObject \in Object /\ NoObject.target = NoRelease
    BY IdleType DEF NoObject
  <2>. QED BY <1>2, <2>1, <2>2 DEF CreatedWith, Object, Release, Status
<1>4. /\ store \in [Kinds -> Object]
      /\ store["Cluster"].release = w /\ store["Cluster"].target = NoRelease
      /\ store["AzureCluster"].release = v /\ store["Cluster"].creating \in Status
  BY <1>1, <1>3 DEF Kinds, Object
<1>5. TypeOK
  <2>1. CatalogTypeOK
    BY CatalogAssumption DEF Init, CatalogInit, CatalogTypeOK, Listing
  <2>2. reqs \in [Requests -> Request]
    BY IdleType DEF Init
  <2>. QED BY <1>1, <1>2, <1>4, <2>1, <2>2, CatalogAssumption DEF Init, TypeOK, Release
<1>6. CatalogInv
  BY DEF Init, CatalogInit, CatalogInv, Active
<1>7. RequestInv
  BY DEF Init, RequestInv, RequestOK, Idle
<1>8. ~LT(w, v) /\ ~LT(w, w)
  <2>1. v \in Semver /\ w \in Semver /\ releases.ignored = {}
    BY <1>2, CatalogAssumption DEF Init, CatalogInit
  <2>2. v = w \/ ~LT(w, v)
    BY <1>1, <2>1 DEF Validate, isOldOrNewReleaseIgnored, isIgnoredRelease
  <2>. QED BY <2>1, <2>2, LTAsymmetric
<1>9. StoreInv
  BY <1>1, <1>2, <1>4, <1>8 DEF Init, StoreInv, CreationStaysOver, TargetNewer
<1>. QED BY <1>5, <1>6, <1>7, <1>9 DEF IInv

(* Every step preserves the invariant: one case per action. *)
LEMMA NextInv == IInv /\ [Next]_vars => IInv'
<1> SUFFICES ASSUME IInv, [Next]_vars PROVE IInv'
  OBVIOUS
<1>1. ASSUME NEW r \in Requests, NEW k \in Kinds, NEW o \in Proposals, NEW b \in BOOLEAN,
             Submit(r, k, o, b)
      PROVE  IInv'
  BY <1>1, SubmitStep
<1>2. ASSUME NEW r \in Requests, HandleRequest(r) PROVE IInv'
  <2>1. CASE MutateFilter(r)
    <3>1. CASE Advance(r, "mutateFilter", "mutate")
      BY <3>1, AdvanceStep
    <3>2. CASE Advance(r, "mutateFilter", "validateFilter")
      BY <3>2, AdvanceStep
    <3>. QED BY <2>1, <3>1, <3>2 DEF MutateFilter
  <2>2. CASE OnUpdateMutate(r)
    BY <2>2, MutateStep
  <2>3. CASE OnUpdateMutateFails(r)
    BY <2>3, DenyStep DEF OnUpdateMutateFails, Steps
  <2>4. CASE ValidateFilter(r)
    <3>1. CASE /\ IsObjectReconciledByLegacyRelease(reqs[r].new)
               /\ Advance(r, "validateFilter", "validate")
      <4>1. reqs[r].new.release = NoRelease \/ IsLegacy(reqs[r].new.release)
        BY <3>1 DEF IsObjectReconciledByLegacyRelease, ReleaseForObject
      <4>. QED BY <3>1, <4>1, AdvanceStep
    <3>2. CASE Advance(r, "validateFilter", "write")
      BY <3>2, AdvanceStep
    <3>. QED BY <2>4, <3>1, <3>2 DEF ValidateFilter
  <2>5. CASE OnUpdateValidate(r)
    BY <2>5, ValidateStep
  <2>6. CASE ValidateRelease(r)
    BY <2>6, ValidateReleaseStep
  <2>7. CASE OwnerMissing(r) \/ Refuse(r)
    BY <2>7, DenyStep DEF OwnerMissing, Refuse, Steps
  <2>8. CASE Write(r)
    BY <2>8, WriteStep
  <2>9. CASE Conflict(r)
    BY <2>9, DenyStep DEF Conflict, Steps
  <2>. QED BY <1>2, <2>1, <2>2, <2>3, <2>4, <2>5, <2>6, <2>7, <2>8, <2>9 DEF HandleRequest
<1>3. ASSUME NEW k \in Kinds, Delete(k) PROVE IInv'
  BY <1>3, DeleteStep
<1>4. ASSUME NEW c \in Reports, NEW u \in Reports, OperatorReports(c, u) PROVE IInv'
  BY <1>4, ReportStep
<1>5. CASE EditReleases
  BY <1>5, EditStep
<1>6. CASE SyncCache
  BY <1>6, SyncStep
<1>7. CASE UNCHANGED vars
  <2>1. TypeOK'
    BY <1>7 DEF vars, IInv, TypeOK, CatalogTypeOK
  <2>2. CatalogInv'
    BY <1>7, Zenon DEF vars, IInv, CatalogInv, Active, isAlphaRelease
  <2>3. StoreInv'
    BY <1>7, Zenon DEF vars, IInv, StoreInv, CreationStaysOver, TargetNewer
  <2>4. RequestInv'
    BY <1>7 DEF vars, IInv, RequestInv, RequestOK, ChecksHold, ReleaseHolds,
                TargetNewer, AllowedMove
  <2>. QED BY <2>1, <2>2, <2>3, <2>4 DEF IInv
<1>. QED BY <1>1, <1>2, <1>3, <1>4, <1>5, <1>6, <1>7 DEF Next

(* The invariant holds in every reachable state. *)
THEOREM InductiveInvariant == Spec => []IInv
BY InitInv, NextInv, PTL DEF Spec

(* The type invariant. *)
THEOREM TypeCorrect == Spec => []TypeOK
<1>1. IInv => TypeOK
  BY DEF IInv
<1>. QED BY <1>1, InductiveInvariant, PTL

(* A validated AzureCluster carries only releases that its Cluster has or
   had, although the Cluster may move between the comparison and the write. *)
THEOREM FollowsCorrect == Spec => []AzureClusterFollowsCluster
<1>1. IInv => AzureClusterFollowsCluster
  BY DEF IInv, StoreInv, AzureClusterFollowsCluster
<1>. QED BY <1>1, InductiveInvariant, PTL

(* A validated AzureCluster is never on a newer release than its Cluster. *)
THEOREM NeverAheadCorrect == Spec => []AzureClusterNeverAhead
<1>1. IInv => AzureClusterNeverAhead
  BY DEF IInv, StoreInv, AzureClusterNeverAhead
<1>. QED BY <1>1, InductiveInvariant, PTL

(* A creation that the operator reported to be over stays over, whatever
   validated clients do with the condition.                                *)
THEOREM CreationCorrect == Spec => []CreationStaysOver
<1>1. IInv => CreationStaysOver
  BY DEF IInv, StoreInv
<1>. QED BY <1>1, InductiveInvariant, PTL

(* A validated Cluster has not reached its scheduled target. *)
THEOREM ScheduleCorrect == Spec => []ScheduledTargetIsNewer
<1>1. IInv => ScheduledTargetIsNewer
  BY DEF IInv, StoreInv, TargetNewer, ScheduledTargetIsNewer
<1>. QED BY <1>1, InductiveInvariant, PTL

-----------------------------------------------------------------------------
(* Only three actions write an object. *)
LEMMA StoreChanges ==
    ASSUME [Next]_vars
    PROVE  \/ store' = store
           \/ \E r \in Requests : Write(r)
           \/ \E k \in Kinds : Delete(k)
           \/ \E c, u \in Reports : OperatorReports(c, u)
BY Zenon DEF Next, vars, HandleRequest, Submit, MutateFilter, OnUpdateMutate, OnUpdateMutateFails,
   ValidateFilter, OnUpdateValidate, ValidateRelease, OwnerMissing, Refuse, Conflict, Advance, Deny,
   EditReleases, SyncCache

(* Neither a deletion nor a report changes a release. *)
LEMMA DeleteEffect ==
    ASSUME IInv, NEW k \in Kinds, Delete(k)
    PROVE  \A j \in Kinds : store'[j].release = store[j].release
BY DEF Delete, Stored, IInv, TypeOK, Object

(* The same for a report. *)
LEMMA ReportEffect ==
    ASSUME IInv, NEW c \in Reports, NEW u \in Reports, OperatorReports(c, u)
    PROVE  \A j \in Kinds : store'[j].release = store[j].release
BY DEF OperatorReports, Stored, IInv, TypeOK, Object, Kinds

(* The release of a validated Cluster does not change while a creation or an
   upgrade is reported.                                                    *)
THEOREM SettledCorrect == Spec => UpgradeOnlyWhenSettled
<1> DEFINE P == ("Cluster" \notin unchecked' /\ store'["Cluster"].release # store["Cluster"].release)
                => store["Cluster"].creating # "True" /\ store["Cluster"].upgrading # "True"
<1>1. IInv /\ [Next]_vars => [P]_vars
  <2> SUFFICES ASSUME IInv, [Next]_vars, "Cluster" \notin unchecked',
                      store'["Cluster"].release # store["Cluster"].release
               PROVE  store["Cluster"].creating # "True" /\ store["Cluster"].upgrading # "True"
    OBVIOUS
  <2>0. "Cluster" \in Kinds
    BY DEF Kinds
  <2>1. PICK r \in Requests : Write(r)
    BY <2>0, StoreChanges, DeleteEffect, ReportEffect
  <2>2. reqs[r].kind = "Cluster" /\ reqs[r].checked
    <3>1. reqs[r].kind = "Cluster"
      BY <2>0, <2>1, WriteEffect DEF IInv, TypeOK
    <3>. QED BY <2>1, <3>1 DEF Write
  <2>3. reqs[r].old = store["Cluster"] /\ reqs[r].new = store'["Cluster"] /\ ReleaseHolds(reqs[r])
    BY <2>0, <2>1, <2>2, WriteEffect DEF IInv, TypeOK
  <2>. QED BY <2>2, <2>3 DEF ReleaseHolds
<1>. QED BY <1>1, InductiveInvariant, PTL DEF Spec, UpgradeOnlyWhenSettled

(* A validated move goes forward and leaves out no line that was active all
   the time.                                                               *)
THEOREM LinesCorrect == Spec => UpgradesFollowLines
<1> DEFINE P == \A k \in Kinds \ unchecked' :
                   LET old == store[k].release
                       new == store'[k].release
                   IN  (old # new /\ old \notin everIgnored /\ new \notin everIgnored)
                       => /\ LT(old, new)
                          /\ ~\E v \in settled : LineBefore(old, v) /\ LineBefore(v, new)
<1>1. IInv /\ [Next]_vars => [P]_vars
  <2> SUFFICES ASSUME IInv, [Next]_vars, NEW k \in Kinds \ unchecked',
                      store[k].release # store'[k].release,
                      store[k].release \notin everIgnored, store'[k].release \notin everIgnored
               PROVE  /\ LT(store[k].release, store'[k].release)
                      /\ ~\E v \in settled : /\ LineBefore(store[k].release, v)
                                             /\ LineBefore(v, store'[k].release)
    BY Zenon
  <2>1. PICK r \in Requests : Write(r)
    BY StoreChanges, DeleteEffect, ReportEffect
  <2>2. reqs[r].kind = k /\ reqs[r].checked
    BY <2>1, WriteEffect DEF Write, IInv, TypeOK
  <2>3. reqs[r].old = store[k] /\ reqs[r].new = store'[k] /\ ReleaseHolds(reqs[r])
    BY <2>1, <2>2, WriteEffect DEF IInv, TypeOK
  <2>. QED BY <2>3 DEF ReleaseHolds, AllowedMove
<1>. QED BY <1>1, InductiveInvariant, PTL DEF Spec, UpgradesFollowLines

-----------------------------------------------------------------------------
(* ClusterUpgrade implements ReleasePath *)

(* The exemptions last, and whatever is no write of a request leaves the
   releases and their history alone.                                       *)
LEMMA OnlyWritesMove ==
    ASSUME IInv, [Next]_vars
    PROVE  /\ unchecked \subseteq unchecked' /\ everIgnored \subseteq everIgnored'
           /\ \/ \E r \in Requests : Write(r)
              \/ /\ \A j \in Kinds : store'[j].release = store[j].release
                 /\ history' = history
<1>1. CASE \E r \in Requests : Write(r)
  BY <1>1 DEF Write
<1>2. ASSUME NEW k \in Kinds, Delete(k)
      PROVE  /\ unchecked' = unchecked /\ everIgnored' = everIgnored
             /\ \A j \in Kinds : store'[j].release = store[j].release
             /\ history' = history
  <2>1. /\ Stored(k, [store[k] EXCEPT !.deleting = TRUE])
        /\ UNCHANGED <<unchecked, everIgnored>>
    BY <1>2 DEF Delete
  <2>2. [store[k] EXCEPT !.deleting = TRUE].release = store[k].release
    BY DEF IInv, TypeOK, Object
  <2>3. history' = history
    BY <2>1, <2>2 DEF Stored, IInv, StoreInv
  <2>. QED BY <1>2, <2>1, <2>3, DeleteEffect
<1>3. ASSUME NEW c \in Reports, NEW u \in Reports, OperatorReports(c, u)
      PROVE  /\ unchecked' = unchecked /\ everIgnored' = everIgnored
             /\ \A j \in Kinds : store'[j].release = store[j].release
             /\ history' = history
  <2>1. /\ Stored("Cluster", [store["Cluster"] EXCEPT !.creating = c, !.upgrading = u])
        /\ UNCHANGED <<unchecked, everIgnored>>
    BY <1>3 DEF OperatorReports
  <2>2. [store["Cluster"] EXCEPT !.creating = c, !.upgrading = u].release
        = store["Cluster"].release
    BY DEF IInv, TypeOK, Object, Kinds
  <2>3. history' = history
    BY <2>1, <2>2 DEF Stored, IInv, StoreInv
  <2>. QED BY <1>3, <2>1, <2>3, ReportEffect
<1>4. CASE EditReleases
  BY <1>4 DEF EditReleases
<1>5. CASE /\ ~\E r \in Requests : Write(r)
           /\ ~\E k \in Kinds : Delete(k)
           /\ ~\E c, u \in Reports : OperatorReports(c, u)
           /\ ~EditReleases
  <2>1. UNCHANGED <<store, history, unchecked, everIgnored>>
    BY <1>5, Zenon DEF Next, vars, historyVars, HandleRequest, Submit, MutateFilter,
       OnUpdateMutate, OnUpdateMutateFails, ValidateFilter, OnUpdateValidate, ValidateRelease,
       OwnerMissing, Refuse, Conflict, Advance, Deny, SyncCache
  <2>. QED BY <2>1
<1>. QED BY <1>1, <1>2, <1>3, <1>4, <1>5

(* A checked write of an object, while nothing is exempt: its release stays,
   or is a legacy one that is newer.                                       *)
LEMMA CheckedMove ==
    ASSUME IInv, NEW r \in Requests, Write(r), reqs[r].checked, everIgnored = {}
    PROVE  LET old == store[reqs[r].kind].release
               new == reqs[r].new.release
           IN  /\ old \in Versions /\ new \in Versions /\ IsLegacy(new)
               /\ old = new \/ LT(old, new)
<1>1. /\ reqs[r] \in Request /\ reqs[r].old = store[reqs[r].kind]
      /\ ReleaseHolds(reqs[r]) /\ reqs[r].new \in Object
  BY WriteEffect
<1>2. reqs[r].old \in Object
  BY <1>1 DEF Request
<1>3. reqs[r].new.release # NoRelease /\ reqs[r].old.release # NoRelease
  BY <1>1 DEF ReleaseHolds
<1>4. IsLegacy(reqs[r].new.release)
  BY <1>3 DEF IInv, RequestInv, RequestOK, Write
<1>5. reqs[r].old.release = reqs[r].new.release \/ LT(reqs[r].old.release, reqs[r].new.release)
  BY <1>1 DEF ReleaseHolds, AllowedMove
<1>. QED BY <1>1, <1>2, <1>3, <1>4, <1>5 DEF Object, Release

(* The two kinds of updates keep the promise of ReleasePath, for any number of
   requests, whatever is read at whatever moment.                          *)
THEOREM PathCorrect == Spec => ImplementsReleasePath
<1>1. Init => Path!Init
  <2>. SUFFICES ASSUME Init PROVE Path!Init
    OBVIOUS
  <2>1. PICK v \in Published, w \in Published, f \in Fixed, c \in {"Absent", "True", "False"} :
           /\ IsLegacy(v) /\ IsLegacy(w)
           /\ Validate(releases, v, w)
           /\ store = [k \in Kinds |->
                          IF k = "Cluster" THEN [CreatedWith(w, f) EXCEPT !.creating = c]
                                           ELSE CreatedWith(v, f)]
           /\ history = {v, w}
    BY DEF Init
  <2>2. v \in Versions /\ w \in Versions /\ v \in Semver /\ w \in Semver
    BY CatalogAssumption
  <2>3. /\ CreatedWith(v, f).release = v
        /\ [CreatedWith(w, f) EXCEPT !.creating = c].release = w
    BY DEF CreatedWith, NoObject
  <2>4. store["Cluster"].release = w /\ store["AzureCluster"].release = v
    BY <2>1, <2>3 DEF Kinds
  <2>5. v = w \/ LT(v, w)
    <3>1. releases.ignored = {}
      BY DEF Init, CatalogInit
    <3>2. v = w \/ ~LT(w, v)
      BY <2>1, <3>1 DEF Validate, isOldOrNewReleaseIgnored, isIgnoredRelease
    <3>. QED BY <2>2, <3>2, LTTotal
  <2>6. unchecked = {} /\ everIgnored = {}
    BY DEF Init
  <2>. QED BY <2>1, <2>2, <2>4, <2>5, <2>6 DEF Path!Init, Before
<1>2. IInv /\ [Next]_vars => [Path!Next]_(Path!vars)
  <2>. SUFFICES ASSUME IInv, [Next]_vars PROVE [Path!Next]_(Path!vars)
    OBVIOUS
  <2>0. "Cluster" \in Kinds /\ "AzureCluster" \in Kinds /\ store \in [Kinds -> Object]
    BY DEF Kinds, IInv, TypeOK
  <2>1. CASE (unchecked # {} \/ everIgnored # {})'
    BY <2>1 DEF Path!Next
  <2>2. CASE unchecked' = {} /\ everIgnored' = {}
    <3>1. unchecked = {} /\ everIgnored = {}
      BY <2>2, OnlyWritesMove
    <3>2. CASE ~\E r \in Requests : Write(r)
      BY <2>0, <2>2, <3>1, <3>2, OnlyWritesMove DEF Path!vars
    <3>3. ASSUME NEW r \in Requests, Write(r) PROVE [Path!Next]_(Path!vars)
      <4>1. PICK k \in Kinds, o \in Object : k = reqs[r].kind /\ o = reqs[r].new
        BY <3>3, WriteEffect
      <4>2. reqs[r].checked
        BY <2>2, <3>3, <4>1 DEF Write
      <4>3. PICK u, v \in Versions : /\ u = store[k].release /\ v = o.release
                                     /\ IsLegacy(v)
                                     /\ u = v \/ LT(u, v)
        BY <3>1, <3>3, <4>1, <4>2, CheckedMove
      <4>4. /\ store' = [store EXCEPT ![k] = o]
            /\ history' = IF k = "Cluster" THEN history \cup {v} ELSE history
        BY <3>3, <4>1, <4>3 DEF Write, Stored
      <4>5. CASE u = v
        <5>1. history' = history
          BY <4>3, <4>4, <4>5 DEF IInv, StoreInv
        <5>2. \A j \in Kinds : store'[j].release = store[j].release
          BY <2>0, <4>3, <4>4, <4>5
        <5>. QED BY <2>0, <2>2, <3>1, <5>1, <5>2 DEF Path!vars
      <4>6. CASE LT(u, v) /\ k = "Cluster"
        <5>1. store'["Cluster"].release = v
          BY <2>0, <4>3, <4>4, <4>6
        <5>2. store'["AzureCluster"] = store["AzureCluster"]
          BY <2>0, <4>4, <4>6
        <5>3. Path!UpgradeCluster(v)
          BY <2>2, <3>1, <4>3, <4>4, <4>6, <5>1, <5>2 DEF Path!UpgradeCluster, Before
        <5>4. v \in {w \in Versions : IsLegacy(w)}
          BY <4>3
        <5>. QED BY <5>3, <5>4, Zenon DEF Path!Next
      <4>7. CASE LT(u, v) /\ k = "AzureCluster"
        <5>1. store'["AzureCluster"].release = v
          BY <2>0, <4>3, <4>4, <4>7
        <5>2. store'["Cluster"] = store["Cluster"] /\ history' = history
          BY <2>0, <4>4, <4>7
        <5>3. v \in history
          <6>1. StoreInv'
            BY NextInv DEF IInv
          <6>. QED BY <2>2, <5>1, <5>2, <6>1 DEF StoreInv
        <5>4. Path!UpgradeAzureCluster(v)
          BY <2>2, <3>1, <4>3, <4>7, <5>1, <5>2, <5>3 DEF Path!UpgradeAzureCluster, Before
        <5>5. v \in {w \in Versions : IsLegacy(w)}
          BY <4>3
        <5>. QED BY <5>4, <5>5, Zenon DEF Path!Next
      <4>. QED BY <4>3, <4>5, <4>6, <4>7 DEF Kinds
    <3>. QED BY <3>2, <3>3
  <2>. QED BY <2>1, <2>2
<1>. QED BY <1>1, <1>2, InductiveInvariant, PTL DEF Spec, ImplementsReleasePath, Path!Spec
=============================================================================
