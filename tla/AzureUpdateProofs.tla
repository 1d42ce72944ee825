-------------------------- MODULE AzureUpdateProofs --------------------------
(***************************************************************************)
(* What the validators of pkg/azureupdate guarantee for the release        *)
(* version and the network of the resources they guard, for every set of   *)
(* versions and every history of the Release CRs.                          *)
(***************************************************************************)
EXTENDS AzureUpdate, ReleaseVersionProofs

(* What a request that is not under way holds is well formed. *)
LEMMA IdleType == Idle \in Request /\ Done \in Request
<1>1. NoZones \in ZoneList
  BY ConfigAssumption DEF NoZones, ZoneList
<1>. QED BY <1>1 DEF Idle, Done, Request, Config, Kinds

(* Initially nothing is under way, and the object had one network. *)
LEMMA InitInv == Init => IInv
<1> SUFFICES ASSUME Init PROVE IInv
  OBVIOUS
<1>1. CatalogTypeOK
  BY CatalogAssumption DEF Init, CatalogInit, CatalogTypeOK, Listing
<1>2. config \in Config /\ Proper(config) /\ config.version \in Published /\ ~config.deleting
  BY ConfigAssumption DEF Init
<1>3. config.version # NotAVersion
  BY <1>2, CatalogAssumption, ConfigAssumption
<1>4. NetworkOf(config) \in Network
  BY <1>2 DEF NetworkOf, Network, Config
<1>5. TypeOK
  BY <1>1, <1>2, <1>3, <1>4, IdleType, CatalogAssumption DEF Init, TypeOK
<1>6. CatalogInv
  BY CatalogAssumption DEF Init, CatalogInit, CatalogInv, Active
<1>7. \A r \in Requests : RequestOK(reqs[r])
  BY DEF Init, RequestOK, Idle
<1>8. networks = {NetworkOf(config)}
  BY DEF Init
<1>9. NetworkInv /\ OneNetworkPerRelease
  BY <1>2, <1>8, CatalogAssumption DEF NetworkInv, OneNetworkPerRelease, NetworkOf, Succeeds
<1>. QED BY <1>5, <1>6, <1>7, <1>8, <1>9 DEF IInv

(* A step that changes one request only, to one that satisfies the
   invariant, preserves the invariant.                                     *)
LEMMA RequestStep ==
    ASSUME IInv, NEW r \in Requests, NEW n \in Request, RequestOK(n),
           reqs' = [reqs EXCEPT ![r] = n],
           UNCHANGED <<config, cached, catalogVars, historyVars>>
    PROVE  IInv'
<1>1. TypeOK'
  BY DEF IInv, TypeOK, CatalogTypeOK, catalogVars, historyVars, Proper
<1>2. CatalogInv'
  BY Zenon DEF IInv, CatalogInv, catalogVars, historyVars, Active, isAlphaRelease
<1>3. NetworkInv' /\ OneNetworkPerRelease' /\ NetworkOf(config)' \in networks'
  BY DEF IInv, NetworkInv, OneNetworkPerRelease, Regular, NetworkOf, historyVars, Succeeds
<1>4. ASSUME NEW q \in Requests PROVE RequestOK(reqs[q])'
  <2>1. PICK m \in Request : reqs'[q] = m /\ RequestOK(m)
    <3>1. CASE q = r
      BY <3>1 DEF IInv, TypeOK
    <3>2. CASE q # r
      BY <3>2 DEF IInv, TypeOK
    <3>. QED BY <3>1, <3>2
  <2>. QED
    BY <2>1 DEF RequestOK, Accepted, AllowedMove, Proper, historyVars,
       validateMasterCIDRUnchanged, validateAvailabilityZonesUnchanged, NoZones
<1>. QED BY <1>1, <1>2, <1>3, <1>4 DEF IInv

(* The filter lets a request through to the validator, or to its write. *)
LEMMA SubmitStep ==
    ASSUME IInv, NEW r \in Requests, NEW o \in Proposals, Submit(r, o)
    PROVE  IInv'
<1>1. o \in Config /\ Proper(o) /\ config \in Config
  BY ConfigAssumption DEF IInv, TypeOK
<1>2. PICK new \in Config : new = [o EXCEPT !.deleting = config.deleting]
  BY <1>1 DEF Config
<1>3. PICK s \in {"validate", "write"} :
         reqs' = [reqs EXCEPT ![r] = [step |-> s, checked |-> FALSE, new |-> new]]
  BY <1>2 DEF Submit
<1>4. PICK n \in Request : n = [step |-> s, checked |-> FALSE, new |-> new]
  BY DEF Request
<1>5. RequestOK(n)
  BY <1>1, <1>2, <1>4 DEF RequestOK, Submit, Proper, Config
<1>. QED BY <1>3, <1>4, <1>5, RequestStep DEF Submit

(* What OnUpdateValidate accepts on one listing stays acceptable whatever
   happens to the Release CRs.                                             *)
LEMMA ValidateRequestStep ==
    ASSUME IInv, NEW r \in Requests, ValidateRequest(r)
    PROVE  IInv'
<1>1. reqs[r] \in Request /\ RequestOK(reqs[r]) /\ reqs[r].step = "validate"
  BY DEF IInv, TypeOK, ValidateRequest
<1>2. PICK new \in Config : new = reqs[r].new
  BY <1>1 DEF Request
<1>3. OnUpdateValidate(new) /\ config \in Config /\ Proper(new) /\ new.kind = config.kind
  BY <1>1, <1>2 DEF ValidateRequest, RequestOK, IInv, TypeOK
<1>4. ASSUME ~new.deleting
      PROVE  /\ NotAVersion \notin {config.version, new.version}
             /\ config.version # new.version => Validate(releases, config.version, new.version)
             /\ (new.kind = "AzureConfig" /\ config.version = new.version)
                => /\ validateMasterCIDRUnchanged(config, new)
                   /\ validateAvailabilityZonesUnchanged(config, new)
  BY <1>3, <1>4, Zenon DEF OnUpdateValidate, AzureConfigOnUpdateValidate,
     AzureClusterConfigOnUpdateValidate
<1>5. ASSUME ~new.deleting PROVE AllowedMove(config.version, new.version)
  <2>1. config.version \in Versions /\ new.version \in Versions
    BY <1>3, <1>4, <1>5 DEF Config
  <2>2. releases \in Listing(Versions) /\ Versions \in SUBSET Semver
    BY CatalogAssumption DEF IInv, TypeOK, CatalogTypeOK
  <2>3. releases.ignored \subseteq everIgnored /\ \A v \in settled : Active(releases, v)
    BY DEF IInv, CatalogInv
  <2>. QED BY <1>4, <1>5, <2>1, <2>2, <2>3, ValidateFollowsLines DEF AllowedMove
<1>6. ASSUME new.kind # "AzureConfig"
      PROVE  validateMasterCIDRUnchanged(config, new) /\ validateAvailabilityZonesUnchanged(config, new)
  <2>1. Proper(config) /\ config.kind = "AzureClusterConfig" /\ new.kind = "AzureClusterConfig"
    BY <1>3, <1>6 DEF IInv, TypeOK, Config, Kinds
  <2>. QED BY <1>3, <2>1 DEF Proper, validateMasterCIDRUnchanged, validateAvailabilityZonesUnchanged
<1>7. Accepted(new)
  BY <1>4, <1>5, <1>6 DEF Accepted
<1>8. PICK n \in Request : n = [reqs[r] EXCEPT !.step = "write", !.checked = TRUE]
  BY <1>1 DEF Request
<1>9. RequestOK(n)
  <2>1. n.new = new
    BY <1>1, <1>2, <1>8 DEF Request
  <2>. QED BY <1>1, <1>2, <1>7, <2>1 DEF RequestOK
<1>10. reqs' = [reqs EXCEPT ![r] = n]
  BY <1>8 DEF ValidateRequest
<1>. QED BY <1>9, <1>10, RequestStep DEF ValidateRequest

(* A denial changes nothing else. *)
LEMMA RefuseStep ==
    ASSUME IInv, NEW r \in Requests, Refuse(r)
    PROVE  IInv'
<1>1. PICK n \in Request : n = Idle
  BY IdleType
<1>2. RequestOK(n)
  BY <1>1 DEF RequestOK, Idle
<1>. QED BY <1>1, <1>2, RequestStep DEF Refuse

(* A write of an object that keeps kind and well-formedness leaves no request
   under way.                                                              *)
LEMMA StoredStep ==
    ASSUME IInv, NEW new \in Config, Stored(new), Proper(new),
           \A q \in Requests : reqs'[q] \in {Idle, Done},
           reqs' \in [Requests -> Request],
           UNCHANGED <<cached, catalogVars, everIgnored, settled>>,
           unchecked' \in BOOLEAN,
           new.version = NotAVersion => new.deleting \/ unchecked'
    PROVE  /\ TypeOK' /\ CatalogInv'
           /\ \A q \in Requests : RequestOK(reqs[q])'
           /\ NetworkOf(config)' \in networks'
<1>1. NetworkOf(new) \in Network
  BY DEF NetworkOf, Network, Config
<1>2. TypeOK'
  BY <1>1 DEF IInv, TypeOK, CatalogTypeOK, catalogVars, Stored, Proper
<1>3. CatalogInv'
  BY Zenon DEF IInv, CatalogInv, catalogVars, Active, isAlphaRelease
<1>4. \A q \in Requests : RequestOK(reqs[q])'
  BY DEF RequestOK, Idle, Done
<1>5. NetworkOf(config)' \in networks'
  BY DEF Stored, NetworkOf
<1>. QED BY <1>2, <1>3, <1>4, <1>5

(* A conflict ends a request, for now or for good. *)
LEMMA ConflictsType == ASSUME IInv PROVE \A q \in Requests : Conflicts[q] \in {Idle, Done}
BY DEF Conflicts

(* A validated write stays on the network of its release, or goes on to a
   release that none before it had.                                        *)
LEMMA WriteStep ==
    ASSUME IInv, NEW r \in Requests, Write(r)
    PROVE  IInv'
<1>1. reqs[r] \in Request /\ RequestOK(reqs[r]) /\ reqs[r].step = "write"
  BY DEF IInv, TypeOK, Write
<1>2. PICK new \in Config : new = reqs[r].new
  BY <1>1 DEF Request
<1>3. /\ Stored(new) /\ Proper(new)
      /\ reqs[r].checked => Accepted(new)
      /\ unchecked' = (unchecked \/ ~reqs[r].checked)
      /\ UNCHANGED <<cached, catalogVars, everIgnored, settled>>
      /\ config \in Config /\ new.deleting = config.deleting
  BY <1>1, <1>2 DEF Write, RequestOK, IInv, TypeOK
<1>4. reqs' \in [Requests -> Request] /\ \A q \in Requests : reqs'[q] \in {Idle, Done}
  BY ConflictsType, IdleType DEF Write, Conflicts
<1>5. unchecked' \in BOOLEAN
  BY <1>3
<1>6. new.version = NotAVersion => new.deleting \/ unchecked'
  BY <1>3 DEF Accepted
<1>7. /\ TypeOK' /\ CatalogInv' /\ NetworkOf(config)' \in networks'
      /\ \A q \in Requests : RequestOK(reqs[q])'
  BY <1>3, <1>4, <1>5, <1>6, StoredStep
<1>8. ASSUME Regular' PROVE NetworkInv' /\ OneNetworkPerRelease'
  <2>1. config' = new /\ networks' = networks \cup {NetworkOf(new)}
    BY <1>3 DEF Stored
  <2>2. Regular /\ reqs[r].checked /\ ~new.deleting
    BY <1>3, <1>8, <2>1 DEF Regular
  <2>3. /\ AllowedMove(config.version, new.version)
        /\ NotAVersion \notin {config.version, new.version}
        /\ config.version = new.version =>
              /\ validateMasterCIDRUnchanged(config, new)
              /\ validateAvailabilityZonesUnchanged(config, new)
    BY <1>3, <2>2 DEF Accepted
  <2>4. config.version \in Semver /\ new.version \in Semver
    BY <1>3, <2>3, CatalogAssumption DEF Config
  <2>5. NetworkOf(config) \in networks /\ NetworkOf(new) \in networks'
    BY <2>1 DEF IInv
  <2>6. config.version \notin everIgnored /\ new.version \notin everIgnored
    BY <1>3, <1>8, <2>1, <2>2, <2>5 DEF Regular, NetworkOf
  <2>7. config.version = new.version \/ LT(config.version, new.version)
    BY <2>3, <2>6 DEF AllowedMove
  <2>8. NetworkInv /\ OneNetworkPerRelease
    BY DEF IInv
  <2>9. \A p \in networks : p.version \in Semver /\ p.version \in Versions /\ Succeeds(config, p)
    BY <2>2, <2>8, CatalogAssumption DEF NetworkInv
  <2>10. ASSUME NEW p \in networks PROVE Succeeds(new, p)
    <3>1. CASE LT(p.version, config.version)
      BY <2>4, <2>7, <2>9, <3>1, LTTransitive DEF Succeeds
    <3>2. CASE ~LT(p.version, config.version) /\ config.version = new.version
      BY <2>3, <2>9, <3>2, Zenon DEF Succeeds, validateMasterCIDRUnchanged,
         validateAvailabilityZonesUnchanged
    <3>3. CASE ~LT(p.version, config.version) /\ LT(config.version, new.version)
      BY <2>9, <3>3, Zenon DEF Succeeds
    <3>. QED BY <2>7, <3>1, <3>2, <3>3
  <2>11. /\ NetworkOf(new).version = new.version
         /\ NetworkOf(new).cidr = new.cidr /\ NetworkOf(new).zones = new.zones
    BY DEF NetworkOf
  <2>12. Succeeds(new, NetworkOf(new)) /\ new.version \in Versions
    BY <1>3, <2>3, <2>11 DEF Succeeds, Config
  <2>13. \A p \in networks' : p.version \in Versions /\ Succeeds(new, p)
    BY <2>1, <2>9, <2>10, <2>11, <2>12
  <2>14. NetworkInv'
    BY <2>1, <2>13 DEF NetworkInv, Succeeds
  <2>15. ~LT(new.version, new.version)
    BY <2>4, LTAsymmetric
  <2>16. ASSUME NEW p \in networks, p.version = new.version
         PROVE  /\ p.cidr # NoCIDR => p.cidr = new.cidr
                /\ p.zones # NoZones => p.zones = new.zones
    BY <2>10, <2>15, <2>16, Zenon DEF Succeeds
  <2>17. ASSUME NEW p \in networks', NEW q \in networks', p.version = q.version
         PROVE  /\ NoCIDR \notin {p.cidr, q.cidr} => p.cidr = q.cidr
                /\ NoZones \notin {p.zones, q.zones} => p.zones = q.zones
    <3>1. CASE p \in networks /\ q \in networks
      BY <2>2, <2>8, <2>17, <3>1 DEF OneNetworkPerRelease
    <3>2. CASE p = NetworkOf(new) /\ q \in networks
      BY <2>11, <2>16, <2>17, <3>2
    <3>3. CASE q = NetworkOf(new) /\ p \in networks
      BY <2>11, <2>16, <2>17, <3>3
    <3>4. CASE p = q
      BY <3>4
    <3>. QED BY <2>1, <3>1, <3>2, <3>3, <3>4
  <2>18. OneNetworkPerRelease'
    <3>1. NoZones' = NoZones
      BY DEF NoZones
    <3>. QED BY <2>17, <3>1 DEF OneNetworkPerRelease
  <2>. QED BY <2>14, <2>18
<1>9. ~Regular' => NetworkInv' /\ OneNetworkPerRelease'
  BY DEF NetworkInv, OneNetworkPerRelease
<1>. QED BY <1>7, <1>8, <1>9 DEF IInv

(* A DELETE request sets the deletion timestamp, nothing else. *)
LEMMA DeleteStep ==
    ASSUME IInv, Delete
    PROVE  IInv'
<1>1. PICK new \in Config : new = [config EXCEPT !.deleting = TRUE]
  BY DEF IInv, TypeOK, Config
<1>2. Stored(new) /\ new.deleting /\ UNCHANGED <<cached, catalogVars, unchecked, everIgnored, settled>>
  BY <1>1 DEF Delete, IInv, TypeOK, Config
<1>3. Proper(new)
  BY <1>1 DEF IInv, TypeOK, Proper, Config
<1>4. reqs' \in [Requests -> Request] /\ \A q \in Requests : reqs'[q] \in {Idle, Done}
  BY ConflictsType, IdleType DEF Delete, Conflicts
<1>5. /\ TypeOK' /\ CatalogInv' /\ NetworkOf(config)' \in networks'
      /\ \A q \in Requests : RequestOK(reqs[q])'
  BY <1>2, <1>3, <1>4, StoredStep DEF IInv, TypeOK
<1>6. ~Regular'
  BY <1>2 DEF Regular, Stored
<1>. QED BY <1>5, <1>6 DEF IInv, NetworkInv, OneNetworkPerRelease

(* An edit of the Release CRs: fewer releases are settled, more were ever
   ignored.                                                                *)
LEMMA EditStep ==
    ASSUME IInv, EditReleases
    PROVE  IInv'
<1>1. CatalogTypeOK'
  BY CatalogStep DEF EditReleases, IInv, TypeOK
<1>2. everIgnored' \subseteq Versions /\ settled' \subseteq Versions
  BY <1>1 DEF EditReleases, IInv, TypeOK, CatalogTypeOK, Listing
<1>3. TypeOK'
  BY <1>1, <1>2 DEF EditReleases, IInv, TypeOK, Proper
<1>4. CatalogInv'
  BY DEF EditReleases, CatalogInv, Active, isAlphaRelease
<1>5. everIgnored \subseteq everIgnored' /\ settled' \subseteq settled
  BY DEF EditReleases
<1>6. UNCHANGED <<config, reqs, networks, unchecked>>
  BY DEF EditReleases
<1>7. ASSUME NEW q \in Requests PROVE RequestOK(reqs[q])'
  <2>1. RequestOK(reqs[q])
    BY DEF IInv
  <2>2. AllowedMove(config.version, reqs[q].new.version)
        => AllowedMove(config.version, reqs[q].new.version)'
    BY <1>5, <1>6, Zenon DEF AllowedMove
  <2>3. Accepted(reqs[q].new) => Accepted(reqs[q].new)'
    BY <1>6, <2>2 DEF Accepted, validateMasterCIDRUnchanged, validateAvailabilityZonesUnchanged
  <2>. QED BY <1>6, <2>1, <2>3 DEF RequestOK, Proper
<1>8. Regular' => Regular
  BY <1>5, <1>6 DEF Regular
<1>9. NetworkInv' /\ OneNetworkPerRelease' /\ NetworkOf(config)' \in networks'
  BY <1>6, <1>8 DEF IInv, NetworkInv, OneNetworkPerRelease, NetworkOf, Succeeds
<1>. QED BY <1>3, <1>4, <1>7, <1>9 DEF IInv

(* A step that changes nothing but the cache. *)
LEMMA CacheStep ==
    ASSUME IInv, UNCHANGED <<config, reqs, catalogVars, historyVars>>, cached' \subseteq Versions
    PROVE  IInv'
<1>1. TypeOK'
  BY DEF IInv, TypeOK, CatalogTypeOK, catalogVars, historyVars, Proper
<1>2. CatalogInv'
  BY Zenon DEF IInv, CatalogInv, catalogVars, historyVars, Active, isAlphaRelease
<1>3. NetworkInv' /\ OneNetworkPerRelease' /\ NetworkOf(config)' \in networks'
  BY DEF IInv, NetworkInv, OneNetworkPerRelease, Regular, NetworkOf, historyVars, Succeeds
<1>4. ASSUME NEW q \in Requests PROVE RequestOK(reqs[q])'
  BY DEF IInv, RequestOK, Accepted, AllowedMove, Proper, historyVars,
     validateMasterCIDRUnchanged, validateAvailabilityZonesUnchanged
<1>. QED BY <1>1, <1>2, <1>3, <1>4 DEF IInv

(* The network of a resource and what the validator found about the updates
   under way, whatever happens to the Release CRs, the object and the cache
   before they are written.                                                *)
THEOREM InductiveInvariant == Spec => []IInv
<1>1. IInv /\ [Next]_vars => IInv'
  <2> SUFFICES ASSUME IInv, [Next]_vars PROVE IInv'
    OBVIOUS
  <2>1. ASSUME NEW r \in Requests,
               \/ \E o \in Proposals : Submit(r, o)
               \/ ValidateRequest(r) \/ Refuse(r) \/ Write(r)
        PROVE  IInv'
    BY <2>1, SubmitStep, ValidateRequestStep, RefuseStep, WriteStep
  <2>2. CASE Delete
    BY <2>2, DeleteStep
  <2>3. CASE EditReleases
    BY <2>3, EditStep
  <2>4. CASE SyncCache
    <3>1. releases.names \subseteq Versions
      BY DEF IInv, TypeOK, CatalogTypeOK, Listing
    <3>. QED BY <2>4, <3>1, CacheStep DEF SyncCache
  <2>5. CASE UNCHANGED vars
    BY <2>5, CacheStep DEF vars, catalogVars, historyVars, IInv, TypeOK
  <2>. QED BY <2>1, <2>2, <2>3, <2>4, <2>5 DEF Next
<1>. QED BY <1>1, InitInv, PTL DEF Spec

(* The type invariant: edits, updates and writes stay within their domains,
   and a version that does not parse is only found in a resource that is
   being deleted or that a write the filter let through has changed.       *)
THEOREM TypeCorrect == Spec => []TypeOK
<1>1. IInv => TypeOK
  BY DEF IInv
<1>. QED BY <1>1, InductiveInvariant, PTL

(* releaseversion.Validate implements the upgrade policy in every state of
   the Release CRs, for every set of versions.                             *)
THEOREM ValidateCorrect == Spec => []ValidateMeetsPolicy
<1>1. TypeOK => ValidateMeetsPolicy
  BY CatalogAssumption, ValidateIsPolicy DEF TypeOK, CatalogTypeOK, ValidateMeetsPolicy
<1>. QED BY <1>1, TypeCorrect, PTL

(* Among any releases there is one whose line no other's precedes. *)
LEMMA LowestLine ==
    ASSUME NEW S \in SUBSET Semver, S # {}
    PROVE  \E m \in S : \A r \in S : ~LineBefore(r, m)
<1>0. \A r \in S : r.major \in Nat /\ r.minor \in Nat
  BY DEF Semver
<1>. DEFINE Majors == {r.major : r \in S}
<1>1. Majors \in SUBSET Nat /\ Majors # {}
  BY <1>0
<1>2. PICK major \in Majors : \A y \in Majors : major <= y
  <2>. HIDE DEF Majors
  <2>. QED BY <1>1, LeastNat
<1>. DEFINE Minors == {r.minor : r \in {x \in S : x.major = major}}
<1>3. Minors \in SUBSET Nat /\ Minors # {}
  BY <1>0
<1>4. PICK minor \in Minors : \A y \in Minors : minor <= y
  <2>. HIDE DEF Minors
  <2>. QED BY <1>3, LeastNat
<1>5. PICK m \in S : m.major = major /\ m.minor = minor
  OBVIOUS
<1>6. ASSUME NEW r \in S, LineBefore(r, m)
      PROVE  FALSE
  <2>1. major <= r.major
    BY <1>2
  <2>2. r.major = major => minor <= r.minor
    BY <1>4
  <2>. HIDE DEF Majors, Minors
  <2>. QED BY <1>0, <1>5, <1>6, <2>1, <2>2 DEF LineBefore
<1>. QED BY <1>6

(* From every version that is not an alpha one every newer active release can
   be approached: of the active releases up to it, one whose line is lowest
   is a move that Validate accepts.                                        *)
THEOREM ProgressCorrect == Spec => []NoDeadEnd
<1>1. TypeOK => NoDeadEnd
  <2>. SUFFICES ASSUME TypeOK, NEW old \in Versions, NEW goal \in Versions,
                       ~releases.misnamed, ~isAlphaRelease(old),
                       Active(releases, goal), LT(old, goal)
                PROVE  \E m \in Versions :
                          LT(old, m) /\ ~LT(goal, m) /\ Validate(releases, old, m)
    BY DEF NoDeadEnd
  <2>. DEFINE S == {r \in releases.names : /\ Active(releases, r)
                                           /\ LT(old, r) /\ ~LT(goal, r)}
  <2>1. releases \in Listing(Versions) /\ Versions \in SUBSET Semver
    BY CatalogAssumption DEF TypeOK, CatalogTypeOK
  <2>2. releases.names \subseteq Versions
    BY <2>1 DEF Listing
  <2>3. goal \in S
    BY <2>1, LTAsymmetric DEF Active
  <2>4. PICK m \in S : \A r \in S : ~LineBefore(r, m)
    <3>1. S \in SUBSET Semver /\ S # {}
      BY <2>1, <2>2, <2>3
    <3>. HIDE DEF S
    <3>. QED BY <3>1, LowestLine
  <2>5. NoLineBetween(releases, old, m)
    <3>. SUFFICES ASSUME NEW r \in releases.names, Active(releases, r),
                         LineBefore(old, r), LineBefore(r, m)
                  PROVE  FALSE
      BY DEF NoLineBetween
    <3>1. old \in Semver /\ goal \in Semver /\ m \in Semver /\ r \in Semver
      BY <2>1, <2>2, <2>4
    <3>2. LT(old, r) /\ LT(r, m)
      BY <3>1 DEF LineBefore, LT, Semver
    <3>3. ~LT(goal, r)
      BY <2>4, <3>1, <3>2, LTTransitive
    <3>. QED BY <2>4, <3>2, <3>3
  <2>6. Policy(releases, old, m)
    BY <2>4, <2>5 DEF Policy, Active
  <2>7. Validate(releases, old, m)
    BY <2>1, <2>2, <2>4, <2>6, ValidateIsPolicy
  <2>. QED BY <2>2, <2>4, <2>7
<1>. QED BY <1>1, TypeCorrect, PTL

(* A validated change of the release goes forward and leaves out no line,
   for any number of concurrent updates and any edits of the Release CRs
   between validation and write.                                           *)
THEOREM LinesCorrect == Spec => ReleaseFollowsLines
<1> DEFINE P == LET old == config.version
                    new == config'.version
                IN  (old # new /\ ~config.deleting /\ ~unchecked' /\ {old, new} \cap everIgnored = {})
                    => /\ LT(old, new)
                       /\ ~\E v \in settled : LineBefore(old, v) /\ LineBefore(v, new)
<1>1. IInv /\ [Next]_vars => [P]_vars
  <2> SUFFICES ASSUME IInv, [Next]_vars, config'.version # config.version,
                      ~config.deleting, ~unchecked',
                      {config.version, config'.version} \cap everIgnored = {}
               PROVE  /\ LT(config.version, config'.version)
                      /\ ~\E v \in settled : /\ LineBefore(config.version, v)
                                             /\ LineBefore(v, config'.version)
    OBVIOUS
  <2>1. ASSUME NEW r \in Requests, Write(r)
        PROVE  AllowedMove(config.version, config'.version)
    <3>1. RequestOK(reqs[r]) /\ reqs[r].step = "write" /\ config' = reqs[r].new
      BY <2>1 DEF Write, Stored, IInv
    <3>2. reqs[r].checked /\ ~reqs[r].new.deleting
      BY <2>1, <3>1 DEF Write, RequestOK
    <3>. QED BY <3>1, <3>2 DEF RequestOK, Accepted
  <2>2. CASE Delete
    <3>1. config'.version = config.version
      BY <2>2 DEF Delete, Stored, IInv, TypeOK, Config
    <3>. QED BY <3>1
  <2>3. (\E r \in Requests : Write(r)) \/ Delete \/ config' = config
    BY Zenon DEF Next, Submit, ValidateRequest, Refuse, EditReleases, SyncCache, vars
  <2>4. CASE config' = config
    BY <2>4
  <2>5. CASE AllowedMove(config.version, config'.version)
    BY <2>5 DEF AllowedMove
  <2>. QED BY <2>1, <2>2, <2>3, <2>4, <2>5
<1>. QED BY <1>1, InductiveInvariant, PTL DEF Spec, ReleaseFollowsLines

(* An AzureConfig has one network per release of its life, as long as its
   releases are validated and never ignored.                               *)
THEOREM NetworkCorrect == Spec => []OneNetworkPerRelease
<1>1. IInv => OneNetworkPerRelease
  BY DEF IInv
<1>. QED BY <1>1, InductiveInvariant, PTL
=============================================================================
