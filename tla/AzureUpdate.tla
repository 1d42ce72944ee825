----------------------------- MODULE AzureUpdate -----------------------------
(***************************************************************************)
(* pkg/azureupdate: an AzureConfig or an AzureClusterConfig, the resources *)
(* that describe a cluster to the older operators, under concurrent        *)
(* updates, in an installation whose Release CRs are being edited.         *)
(*                                                                         *)
(* There is no mutating webhook for these kinds and nothing guards their   *)
(* creation.  An update is read and filtered in one step, validated in a   *)
(* second, which lists the Release CRs, and written in a third; whatever   *)
(* is written in between makes it end in a conflict.                       *)
(***************************************************************************)
EXTENDS ReleaseCatalog

CONSTANTS
    Requests,      \* the update requests, each written at most once
    Legacy,        \* the releases with an azure-operator
    NotAVersion,   \* no release version, or one that cannot be parsed
    CIDRs,         \* master subnets
    NoCIDR,        \* none is set
    Zones,
    MaxRepeat,     \* how often a zone may be repeated in the list of zones
    Proposals      \* the objects clients propose

Kinds == {"AzureConfig", "AzureClusterConfig"}

\* The list of zones, whose order does not matter to the code: how often
\* each zone occurs.
ZoneList == [Zones -> 0 .. MaxRepeat]

NoZones == [z \in Zones |-> 0]

Config == [kind : Kinds, version : Versions \cup {NotAVersion},
           cidr : CIDRs \cup {NoCIDR}, zones : ZoneList, deleting : BOOLEAN]

Network == [version : Versions \cup {NotAVersion},
            cidr : CIDRs \cup {NoCIDR}, zones : ZoneList]

Request == [step    : {"idle", "validate", "write", "done"},
            new     : Config,
            checked : BOOLEAN]     \* OnUpdateValidate accepted it

\* Only an AzureConfig describes a network.
Proper(c) == c.kind = "AzureClusterConfig" => c.cidr = NoCIDR /\ c.zones = NoZones

ASSUME ConfigAssumption ==
    /\ NotAVersion \notin Versions
    /\ NoCIDR \notin CIDRs
    /\ MaxRepeat \in Nat
    /\ Legacy \subseteq Versions
    /\ Proposals \subseteq {c \in Config : Proper(c)}

VARIABLES
    config,      \* the stored object
    reqs,        \* the update requests
    cached,      \* the releases the informer cache holds
    \* history variables, read by the properties only
    networks,    \* every release the object had, with the network it had
    unchecked,   \* a write was not validated
    everIgnored, \* releases that ever carried the ignore annotation
    settled      \* releases active from the start on, never edited

historyVars == <<networks, unchecked, everIgnored, settled>>
vars == <<config, reqs, cached, releases, moves,
          networks, unchecked, everIgnored, settled>>

TypeOK ==
    /\ CatalogTypeOK
    /\ config \in Config
    /\ Proper(config)
    /\ reqs \in [Requests -> Request]
    /\ cached \subseteq Versions
    /\ networks \subseteq Network
    /\ unchecked \in BOOLEAN
    /\ everIgnored \subseteq Versions
    /\ settled \subseteq Versions
    /\ config.version = NotAVersion => config.deleting \/ unchecked

NetworkOf(c) == [version |-> c.version, cidr |-> c.cidr, zones |-> c.zones]

Idle == [step |-> "idle", checked |-> FALSE,
         new |-> [kind |-> "AzureConfig", version |-> NotAVersion, cidr |-> NoCIDR,
                  zones |-> NoZones, deleting |-> FALSE]]

Done == [Idle EXCEPT !.step = "done"]

Init ==
    /\ CatalogInit
    /\ config \in {c \in Proposals : c.version \in Published /\ ~c.deleting}
    /\ reqs = [r \in Requests |-> Idle]
    /\ cached = Published
    /\ networks = {NetworkOf(config)}
    /\ unchecked = FALSE
    /\ everIgnored = {}
    /\ settled = {v \in Published : ~isAlphaRelease(v)}

-----------------------------------------------------------------------------
validateMasterCIDRUnchanged(old, new) == old.cidr # NoCIDR => old.cidr = new.cidr

validateAvailabilityZonesUnchanged(old, new) ==
    old.zones # NoZones => old.zones = new.zones

\* Fault: a version that does not parse is taken to be unchanged.
FaultyClusterConfigValidate(old, new) ==
    \/ new.deleting
    \/ (NotAVersion \notin {old.version, new.version} /\ old.version # new.version)
       => Validate(releases, old.version, new.version)

\* AzureClusterConfigWebhookHandler.OnUpdateValidate
AzureClusterConfigOnUpdateValidate(old, new) ==
    \/ new.deleting
    \/ /\ NotAVersion \notin {old.version, new.version}
       /\ old.version # new.version => Validate(releases, old.version, new.version)

\* Fault: what the new object leaves open is not compared.
FaultyAzureConfigOnUpdateValidate(old, new) ==
    \/ new.deleting
    \/ /\ NotAVersion \notin {old.version, new.version}
       /\ \/ /\ old.version # new.version
             /\ Validate(releases, old.version, new.version)
          \/ /\ old.version = new.version
             /\ new.cidr # NoCIDR => validateMasterCIDRUnchanged(old, new)
             /\ new.zones # NoZones => validateAvailabilityZonesUnchanged(old, new)

\* AzureConfigWebhookHandler.OnUpdateValidate: a change of the release is
\* validated as such, and nothing else then.
AzureConfigOnUpdateValidate(old, new) ==
    \/ new.deleting
    \/ /\ NotAVersion \notin {old.version, new.version}
       /\ \/ /\ old.version # new.version
             /\ Validate(releases, old.version, new.version)
          \/ /\ old.version = new.version
             /\ validateMasterCIDRUnchanged(old, new)
             /\ validateAvailabilityZonesUnchanged(old, new)

-----------------------------------------------------------------------------
\* What the filter answers: an object without a release label has that of
\* its owner Cluster, if there is one.
IsObjectReconciledByLegacyRelease(o) ==
    IF o.version = NotAVersion THEN BOOLEAN ELSE {o.version \in cached \cap Legacy}

\* An update reaches the validator's filter; one that changes nothing is
\* never written.
Submit(r, o) ==
    /\ reqs[r].step = "idle"
    /\ o.kind = config.kind
    /\ NetworkOf(o) # NetworkOf(config)
    /\ \E legacy \in IsObjectReconciledByLegacyRelease(o) :
          reqs' = [reqs EXCEPT ![r] =
                      [step |-> IF legacy THEN "validate" ELSE "write", checked |-> FALSE,
                       new |-> [o EXCEPT !.deleting = config.deleting]]]
    /\ UNCHANGED <<config, cached, catalogVars, historyVars>>

OnUpdateValidate(new) ==
    \/ new.kind = "AzureConfig" /\ AzureConfigOnUpdateValidate(config, new)
    \/ new.kind = "AzureClusterConfig" /\ AzureClusterConfigOnUpdateValidate(config, new)

\* The validator has listed the Release CRs and accepts the update.
ValidateRequest(r) ==
    /\ reqs[r].step = "validate"
    /\ OnUpdateValidate(reqs[r].new)
    /\ reqs' = [reqs EXCEPT ![r] = [@ EXCEPT !.step = "write", !.checked = TRUE]]
    /\ UNCHANGED <<config, cached, catalogVars, historyVars>>

\* A denial, by the checks or because a read fails; the client may try again.
Refuse(r) ==
    /\ reqs[r].step = "validate"
    /\ reqs' = [reqs EXCEPT ![r] = Idle]
    /\ UNCHANGED <<config, cached, catalogVars, historyVars>>

\* A write leaves every other update that is under way with a conflict.
Conflicts == [q \in Requests |-> IF reqs[q].step = "done" THEN Done ELSE Idle]

Stored(new) ==
    /\ config' = new
    /\ networks' = networks \cup {NetworkOf(new)}

Write(r) ==
    /\ reqs[r].step = "write"
    /\ Stored(reqs[r].new)
    /\ reqs' = [Conflicts EXCEPT ![r] = Done]
    /\ unchecked' = (unchecked \/ ~reqs[r].checked)
    /\ UNCHANGED <<cached, catalogVars, everIgnored, settled>>

Delete ==
    /\ ~config.deleting
    /\ Stored([config EXCEPT !.deleting = TRUE])
    /\ reqs' = Conflicts
    /\ UNCHANGED <<cached, catalogVars, unchecked, everIgnored, settled>>

\* A Release CR is edited.
EditReleases ==
    /\ CatalogNext
    /\ everIgnored' = everIgnored \cup releases'.ignored
    /\ settled' = {v \in settled : Active(releases', v)}
    /\ UNCHANGED <<config, reqs, cached, networks, unchecked>>

\* The informer cache catches up with the Release CRs.
SyncCache ==
    /\ cached # releases.names
    /\ cached' = releases.names
    /\ UNCHANGED <<config, reqs, catalogVars, historyVars>>

Next ==
    \/ \E r \in Requests : \/ \E o \in Proposals : Submit(r, o)
                           \/ ValidateRequest(r) \/ Refuse(r) \/ Write(r)
    \/ Delete
    \/ EditReleases
    \/ SyncCache

Spec == Init /\ [][Next]_vars

-----------------------------------------------------------------------------
(* The loop of releaseversion.Validate over version triples accepts exactly
   the moves the upgrade policy describes in terms of release lines,
   whatever the Release CRs are.                                           *)
ValidateMeetsPolicy ==
    \A old, new \in Versions :
        Validate(releases, old, new) <=> Policy(releases, old, new)

(* No dead end: however the Release CRs were edited, from every version
   that is not an alpha one every newer active release can be approached by
   a move that Validate accepts: the filtering of alpha, ignored and
   deprecated releases never leaves a line that can be neither taken nor
   skipped.                                                                *)
NoDeadEnd ==
    \A old, goal \in Versions :
        (/\ ~releases.misnamed
         /\ ~isAlphaRelease(old)
         /\ Active(releases, goal)
         /\ LT(old, goal))
        => \E m \in Versions :
              LT(old, m) /\ ~LT(goal, m) /\ Validate(releases, old, m)

(* Until it is being deleted, a resource whose writes are validated changes
   its release forward only and takes the lines one at a time: it leaves out
   no line with a release that was active all the time, even if the Release
   CRs are edited between the validation and the write, and two updates that
   were validated together are not both written.  Releases that were ever
   ignored are exempt.                                                     *)
ReleaseFollowsLines ==
    [][LET old == config.version
           new == config'.version
       IN  (old # new /\ ~config.deleting /\ ~unchecked' /\ {old, new} \cap everIgnored = {})
           => /\ LT(old, new)
              /\ ~\E v \in settled : LineBefore(old, v) /\ LineBefore(v, new)]_vars

\* A resource all of whose releases were validated and never ignored.
Regular ==
    /\ ~config.deleting /\ ~unchecked
    /\ \A p \in networks : p.version \notin everIgnored

(* Over its whole life a resource has at most one master CIDR and one list
   of zones per release: the checks look at two neighbouring versions of the
   object and are skipped when the release changes, and yet a value cannot
   be exchanged for another by way of its removal, or of a detour over other
   releases.                                                               *)
OneNetworkPerRelease ==
    Regular => \A p, q \in networks : p.version = q.version =>
                  /\ NoCIDR \notin {p.cidr, q.cidr} => p.cidr = q.cidr
                  /\ NoZones \notin {p.zones, q.zones} => p.zones = q.zones

-----------------------------------------------------------------------------
(* The inductive invariant behind these properties.                        *)

\* Stable counterpart of Validate: Release CRs only leave settled and only
\* enter everIgnored.
AllowedMove(old, new) ==
    \/ old = new
    \/ old \in everIgnored \/ new \in everIgnored
    \/ /\ LT(old, new)
       /\ ~\E v \in settled : LineBefore(old, v) /\ LineBefore(v, new)

\* What the validator found about an update that is still to be written.
Accepted(new) ==
    \/ new.deleting
    \/ /\ NotAVersion \notin {config.version, new.version}
       /\ AllowedMove(config.version, new.version)
       /\ config.version = new.version =>
             /\ validateMasterCIDRUnchanged(config, new)
             /\ validateAvailabilityZonesUnchanged(config, new)

RequestOK(q) ==
    q.step \in {"validate", "write"} =>
        /\ q.new.kind = config.kind /\ q.new.deleting = config.deleting
        /\ Proper(q.new)
        /\ q.checked => Accepted(q.new)

CatalogInv ==
    /\ releases.ignored \subseteq everIgnored
    /\ \A v \in settled : Active(releases, v)

\* The release of c comes after that of p, or is the same with the network
\* that p has chosen.
Succeeds(c, p) ==
    \/ LT(p.version, c.version)
    \/ /\ p.version = c.version
       /\ p.cidr # NoCIDR => p.cidr = c.cidr
       /\ p.zones # NoZones => p.zones = c.zones

NetworkInv ==
    Regular => \A p \in networks :
                  /\ p.version \in Versions
                  /\ Succeeds(config, p)

IInv ==
    /\ TypeOK
    /\ CatalogInv
    /\ \A r \in Requests : RequestOK(reqs[r])
    /\ NetworkOf(config) \in networks
    /\ NetworkInv
    /\ OneNetworkPerRelease

=============================================================================
