--------------------------- MODULE ReleaseVersion ---------------------------
(***************************************************************************)
(* internal/releaseversion: is a move from one release version to another  *)
(* an allowed upgrade, given the Release CRs of the installation?          *)
(*                                                                         *)
(* Everything here is a pure operator of a listing, what one List call of  *)
(* the Release CRs returned.  A listing is a record of sets of versions:   *)
(*   names       the versions that have a Release CR,                      *)
(*   ignored     those whose CR carries release.giantswarm.io/ignore=true, *)
(*   deprecated  those whose CR is in state "deprecated",                  *)
(*   misnamed    TRUE if some CR name is not a version at all, which makes *)
(*               availableReleases fail as a whole.                        *)
(* The callers only tell nil from an error, so Validate is a predicate.    *)
(***************************************************************************)
EXTENDS Integers

CONSTANT AlphaPres   \* the pre-release ranks whose text contains "alpha"

ASSUME AlphaPresAssumption == AlphaPres \subseteq {p \in Int : p < 0}

-----------------------------------------------------------------------------
(* github.com/blang/semver.  The pre-release part is its rank: 0 when there
   is none, and a negative number, ordered as semver orders the identifiers,
   when there is one: a pre-release precedes the release.  Build metadata
   takes no part in comparisons and is left out.                           *)
Semver == [major : Nat, minor : Nat, patch : Nat, pre : {p \in Int : p <= 0}]

LT(a, b) ==
    \/ a.major < b.major
    \/ /\ a.major = b.major
       /\ \/ a.minor < b.minor
          \/ /\ a.minor = b.minor
             /\ \/ a.patch < b.patch
                \/ a.patch = b.patch /\ a.pre < b.pre

-----------------------------------------------------------------------------
Listing(V) == [names : SUBSET V, ignored : SUBSET V, deprecated : SUBSET V,
               misnamed : BOOLEAN]

isAlphaRelease(v) == v.pre \in AlphaPres

isIgnoredRelease(l, v) == v \in l.names /\ v \in l.ignored

isDeprecatedRelease(l, v) == v \in l.names /\ v \in l.deprecated

included(l, v) == v \in l.names

isOldOrNewReleaseIgnored(l, old, new) ==
    isIgnoredRelease(l, old) \/ isIgnoredRelease(l, new)

\* Fault: alpha releases are not filtered out.
FaultyKeepAlphaReleases(l) ==
    {v \in l.names : ~isIgnoredRelease(l, v) /\ ~isDeprecatedRelease(l, v)}

filterOutAlphaAndIgnoredAndDeprecatedReleases(l) ==
    {v \in l.names : /\ ~isAlphaRelease(v)
                     /\ ~isIgnoredRelease(l, v)
                     /\ ~isDeprecatedRelease(l, v)}

\* Fault: the major version is not compared.
FaultySameLine(a, b) == a.minor = b.minor

SameLine(a, b) == a.major = b.major /\ a.minor = b.minor

\* Fault: a later release of the line that is moved to counts as skipped.
FaultySkipsPatch(l, old, new) ==
    /\ ~SameLine(old, new)
    /\ \E r \in filterOutAlphaAndIgnoredAndDeprecatedReleases(l) :
          r # old /\ r # new /\ LT(old, r) /\ LT(r, new) /\ ~SameLine(old, r)

\* The loop of Validate over the releases that are left after filtering.
SkipsRelease(l, old, new) ==
    /\ ~SameLine(old, new)
    /\ \E r \in filterOutAlphaAndIgnoredAndDeprecatedReleases(l) :
          /\ r # old /\ r # new
          /\ LT(old, r) /\ LT(r, new)
          /\ ~SameLine(old, r) /\ ~SameLine(new, r)

Validate(l, old, new) ==
    \/ old = new
    \/ /\ ~l.misnamed
       /\ included(l, new)
       /\ \/ isOldOrNewReleaseIgnored(l, old, new)
          \/ /\ ~LT(new, old)
             /\ ~isAlphaRelease(old) /\ ~isAlphaRelease(new)
             /\ ~SkipsRelease(l, old, new)

-----------------------------------------------------------------------------
(* The upgrade policy, written from its purpose and not from the code: an
   upgrade moves forward, and the release lines (major.minor) that have an
   active release are taken one at a time.                                 *)
LineBefore(a, b) == a.major < b.major \/ (a.major = b.major /\ a.minor < b.minor)

Active(l, v) ==
    v \in l.names /\ v \notin l.ignored /\ v \notin l.deprecated /\ ~isAlphaRelease(v)

NoLineBetween(l, old, new) ==
    \A r \in l.names : Active(l, r) => ~(LineBefore(old, r) /\ LineBefore(r, new))

Policy(l, old, new) ==
    \/ new = old
    \/ /\ new \in l.names /\ ~l.misnamed
       /\ \/ {old, new} \cap l.names \cap l.ignored # {}
          \/ /\ LT(old, new)
             /\ ~isAlphaRelease(old) /\ ~isAlphaRelease(new)
             /\ NoLineBetween(l, old, new)
=============================================================================
