------------------------ MODULE ReleaseVersionProofs ------------------------
(***************************************************************************)
(* Lemmas about the order of versions, releaseversion.Validate and the     *)
(* Release CRs, used by the proofs about the resources they guard.         *)
(***************************************************************************)
EXTENDS ReleaseCatalog, WellFoundedInduction, TLAPS

(* A set of natural numbers has a least one: < is well founded on Nat. *)
LEMMA LeastNat ==
    ASSUME NEW T \in SUBSET Nat, T # {}
    PROVE  \E x \in T : \A y \in T : x <= y
<1>1. PICK x \in T : \A y \in T : ~(<<y, x>> \in OpToRel(<, Nat))
  BY NatLessThanWellFounded, WFMin
<1>2. \A y \in T : ~(y < x)
  BY <1>1 DEF OpToRel
<1>. QED BY <1>2

(* Two versions are equal, or one precedes the other. *)
LEMMA LTTotal ==
    ASSUME NEW a \in Semver, NEW b \in Semver
    PROVE  a = b \/ LT(a, b) \/ LT(b, a)
BY DEF Semver, LT

(* A version does not precede one that precedes it. *)
LEMMA LTAsymmetric ==
    ASSUME NEW a \in Semver, NEW b \in Semver, LT(a, b)
    PROVE  a # b /\ ~LT(b, a)
BY DEF Semver, LT

(* The order of versions is transitive. *)
LEMMA LTTransitive ==
    ASSUME NEW a \in Semver, NEW b \in Semver, NEW c \in Semver, LT(a, b), LT(b, c)
    PROVE  LT(a, c)
BY DEF Semver, LT

(* For an upgrade, a release between old and new whose line is neither's is
   a release whose line is strictly between theirs.                        *)
LEMMA BetweenIsLineBetween ==
    ASSUME NEW old \in Semver, NEW new \in Semver, NEW r \in Semver, LT(old, new)
    PROVE  (/\ ~SameLine(old, new)
            /\ r # old /\ r # new
            /\ LT(old, r) /\ LT(r, new)
            /\ ~SameLine(old, r) /\ ~SameLine(new, r))
           <=> (LineBefore(old, r) /\ LineBefore(r, new))
BY DEF Semver, LT, SameLine, LineBefore

(* The loop of Validate finds a release exactly if an active line would be
   left out.                                                               *)
LEMMA SkipsIsLineBetween ==
    ASSUME NEW U \in SUBSET Semver, NEW l \in Listing(U),
           NEW old \in Semver, NEW new \in Semver, LT(old, new)
    PROVE  ~SkipsRelease(l, old, new) <=> NoLineBetween(l, old, new)
<1>1. \A r \in l.names : r \in Semver
  BY DEF Listing
<1>2. \A r \in l.names :
         r \in filterOutAlphaAndIgnoredAndDeprecatedReleases(l) <=> Active(l, r)
  BY DEF filterOutAlphaAndIgnoredAndDeprecatedReleases, Active,
         isIgnoredRelease, isDeprecatedRelease
<1>3. filterOutAlphaAndIgnoredAndDeprecatedReleases(l) \subseteq l.names
  BY DEF filterOutAlphaAndIgnoredAndDeprecatedReleases
<1>4. \A r \in l.names :
         (/\ ~SameLine(old, new)
          /\ r # old /\ r # new
          /\ LT(old, r) /\ LT(r, new)
          /\ ~SameLine(old, r) /\ ~SameLine(new, r))
         <=> (LineBefore(old, r) /\ LineBefore(r, new))
  BY <1>1, BetweenIsLineBetween
<1>. QED
  BY <1>2, <1>3, <1>4, Zenon DEF SkipsRelease, NoLineBetween

(* Validate accepts what the policy accepts, for every listing of Release
   CRs and every two versions.                                             *)
LEMMA ValidateIsPolicy ==
    ASSUME NEW U \in SUBSET Semver, NEW l \in Listing(U),
           NEW old \in Semver, NEW new \in Semver
    PROVE  Validate(l, old, new) <=> Policy(l, old, new)
<1>1. isOldOrNewReleaseIgnored(l, old, new) <=> {old, new} \cap l.names \cap l.ignored # {}
  BY DEF isOldOrNewReleaseIgnored, isIgnoredRelease
<1>2. old # new => (~LT(new, old) <=> LT(old, new))
  BY LTTotal, LTAsymmetric
<1>3. LT(old, new) => (~SkipsRelease(l, old, new) <=> NoLineBetween(l, old, new))
  BY SkipsIsLineBetween
<1>. QED
  BY <1>1, <1>2, <1>3 DEF Validate, Policy, included

(* A move that Validate accepts between releases that are not in I, where I
   holds at least the ignored releases, goes forward and leaves out no line
   of S, where S holds active releases only.                               *)
LEMMA ValidateFollowsLines ==
    ASSUME NEW U \in SUBSET Semver, NEW l \in Listing(U),
           NEW old \in Semver, NEW new \in Semver, Validate(l, old, new),
           NEW I, l.ignored \subseteq I,
           NEW S, \A v \in S : Active(l, v)
    PROVE  \/ old = new
           \/ old \in I \/ new \in I
           \/ /\ LT(old, new)
              /\ ~\E v \in S : LineBefore(old, v) /\ LineBefore(v, new)
<1>1. Policy(l, old, new)
  BY ValidateIsPolicy
<1>2. CASE {old, new} \cap l.names \cap l.ignored # {}
  BY <1>2
<1>3. CASE NoLineBetween(l, old, new) /\ LT(old, new)
  <2>1. \A v \in S : v \in l.names
    BY DEF Active
  <2>. QED BY <1>3, <2>1 DEF NoLineBetween
<1>. QED BY <1>1, <1>2, <1>3 DEF Policy

-----------------------------------------------------------------------------
(* The edits of the Release CRs keep them well formed. *)
LEMMA CatalogStep ==
    ASSUME CatalogTypeOK, CatalogNext
    PROVE  CatalogTypeOK'
<1>0. CountMove
  BY Zenon DEF CatalogNext, Publish, Withdraw, Deprecate, SetIgnored, UnsetIgnored, Misname
<1>1. moves' \in 0 .. MaxMoves
  BY <1>0, CatalogAssumption DEF CatalogTypeOK, CountMove
<1>. USE CatalogAssumption DEF CatalogTypeOK, Listing
<1>2. CASE \E v \in Versions : Publish(v)
  BY <1>1, <1>2 DEF Publish
<1>3. CASE \E v \in Versions : Withdraw(v)
  BY <1>1, <1>3 DEF Withdraw
<1>4. CASE \E v \in Versions : Deprecate(v)
  BY <1>1, <1>4 DEF Deprecate
<1>5. CASE \E v \in Versions : SetIgnored(v)
  BY <1>1, <1>5 DEF SetIgnored
<1>6. CASE \E v \in Versions : UnsetIgnored(v)
  BY <1>1, <1>6 DEF UnsetIgnored
<1>7. CASE Misname
  BY <1>1, <1>7 DEF Misname
<1>. QED BY <1>2, <1>3, <1>4, <1>5, <1>6, <1>7 DEF CatalogNext
=============================================================================
