--------------------------- MODULE ReleaseCatalog ---------------------------
(***************************************************************************)
(* The Release CRs of the installation as the handlers use them: who edits *)
(* them is outside the controller, which only lists them through the live  *)
(* client (internal/releaseversion) and gets them by name from an informer *)
(* cache (pkg/release).  Their lists of components never change.           *)
(***************************************************************************)
EXTENDS ReleaseVersion

CONSTANTS
    Versions,    \* the versions that occur
    Published,   \* the versions that have a Release CR initially
    MaxMoves     \* bound on the moves made around the controller

ASSUME CatalogAssumption ==
    /\ Versions \subseteq Semver
    /\ Published \subseteq Versions
    /\ MaxMoves \in Nat

VARIABLES
    releases,    \* the live Release CRs, a Listing
    moves        \* how many moves were made, to bound them

catalogVars == <<releases, moves>>

CatalogTypeOK == releases \in Listing(Versions) /\ moves \in 0 .. MaxMoves

CatalogInit ==
    /\ releases = [names |-> Published, ignored |-> {}, deprecated |-> {},
                   misnamed |-> FALSE]
    /\ moves = 0

\* A move that no request of a client causes: an edit of a Release CR here,
\* a deletion or a report of an operator in the modules that extend this one.
CountMove == moves < MaxMoves /\ moves' = moves + 1

\* A Release CR is created.
Publish(v) ==
    /\ v \notin releases.names
    /\ CountMove
    /\ releases' = [releases EXCEPT !.names = @ \cup {v}]

\* A Release CR is deleted, its annotation and its state with it.
Withdraw(v) ==
    /\ v \in releases.names
    /\ CountMove
    /\ releases' = [releases EXCEPT !.names = @ \ {v}, !.ignored = @ \ {v},
                                    !.deprecated = @ \ {v}]

Deprecate(v) ==
    /\ v \in releases.names \ releases.deprecated
    /\ CountMove
    /\ releases' = [releases EXCEPT !.deprecated = @ \cup {v}]

\* The ignore annotation is set, or removed again.
SetIgnored(v) ==
    /\ v \in releases.names \ releases.ignored
    /\ CountMove
    /\ releases' = [releases EXCEPT !.ignored = @ \cup {v}]

UnsetIgnored(v) ==
    /\ v \in releases.names \cap releases.ignored
    /\ CountMove
    /\ releases' = [releases EXCEPT !.ignored = @ \ {v}]

\* A Release CR whose name is not a version appears, or goes away.
Misname ==
    /\ CountMove
    /\ releases' = [releases EXCEPT !.misnamed = ~@]

CatalogNext ==
    \/ \E v \in Versions : \/ Publish(v) \/ Withdraw(v) \/ Deprecate(v)
                           \/ SetIgnored(v) \/ UnsetIgnored(v)
    \/ Misname
=============================================================================
