--------------------------- MODULE VMCapabilities ---------------------------
(***************************************************************************)
(* internal/vmcapabilities: the cache of Azure's resource SKUs, filled for *)
(* one location at a time, on demand, and shared by all webhook requests.  *)
(*                                                                         *)
(* initCache holds initMutex, getSKU reads the map without it.  That is a  *)
(* data race, and what a read meets is what the Go runtime does: assigning *)
(* a key sets the map's hashWriting flag, inserts the key with a zero      *)
(* value, clears the flag and only then stores the value.  A read that     *)
(* notices the flag ends the process; one that does not goes on with what  *)
(* it sees, which between insertion and store is a nil map.                *)
(*                                                                         *)
(* A SKU is its name: what the handlers make of its capabilities and zones *)
(* is part of the modules for the node pools.                              *)
(***************************************************************************)
CONSTANTS
    Callers,     \* webhook requests that are handled concurrently
    Locations,
    Types,       \* names of VM types
    Empty,       \* the empty text, for a location or a type
    Nobody,      \* no caller
    Offered      \* Azure's catalogue, the VM types offered in each location

ASSUME CapabilitiesAssumption ==
    /\ Empty \notin Locations \cup Types
    /\ Nobody \notin Callers
    /\ Offered \in [Locations -> SUBSET Types]

Operations == {"capability", "zones"}   \* getCapability, SupportedAZs

Query == [op : Operations, location : Locations \cup {Empty}, type : Types \cup {Empty}]

Steps == {"idle", "lookup", "lock", "list", "assign", "insert", "store",
          "unlock", "unlockFailed", "read"}

\* Between Lock and Unlock of initMutex.
Filling == {"list", "assign", "insert", "store", "unlock", "unlockFailed"}

Answers == {"none", "found", "unknown", "failed", "empty"}

VARIABLES
    present,     \* the locations that are keys of the map skus
    skus,        \* the cached VM types per location; a nil map is {}
    writers,     \* who has set the hashWriting flag
    mutex,       \* the holder of initMutex
    step,        \* where each caller is in getSKU and initCache
    query,       \* what it asks
    listing,     \* what List returned to it, while it is in initCache
    answer       \* what it was told

cacheVars == <<present, skus, writers>>
vars == <<present, skus, writers, mutex, step, query, listing, answer>>

TypeOK ==
    /\ present \subseteq Locations
    /\ skus \in [Locations -> SUBSET Types]
    /\ writers \subseteq Callers
    /\ mutex \in Callers \cup {Nobody}
    /\ step \in [Callers -> Steps]
    /\ query \in [Callers -> Query]
    /\ listing \in [Callers -> SUBSET Types]
    /\ answer \in [Callers -> Answers]
    /\ \A c \in Callers : query[c].op = "zones" => answer[c] \notin {"unknown", "failed"}

\* A process that has just started: New makes an empty map.
FreshProcess ==
    /\ present = {}
    /\ skus = [l \in Locations |-> {}]
    /\ writers = {}
    /\ mutex = Nobody
    /\ step = [c \in Callers |-> "idle"]
    /\ listing = [c \in Callers |-> {}]
    /\ answer = [c \in Callers |-> "none"]

Init ==
    /\ FreshProcess
    /\ \E q \in Query : query = [c \in Callers |-> q]

-----------------------------------------------------------------------------
Goto(c, from, to) == step[c] = from /\ step' = [step EXCEPT ![c] = to]

\* Fault: SupportedAZs hands an error on.
FaultyReply(c, from, a) ==
    /\ Goto(c, from, "idle")
    /\ answer' = [answer EXCEPT ![c] = a]

\* The caller is told a; SupportedAZs turns every error into no zones.
Reply(c, from, a) ==
    /\ Goto(c, from, "idle")
    /\ answer' = [answer EXCEPT ![c] = IF a # "found" /\ query[c].op = "zones"
                                       THEN "empty" ELSE a]

\* A handler calls HasCapability, CPUs, Memory or SupportedAZs.
Ask(c, q) ==
    /\ Goto(c, "idle", "lookup")
    /\ query' = [query EXCEPT ![c] = q]
    /\ answer' = [answer EXCEPT ![c] = "none"]
    /\ UNCHANGED <<cacheVars, mutex, listing>>

\* getSKU refuses an empty location or type.
BadRequest(c) ==
    /\ query[c].location = Empty \/ query[c].type = Empty
    /\ Reply(c, "lookup", "failed")
    /\ UNCHANGED <<cacheVars, mutex, query, listing>>

\* The first, unlocked read of the map.
Lookup(c) ==
    /\ query[c].location # Empty /\ query[c].type # Empty
    /\ Goto(c, "lookup", IF query[c].location \in present THEN "read" ELSE "lock")
    /\ UNCHANGED <<cacheVars, mutex, query, listing, answer>>

\* Fault: initCache does not wait for the mutex.
FaultyLock(c) ==
    /\ Goto(c, "lock", "list")
    /\ mutex' = c
    /\ UNCHANGED <<cacheVars, query, listing, answer>>

\* initCache.  The location is not looked up again under the mutex.
Lock(c) ==
    /\ mutex = Nobody
    /\ Goto(c, "lock", "list")
    /\ mutex' = c
    /\ UNCHANGED <<cacheVars, query, listing, answer>>

\* All pages of Azure's listing arrive.
List(c) ==
    /\ Goto(c, "list", "assign")
    /\ listing' = [listing EXCEPT ![c] = Offered[query[c].location]]
    /\ UNCHANGED <<cacheVars, mutex, query, answer>>

\* Fault: a page fails, and the pages before it are cached.
FaultyListFails(c) ==
    /\ Goto(c, "list", "assign")
    /\ \E seen \in SUBSET Offered[query[c].location] :
          listing' = [listing EXCEPT ![c] = seen]
    /\ UNCHANGED <<cacheVars, mutex, query, answer>>

\* Some page fails, or the request is cancelled: what was listed so far is
\* dropped by initCache.
ListFails(c) ==
    /\ Goto(c, "list", "unlockFailed")
    /\ UNCHANGED <<cacheVars, mutex, query, listing, answer>>

\* v.skus[location] = skus: the assignment begins,
BeginAssign(c) ==
    /\ Goto(c, "assign", "insert")
    /\ writers' = writers \cup {c}
    /\ UNCHANGED <<present, skus, mutex, query, listing, answer>>

\* finds or inserts the key,
InsertKey(c) ==
    /\ Goto(c, "insert", "store")
    /\ present' = present \cup {query[c].location}
    /\ writers' = writers \ {c}
    /\ UNCHANGED <<skus, mutex, query, listing, answer>>

\* and stores the value.
StoreElem(c) ==
    /\ Goto(c, "store", "unlock")
    /\ skus' = [skus EXCEPT ![query[c].location] = listing[c]]
    /\ UNCHANGED <<present, writers, mutex, query, listing, answer>>

\* The deferred Unlock, after which getSKU goes on or fails.
Unlock(c) ==
    /\ Goto(c, "unlock", "read")
    /\ mutex' = Nobody
    /\ listing' = [listing EXCEPT ![c] = {}]
    /\ UNCHANGED <<cacheVars, query, answer>>

\* Fault: the mutex is released only on success.
FaultyUnlockFailed(c) ==
    /\ Reply(c, "unlockFailed", "failed")
    /\ UNCHANGED <<cacheVars, mutex, query, listing>>

UnlockFailed(c) ==
    /\ Reply(c, "unlockFailed", "failed")
    /\ mutex' = Nobody
    /\ UNCHANGED <<cacheVars, query, listing>>

\* Fault: the second result of the map read is not looked at.
FaultyRead(c) ==
    /\ Reply(c, "read", "found")
    /\ UNCHANGED <<cacheVars, mutex, query, listing>>

\* The second, unlocked read of the map.
Read(c) ==
    /\ Reply(c, "read", IF query[c].type \in skus[query[c].location] THEN "found"
                                                                     ELSE "unknown")
    /\ UNCHANGED <<cacheVars, mutex, query, listing>>

\* A read or an assignment meets the flag of another goroutine: the runtime
\* ends the process, and the deployment starts a new one.
ConcurrentMapAccess ==
    /\ \E c \in Callers : step[c] \in {"lookup", "read", "assign"} /\ writers \ {c} # {}
    /\ present' = {}
    /\ skus' = [l \in Locations |-> {}]
    /\ writers' = {}
    /\ mutex' = Nobody
    /\ step' = [c \in Callers |-> "idle"]
    /\ listing' = [c \in Callers |-> {}]
    /\ answer' = [c \in Callers |-> "none"]
    /\ UNCHANGED query

GetSKU(c) ==
    \/ BadRequest(c) \/ Lookup(c) \/ List(c) \/ ListFails(c)
    \/ BeginAssign(c) \/ InsertKey(c) \/ StoreElem(c)
    \/ Unlock(c) \/ UnlockFailed(c) \/ Read(c)

Next ==
    \/ \E c \in Callers : GetSKU(c) \/ Lock(c) \/ \E q \in Query : Ask(c, q)
    \/ ConcurrentMapAccess

\* A goroutine that can run does so; List returns, since it is passed the
\* context of the webhook call, which the API server cancels on its timeout;
\* and a sync.Mutex is handed to those who wait in turn once they starve.
Fairness == \A c \in Callers : WF_vars(GetSKU(c)) /\ SF_vars(Lock(c))

Spec == Init /\ [][Next]_vars /\ Fairness

-----------------------------------------------------------------------------
(* Two goroutines never assign to the map at the same time, which would end
   the process: initMutex keeps them apart although the decision to fill the
   cache is made before it is taken.                                       *)
MapWritesExclusive ==
    \A c, d \in Callers :
        /\ c \in writers /\ d \in writers => c = d
        /\ step[c] \in Filling /\ step[d] \in Filling => c = d

(* A location in the cache holds all that Azure offers there, unless its
   value is just being stored: neither a listing that failed halfway nor a
   second fill of the same location leaves a part of it behind.            *)
CachedIsComplete ==
    \A l \in present :
        \/ skus[l] = Offered[l]
        \/ \E c \in Callers : step[c] = "store" /\ query[c].location = l

Oracle == INSTANCE SkuOracle
    WITH Queries <- Query, open <- {c \in Callers : step[c] # "idle"}

(* getSKU implements the oracle: whatever the interleaving with fills of the
   cache, a type is found only where it is offered.                        *)
ImplementsOracle == Oracle!Spec

(* Every question is answered, or dropped by a restart: nobody waits for
   ever for initMutex, failing listings included.                          *)
EveryQuestionEnds == \A c \in Callers : step[c] # "idle" ~> step[c] = "idle"

-----------------------------------------------------------------------------
(* The inductive invariant behind these properties. *)

MutexInv ==
    /\ \A c \in Callers : step[c] \in Filling => mutex = c
    /\ writers = {c \in Callers : step[c] = "insert"}

QueryInv ==
    \A c \in Callers :
        step[c] \in Filling \cup {"lock", "read"} => query[c].location \in Locations

ListingInv ==
    /\ \A c \in Callers :
          step[c] \in {"assign", "insert", "store"}
          => listing[c] = Offered[query[c].location]
    /\ \A l \in Locations : skus[l] \subseteq Offered[l]

IInv == TypeOK /\ MutexInv /\ QueryInv /\ ListingInv /\ CachedIsComplete

-----------------------------------------------------------------------------
(* docs/validating.md on the VM type of an AzureMachinePool: "Check it is a
   valid VM type and it is big enough".  A type is refused as unknown only
   if it is not offered.                                                   *)
OfferedTypeIsKnown ==
    \A c \in Callers :
        answer[c] = "unknown" => query[c].type \notin Offered[query[c].location]
=============================================================================
