------------------------ MODULE VMCapabilitiesProofs ------------------------
(***************************************************************************)
(* The SKU cache for every number of goroutines, locations and VM types:   *)
(* fills exclude each other, only complete listings are cached, and getSKU *)
(* implements the oracle.                                                  *)
(***************************************************************************)
EXTENDS VMCapabilities, TLAPS

(* A controller that has just started satisfies the invariant. *)
LEMMA InitInv == Init => IInv
BY CapabilitiesAssumption
DEF Init, FreshProcess, IInv, TypeOK, MutexInv, QueryInv, ListingInv, CachedIsComplete,
    Steps, Answers, Filling

(* Asking and the steps of getSKU outside the mutex. *)
LEMMA ReaderStep ==
    ASSUME IInv, NEW c \in Callers,
           \/ \E q \in Query : Ask(c, q)
           \/ BadRequest(c) \/ Lookup(c) \/ Read(c)
    PROVE  IInv'
<1>1. CASE \E q \in Query : Ask(c, q)
  <2>1. PICK q \in Query : Ask(c, q)
    BY <1>1
  <2>2. TypeOK'
    BY <2>1 DEF IInv, TypeOK, Ask, Goto, cacheVars, Steps, Answers
  <2>3. MutexInv' /\ QueryInv' /\ ListingInv' /\ CachedIsComplete'
    BY <2>1 DEF IInv, TypeOK, MutexInv, QueryInv, ListingInv, CachedIsComplete,
                Ask, Goto, cacheVars, Filling
  <2>. QED BY <2>2, <2>3 DEF IInv
<1>2. CASE BadRequest(c)
  BY <1>2 DEF IInv, TypeOK, MutexInv, QueryInv, ListingInv, CachedIsComplete,
              BadRequest, Reply, Goto, cacheVars, Filling, Steps, Answers
<1>3. CASE Lookup(c)
  BY <1>3 DEF IInv, TypeOK, MutexInv, QueryInv, ListingInv, CachedIsComplete,
              Lookup, Goto, cacheVars, Filling, Steps, Query
<1>4. CASE Read(c)
  BY <1>4 DEF IInv, TypeOK, MutexInv, QueryInv, ListingInv, CachedIsComplete,
              Read, Reply, Goto, cacheVars, Filling, Steps, Answers
<1>. QED BY <1>1, <1>2, <1>3, <1>4

(* Taking initMutex, listing, and releasing initMutex. *)
LEMMA MutexStep ==
    ASSUME IInv, NEW c \in Callers,
           Lock(c) \/ List(c) \/ ListFails(c) \/ Unlock(c) \/ UnlockFailed(c)
    PROVE  IInv'
<1>0. Nobody \notin Callers
  BY CapabilitiesAssumption
<1>1. CASE Lock(c)
  BY <1>0, <1>1 DEF IInv, TypeOK, MutexInv, QueryInv, ListingInv, CachedIsComplete,
                    Lock, Goto, cacheVars, Filling, Steps
<1>2. CASE List(c)
  BY <1>2, CapabilitiesAssumption
  DEF IInv, TypeOK, MutexInv, QueryInv, ListingInv, CachedIsComplete,
      List, Goto, cacheVars, Filling, Steps
<1>3. CASE ListFails(c)
  BY <1>3 DEF IInv, TypeOK, MutexInv, QueryInv, ListingInv, CachedIsComplete,
              ListFails, Goto, cacheVars, Filling, Steps
<1>4. CASE Unlock(c)
  BY <1>0, <1>4 DEF IInv, TypeOK, MutexInv, QueryInv, ListingInv, CachedIsComplete,
                    Unlock, Goto, cacheVars, Filling, Steps
<1>5. CASE UnlockFailed(c)
  BY <1>0, <1>5 DEF IInv, TypeOK, MutexInv, QueryInv, ListingInv, CachedIsComplete,
                    UnlockFailed, Reply, Goto, cacheVars, Filling, Steps, Answers
<1>. QED BY <1>1, <1>2, <1>3, <1>4, <1>5

(* The three phases of the assignment to the map. *)
LEMMA AssignStep ==
    ASSUME IInv, NEW c \in Callers, BeginAssign(c) \/ InsertKey(c) \/ StoreElem(c)
    PROVE  IInv'
<1>1. CASE BeginAssign(c)
  BY <1>1 DEF IInv, TypeOK, MutexInv, QueryInv, ListingInv, CachedIsComplete,
              BeginAssign, Goto, Filling, Steps
<1>2. CASE InsertKey(c)
  <2>1. TypeOK' /\ MutexInv' /\ QueryInv' /\ ListingInv'
    BY <1>2 DEF IInv, TypeOK, MutexInv, QueryInv, ListingInv,
                InsertKey, Goto, Filling, Steps
  <2>2. CachedIsComplete'
    BY <1>2 DEF IInv, TypeOK, CachedIsComplete, InsertKey, Goto, Steps
  <2>. QED BY <2>1, <2>2 DEF IInv
<1>3. CASE StoreElem(c)
  <2>1. TypeOK' /\ MutexInv' /\ QueryInv'
    BY <1>3 DEF IInv, TypeOK, MutexInv, QueryInv, StoreElem, Goto, Filling, Steps
  <2>2. query[c].location \in Locations /\ listing[c] = Offered[query[c].location]
    BY <1>3 DEF IInv, QueryInv, ListingInv, StoreElem, Goto, Filling
  <2>3. skus' = [skus EXCEPT ![query[c].location] = Offered[query[c].location]]
    BY <1>3, <2>2 DEF StoreElem
  <2>4. ListingInv'
    BY <1>3, <2>2, <2>3 DEF IInv, TypeOK, ListingInv, StoreElem, Goto
  <2>5. CachedIsComplete'
    BY <1>3, <2>2, <2>3 DEF IInv, TypeOK, CachedIsComplete, StoreElem, Goto
  <2>. QED BY <2>1, <2>4, <2>5 DEF IInv
<1>. QED BY <1>1, <1>2, <1>3

(* A crash of the process loses the cache. *)
LEMMA CrashStep == ASSUME IInv, ConcurrentMapAccess PROVE IInv'
BY DEF IInv, TypeOK, MutexInv, QueryInv, ListingInv, CachedIsComplete,
       ConcurrentMapAccess, Filling, Steps, Answers

(* Every step preserves the invariant. *)
LEMMA NextInv == IInv /\ [Next]_vars => IInv'
<1> SUFFICES ASSUME IInv, [Next]_vars PROVE IInv'
  OBVIOUS
<1>1. CASE \E c \in Callers : GetSKU(c) \/ Lock(c) \/ \E q \in Query : Ask(c, q)
  BY <1>1, ReaderStep, MutexStep, AssignStep DEF GetSKU
<1>2. CASE ConcurrentMapAccess
  BY <1>2, CrashStep
<1>3. CASE UNCHANGED vars
  BY <1>3 DEF vars, IInv, TypeOK, MutexInv, QueryInv, ListingInv, CachedIsComplete
<1>. QED BY <1>1, <1>2, <1>3 DEF Next

(* The invariant holds in every reachable state. *)
THEOREM InductiveInvariant == Spec => []IInv
BY InitInv, NextInv, PTL DEF Spec

(* The type invariant. *)
THEOREM TypeCorrect == Spec => []TypeOK
<1>1. IInv => TypeOK
  BY DEF IInv
<1>. QED BY <1>1, InductiveInvariant, PTL

(* initMutex makes the fills of the cache, and so the assignments to the map,
   exclude each other.                                                     *)
THEOREM ExclusionCorrect == Spec => []MapWritesExclusive
<1>1. IInv => MapWritesExclusive
  BY DEF IInv, MutexInv, MapWritesExclusive, Filling
<1>. QED BY <1>1, InductiveInvariant, PTL

(* No part of a listing is ever cached. *)
THEOREM CompleteCorrect == Spec => []CachedIsComplete
<1>1. IInv => CachedIsComplete
  BY DEF IInv
<1>. QED BY <1>1, InductiveInvariant, PTL

-----------------------------------------------------------------------------
(* A step of getSKU is an answer of the oracle or invisible to it. *)
LEMMA GetSKUImplements ==
    ASSUME IInv, NEW c \in Callers, GetSKU(c) \/ Lock(c)
    PROVE  Oracle!Reply(c) \/ UNCHANGED Oracle!vars
<1>1. CASE BadRequest(c)
  BY <1>1 DEF BadRequest, Reply, Goto, IInv, TypeOK, Oracle!Reply, Oracle!Denials
<1>2. CASE UnlockFailed(c)
  BY <1>2 DEF UnlockFailed, Reply, Goto, IInv, TypeOK, Oracle!Reply, Oracle!Denials
<1>3. CASE Read(c)
  <2>1. query[c].location \in Locations
    BY <1>3 DEF Read, Reply, Goto, IInv, QueryInv, Filling
  <2>2. query[c].type \in skus[query[c].location]
        => query[c].type \in Offered[query[c].location]
    BY <2>1 DEF IInv, ListingInv
  <2>. QED BY <1>3, <2>2 DEF Read, Reply, Goto, IInv, TypeOK, Oracle!Reply, Oracle!Denials
<1>4. ASSUME NEW from \in Steps \ {"idle"}, NEW to \in Steps \ {"idle"},
             Goto(c, from, to), UNCHANGED <<query, answer>>
      PROVE  UNCHANGED Oracle!vars
  BY <1>4 DEF Goto, IInv, TypeOK, Oracle!vars
<1>5. CASE Lookup(c)
  BY <1>4, <1>5 DEF Lookup, Steps
<1>6. CASE Lock(c) \/ List(c) \/ ListFails(c)
  BY <1>4, <1>6 DEF Lock, List, ListFails, Steps
<1>7. CASE BeginAssign(c) \/ InsertKey(c) \/ StoreElem(c) \/ Unlock(c)
  BY <1>4, <1>7 DEF BeginAssign, InsertKey, StoreElem, Unlock, Steps
<1>. QED BY <1>1, <1>2, <1>3, <1>5, <1>6, <1>7 DEF GetSKU

(* getSKU implements the oracle: a VM type is reported as found only if it
   is offered, for every interleaving.                                     *)
THEOREM OracleCorrect == Spec => ImplementsOracle
<1>1. Init => Oracle!Init
  BY DEF Init, FreshProcess, Oracle!Init
<1>2. IInv /\ [Next]_vars => [Oracle!Next]_(Oracle!vars)
  <2> SUFFICES ASSUME IInv, [Next]_vars PROVE [Oracle!Next]_(Oracle!vars)
    OBVIOUS
  <2>1. CASE \E c \in Callers : GetSKU(c) \/ Lock(c)
    BY <2>1, GetSKUImplements DEF Oracle!Next
  <2>2. CASE \E c \in Callers : \E q \in Query : Ask(c, q)
    <3>1. PICK c \in Callers, q \in Query : Ask(c, q)
      BY <2>2
    <3>2. Oracle!Ask(c, q)
      BY <3>1 DEF Ask, Goto, IInv, TypeOK, Oracle!Ask
    <3>. QED BY <3>2 DEF Oracle!Next
  <2>3. CASE ConcurrentMapAccess
    BY <2>3 DEF ConcurrentMapAccess, Oracle!Next, Oracle!Restart
  <2>4. CASE UNCHANGED vars
    BY <2>4 DEF vars, Oracle!vars
  <2>. QED BY <2>1, <2>2, <2>3, <2>4 DEF Next
<1>. QED BY <1>1, <1>2, InductiveInvariant, PTL DEF Spec, ImplementsOracle, Oracle!Spec
=============================================================================
