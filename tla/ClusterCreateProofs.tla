------------------------- MODULE ClusterCreateProofs -------------------------
(***************************************************************************)
(* Proofs about ClusterCreate, for any number of requests, any releases,   *)
(* labels, organizations and proposals.  IInv of ClusterCreate is          *)
(* inductive; the properties follow from it.                               *)
(***************************************************************************)
EXTENDS ClusterCreate, ReleaseVersionProofs

(* A request that has not begun or has ended is no live one. *)
LEMMA IdleOrDone ==
    /\ Idle \notin Request /\ Done \notin Request
    /\ Idle.step \notin Steps /\ Done.step \notin Steps
BY DEF Idle, Done, Request, Steps

(* A request at one of the steps is a live one. *)
LEMMA LiveRequest ==
    ASSUME IInv, NEW r \in Requests, reqs[r].step \in Steps
    PROVE  /\ reqs[r] \in Request
           /\ reqs[r].mutated => Ensured(reqs[r])
           /\ RequestOK(reqs[r])
<1>1. reqs[r] \notin {Idle, Done}
  BY IdleOrDone, Zenon
<1>. QED BY <1>1, Zenon DEF IInv, TypeOK, RequestInv

-----------------------------------------------------------------------------
(* A step that changes one request and nothing else. *)
LEMMA RequestStep ==
    ASSUME IInv, NEW r \in Requests, NEW q, reqs' = [reqs EXCEPT ![r] = q],
           \/ q \in {Idle, Done}
           \/ q \in Request /\ (q.mutated => Ensured(q)) /\ RequestOK(q),
           Unaffected
    PROVE  IInv'
<1>1. /\ DOMAIN reqs' = Requests
      /\ reqs'[r] = q
      /\ \A s \in Requests \ {r} : reqs'[s] = reqs[s]
  BY DEF IInv, TypeOK
<1>2. q \in Request => RequestOK(q)
  BY IdleOrDone, Zenon
<1>3. UNCHANGED azurePast
  BY DEF Unaffected, historyVars
<1>4. TypeOK'
  <2>1. \A s \in Requests :
           \/ reqs'[s] \in {Idle, Done}
           \/ reqs'[s] \in Request /\ (reqs'[s].mutated => Ensured(reqs'[s]))
    BY <1>1, Zenon DEF IInv, TypeOK
  <2>. QED BY <1>1, <2>1 DEF IInv, TypeOK, CatalogTypeOK, Unaffected, historyVars, Ensured
<1>5. PastInv' /\ CopyInv'
  BY DEF IInv, PastInv, CopyInv, Stems, Unaffected, historyVars
<1>6. RequestInv'
  <2>1. \A s \in Requests : reqs'[s] \in Request => RequestOK(reqs'[s])
    BY <1>1, <1>2, Zenon DEF IInv, RequestInv
  <2>. QED BY <1>3, <2>1 DEF RequestInv, RequestOK, Stems
<1>. QED BY <1>4, <1>5, <1>6 DEF IInv

(* A step that leaves the requests, the objects and their history alone. *)
LEMMA SurroundingsStep ==
    ASSUME IInv, CatalogTypeOK', cached' \subseteq Versions, orgs' \subseteq Organizations,
           UNCHANGED <<store, reqs, historyVars>>
    PROVE  IInv'
<1>1. TypeOK'
  BY DEF IInv, TypeOK, historyVars, Ensured
<1>2. PastInv' /\ CopyInv'
  BY DEF IInv, PastInv, CopyInv, Stems, historyVars
<1>3. RequestInv'
  BY DEF IInv, RequestInv, RequestOK, Stems, historyVars
<1>. QED BY <1>1, <1>2, <1>3 DEF IInv

(* A bounded move leaves the releases well formed. *)
LEMMA MoveStep ==
    ASSUME IInv, CountMove, UNCHANGED releases
    PROVE  CatalogTypeOK'
BY CatalogAssumption DEF IInv, TypeOK, CatalogTypeOK, CountMove

-----------------------------------------------------------------------------
(* What the mutators do to an object *)

(* The mutator of a Cluster, for one that it can give a label. *)
LEMMA ClusterMutatedFields ==
    ASSUME IInv, NEW o \in Object, CanCopyOperatorLabel(o)
    PROVE  LET m == ClusterMutated(o)
           IN  /\ m \in Object
               /\ m.host # "" /\ m.port # "" /\ m.network # "nil"
               /\ m.azureOp # NoLabel
               /\ o.azureOp = NoLabel => Stems(m)
<1>. DEFINE op == CopyOperatorLabel(o)
<1>1. /\ op \in Labels /\ op # NoLabel
      /\ o.azureOp = NoLabel => \E a \in azurePast : a.azureOp = op
  <2>1. CASE o.azureOp = NoLabel
    <3>1. /\ store["AzureCluster"] # Absent /\ store["AzureCluster"].azureOp # NoLabel
          /\ op = store["AzureCluster"].azureOp
      BY <2>1, Zenon DEF CanCopyOperatorLabel, CopyOperatorLabel
    <3>2. store["AzureCluster"] \in azurePast /\ store["AzureCluster"] \in Object
      BY <3>1, Zenon DEF IInv, PastInv, TypeOK
    <3>3. store["AzureCluster"].azureOp \in Labels
      BY <3>2 DEF Object
    <3>. QED BY <2>1, <3>1, <3>2, <3>3, Zenon
  <2>2. CASE o.azureOp # NoLabel
    <3>1. op = o.azureOp
      BY <2>2, Zenon DEF CopyOperatorLabel
    <3>2. o.azureOp \in Labels
      BY DEF Object
    <3>. QED BY <2>2, <3>1, <3>2, Zenon
  <2>. QED BY <2>1, <2>2
<1>. HIDE DEF op
<1>. DEFINE net == ensureClusterNetwork(o.network)
            host == Default(o.host)
            port == Default(o.port)
<1>2. net \in {"noPort", "right", "other"} /\ host \in Text \ {""} /\ port \in Text \ {""}
  BY DEF Object, Text, ensureClusterNetwork, Default
<1>3. PICK m : m = [o EXCEPT !.network = net, !.host = host, !.port = port, !.azureOp = op]
  OBVIOUS
<1>. HIDE DEF net, host, port
<1>4. ClusterMutated(o) = m
  BY <1>3, Zenon DEF ClusterMutated, op, net, host, port
<1>5. /\ m \in Object
      /\ m.network = net /\ m.host = host /\ m.port = port /\ m.azureOp = op
  BY <1>1, <1>2, <1>3 DEF Object, Text
<1>6. o.azureOp = NoLabel => Stems(m)
  BY <1>1, <1>5 DEF Stems
<1>7. m.host # "" /\ m.port # "" /\ m.network # "nil"
  BY <1>2, <1>5
<1>. QED BY <1>1, <1>4, <1>5, <1>6, <1>7

(* The mutator of an AzureCluster, for one whose release is known, whatever
   CAPZ defaults.                                                          *)
LEMMA AzureClusterMutatedFields ==
    ASSUME NEW o \in Object, CanEnsureComponentVersionLabel(o),
           NEW m \in Defaulted(o, AzureClusterMutated(o))
    PROVE  /\ m \in Object
           /\ m.host # "" /\ m.port # "" /\ m.location # "" /\ m.apiServerLB # ""
           /\ m.azureOp = Operator[m.release] /\ m.azureOp # NoLabel
<1>1. o.release \in Versions
  BY DEF CanEnsureComponentVersionLabel, Object
<1>2. Operator[o.release] \in Labels /\ Operator[o.release] # NoLabel
  BY <1>1, CreateAssumption DEF CanEnsureComponentVersionLabel
<1>. DEFINE op == Operator[o.release]
            loc == Default(o.location)
            host == Default(o.host)
            port == Default(o.port)
<1>3. loc \in Text \ {""} /\ host \in Text \ {""} /\ port \in Text \ {""}
  BY DEF Object, Text, Default
<1>4. PICK p : p = [[o EXCEPT !.apiServerLB = "right"] EXCEPT
                        !.host = host, !.port = port, !.location = loc, !.azureOp = op]
  OBVIOUS
<1>5. AzureClusterMutated(o) = p
  BY <1>4 DEF AzureClusterMutated, ensureAPIServerLB, Object
<1>. HIDE DEF loc, host, port, op
<1>6. /\ p \in Object /\ p.apiServerLB = "right" /\ p.release = o.release
      /\ p.location = loc /\ p.host = host /\ p.port = port /\ p.azureOp = op
  BY <1>2, <1>3, <1>4 DEF Object, Text, op
<1>7. m = p \/ m = [p EXCEPT !.apiServerLB = "other"]
  BY <1>5 DEF Defaulted
<1>8. /\ m \in Object /\ m.apiServerLB # "" /\ m.release = p.release
      /\ m.location = p.location /\ m.host = p.host /\ m.port = p.port /\ m.azureOp = p.azureOp
  BY <1>6, <1>7 DEF Object, Text
<1>9. m.host # "" /\ m.port # "" /\ m.location # ""
  BY <1>3, <1>6, <1>8
<1>. QED BY <1>2, <1>6, <1>8, <1>9 DEF op

-----------------------------------------------------------------------------
(* The steps of a request *)

(* A new request carries what was sent. *)
LEMMA SubmitStep ==
    ASSUME IInv, NEW r \in Requests, NEW k \in Kinds, NEW o \in Proposals[k], Submit(r, k, o)
    PROVE  IInv'
<1>1. o \in Object
  BY CreateAssumption
<1>2. PICK q : q = [step |-> "mutateFilter", kind |-> k, sent |-> o, new |-> o, mutated |-> FALSE]
  OBVIOUS
<1>3. /\ q \in Request
      /\ ~q.mutated /\ q.new = q.sent
  BY <1>1, <1>2 DEF Request, Steps
<1>4. RequestOK(q)
  BY <1>3, Zenon DEF RequestOK
<1>. QED BY <1>2, <1>3, <1>4, RequestStep DEF Submit

(* A request that goes on without a change keeps what it carries; it does not
   come back to its mutation.                                              *)
LEMMA AdvanceStep ==
    ASSUME IInv, NEW r \in Requests, NEW from \in Steps, NEW to \in Steps,
           Advance(r, from, to),
           to \in {"mutateFilter", "mutate"} => from \in {"mutateFilter", "mutate"}
    PROVE  IInv'
<1>1. /\ reqs[r] \in Request
      /\ reqs[r].mutated => Ensured(reqs[r])
      /\ RequestOK(reqs[r])
  BY LiveRequest DEF Advance
<1>2. PICK q : q = [reqs[r] EXCEPT !.step = to]
  OBVIOUS
<1>3. /\ q \in Request /\ q.step = to
      /\ q.kind = reqs[r].kind /\ q.sent = reqs[r].sent
      /\ q.new = reqs[r].new /\ q.mutated = reqs[r].mutated
  BY <1>1, <1>2 DEF Request, Steps
<1>4. q.mutated => Ensured(q)
  BY <1>1, <1>3, Zenon DEF Ensured
<1>5. RequestOK(q)
  BY <1>1, <1>3, Zenon DEF RequestOK, Advance
<1>. QED BY <1>2, <1>3, <1>4, <1>5, RequestStep DEF Advance

(* A denial. *)
LEMMA DenyStep ==
    ASSUME IInv, NEW r \in Requests, NEW s, Deny(r, s)
    PROVE  IInv'
BY RequestStep DEF Deny

(* The mutating webhook fills in what is missing. *)
LEMMA MutateStep ==
    ASSUME IInv, NEW r \in Requests, OnCreateMutate(r)
    PROVE  IInv'
<1>. DEFINE old == reqs[r]
<1>1. /\ old \in Request /\ old.step = "mutate"
      /\ RequestOK(old)
      /\ CanMutate(old)
  BY LiveRequest DEF OnCreateMutate, Steps
<1>2. old.new = old.sent
  BY <1>1, Zenon DEF RequestOK
<1>3. old.sent \in Object /\ old.kind \in Kinds
  BY <1>1 DEF Request
<1>4. PICK m \in Mutated(old) :
         reqs' = [reqs EXCEPT ![r] = [old EXCEPT !.step = "validateFilter",
                                                 !.mutated = TRUE, !.new = m]]
  BY Zenon DEF OnCreateMutate
<1>5. PICK q : q = [old EXCEPT !.step = "validateFilter", !.mutated = TRUE, !.new = m]
  OBVIOUS
<1>6. reqs' = [reqs EXCEPT ![r] = q] /\ Unaffected
  BY <1>4, <1>5, Zenon DEF OnCreateMutate
<1>7. ASSUME old.kind = "Cluster" PROVE IInv'
  <2>1. m = ClusterMutated(old.sent) /\ CanCopyOperatorLabel(old.sent)
    BY <1>1, <1>2, <1>4, <1>7, Zenon DEF CanMutate, Mutated
  <2>2. /\ m \in Object
        /\ m.host # "" /\ m.port # "" /\ m.network # "nil"
        /\ m.azureOp # NoLabel
        /\ old.sent.azureOp = NoLabel => Stems(m)
    BY <1>3, <2>1, ClusterMutatedFields
  <2>3. /\ q \in Request /\ q.step = "validateFilter" /\ q.mutated
        /\ q.kind = "Cluster" /\ q.sent = old.sent /\ q.new = m
    BY <1>1, <1>5, <1>7, <2>2 DEF Request, Steps
  <2>4. q.kind # "AzureCluster" /\ q.step \notin {"mutateFilter", "mutate"}
    BY <2>3
  <2>5. Ensured(q)
    BY <2>2, <2>3, <2>4, Zenon DEF Ensured
  <2>6. RequestOK(q)
    BY <2>2, <2>3, <2>4, Zenon DEF RequestOK
  <2>. QED BY <1>6, <2>3, <2>5, <2>6, RequestStep
<1>8. ASSUME old.kind # "Cluster" PROVE IInv'
  <2>1. /\ m \in Defaulted(old.sent, AzureClusterMutated(old.sent))
        /\ CanEnsureComponentVersionLabel(old.sent)
    BY <1>1, <1>2, <1>4, <1>8, Zenon DEF CanMutate, Mutated
  <2>2. /\ m \in Object
        /\ m.host # "" /\ m.port # "" /\ m.location # "" /\ m.apiServerLB # ""
        /\ m.azureOp = Operator[m.release] /\ m.azureOp # NoLabel
    BY <1>3, <2>1, AzureClusterMutatedFields
  <2>3. /\ q \in Request /\ q.step = "validateFilter" /\ q.mutated
        /\ q.kind = old.kind /\ q.sent = old.sent /\ q.new = m
    BY <1>1, <1>5, <2>2 DEF Request, Steps
  <2>4. q.kind # "Cluster" /\ q.step \notin {"mutateFilter", "mutate"}
    BY <1>8, <2>3
  <2>5. Ensured(q)
    BY <2>2, <2>3, <2>4, Zenon DEF Ensured
  <2>6. RequestOK(q)
    BY <2>2, <2>3, <2>4, Zenon DEF RequestOK
  <2>. QED BY <1>6, <2>3, <2>5, <2>6, RequestStep
<1>. QED BY <1>7, <1>8

(* The write of an object that does not exist yet. *)
LEMMA WriteStep ==
    ASSUME IInv, NEW r \in Requests, Write(r)
    PROVE  IInv'
<1>. DEFINE q == reqs[r]
<1>1. /\ q \in Request /\ RequestOK(q)
      /\ store[q.kind] = Absent
      /\ store' = [store EXCEPT ![q.kind] = q.new]
      /\ reqs' = [reqs EXCEPT ![r] = Done]
  BY LiveRequest DEF Write, Steps
<1>2. q.kind \in Kinds /\ q.new \in Object /\ q.mutated \in BOOLEAN
  BY <1>1 DEF Request
<1>3. azurePast \subseteq azurePast' /\ azurePast' \subseteq Object
  BY <1>2, Zenon DEF Write, IInv, TypeOK
<1>4. /\ store' \in [Kinds -> Object \cup {Absent}]
      /\ store'[q.kind] = q.new
      /\ \A k \in Kinds \ {q.kind} : store'[k] = store[k]
  BY <1>1, <1>2 DEF IInv, TypeOK
<1>5. /\ DOMAIN reqs' = Requests /\ reqs'[r] = Done
      /\ \A s \in Requests \ {r} : reqs'[s] = reqs[s]
  BY <1>1 DEF IInv, TypeOK
<1>6. bypassed' \subseteq Kinds /\ bypassed \subseteq bypassed'
  BY <1>2, Zenon DEF Write, IInv, TypeOK
<1>7. copied' \in BOOLEAN
  BY <1>2, Zenon DEF Write, IInv, TypeOK
<1>8. TypeOK'
  <2>1. \A s \in Requests :
           \/ reqs'[s] \in {Idle, Done}
           \/ reqs'[s] \in Request /\ (reqs'[s].mutated => Ensured(reqs'[s]))
    BY <1>5, Zenon DEF IInv, TypeOK
  <2>2. CatalogTypeOK' /\ cached' \subseteq Versions /\ orgs' \subseteq Organizations
    BY DEF Write, IInv, TypeOK, CatalogTypeOK
  <2>. QED BY <1>3, <1>4, <1>5, <1>6, <1>7, <2>1, <2>2 DEF TypeOK, Ensured
<1>9. PastInv'
  <2>1. CASE q.kind = "AzureCluster"
    <3>1. azurePast' = azurePast \cup {q.new} /\ store'["AzureCluster"] = q.new
      BY <1>4, <2>1, Zenon DEF Write
    <3>2. ASSUME "AzureCluster" \notin bypassed', NEW a \in azurePast'
          PROVE  a.azureOp = Operator[a.release]
      <4>1. q.mutated
        BY <2>1, <3>2, Zenon DEF Write
      <4>2. q.new.azureOp = Operator[q.new.release]
        BY <1>1, <2>1, <4>1, Zenon DEF RequestOK
      <4>. QED BY <1>6, <3>1, <3>2, <4>2, Zenon DEF IInv, PastInv
    <3>. QED BY <3>1, <3>2, Zenon DEF PastInv
  <2>2. CASE q.kind # "AzureCluster"
    <3>1. azurePast' = azurePast /\ store'["AzureCluster"] = store["AzureCluster"]
      BY <1>4, <2>2 DEF Write, Kinds
    <3>. QED BY <1>6, <3>1, Zenon DEF IInv, PastInv
  <2>. QED BY <2>1, <2>2
<1>10. CopyInv'
  <2>1. CASE q.kind = "Cluster"
    <3>1. store'["Cluster"] = q.new /\ q.new # Absent
      BY <1>2, <1>4, <2>1, CreateAssumption
    <3>2. copied' => Stems(q.new)
      BY <1>1, <2>1, Zenon DEF Write, RequestOK
    <3>3. Stems(q.new) => \E a \in azurePast' : a.azureOp = q.new.azureOp
      BY <1>3, Zenon DEF Stems
    <3>. QED BY <3>1, <3>2, <3>3 DEF CopyInv, Stems
  <2>2. CASE q.kind # "Cluster"
    <3>1. copied' = copied /\ store'["Cluster"] = store["Cluster"]
      BY <1>4, <2>2 DEF Write, Kinds
    <3>. QED BY <1>3, <3>1, Zenon DEF IInv, CopyInv, Stems
  <2>. QED BY <2>1, <2>2
<1>11. RequestInv'
  <2>1. \A s \in Requests : reqs'[s] \in Request => RequestOK(reqs'[s])
    BY <1>5, IdleOrDone, Zenon DEF IInv, RequestInv
  <2>2. \A o : Stems(o) => \E a \in azurePast' : a.azureOp = o.azureOp
    BY <1>3, Zenon DEF Stems
  <2>. QED BY <2>1, <2>2, Zenon DEF RequestInv, RequestOK, Stems
<1>. QED BY <1>8, <1>9, <1>10, <1>11 DEF IInv

(* Every step of the handling of a request. *)
LEMMA HandleStep ==
    ASSUME IInv, NEW r \in Requests, HandleRequest(r)
    PROVE  IInv'
<1>1. CASE MutateFilter(r)
  BY <1>1, AdvanceStep DEF MutateFilter, Steps
<1>2. CASE OnCreateMutate(r)
  BY <1>2, MutateStep
<1>3. CASE OnCreateMutateFails(r)
  BY <1>3, DenyStep DEF OnCreateMutateFails
<1>4. CASE ValidateFilter(r)
  BY <1>4, AdvanceStep DEF ValidateFilter, Steps
<1>5. CASE OnCreateValidate(r)
  BY <1>5, AdvanceStep, DenyStep DEF OnCreateValidate, Steps
<1>6. CASE Refuse(r)
  BY <1>6, DenyStep DEF Refuse
<1>7. CASE Write(r)
  BY <1>7, WriteStep
<1>8. CASE AlreadyExists(r)
  BY <1>8, DenyStep DEF AlreadyExists
<1>. QED
  BY <1>1, <1>2, <1>3, <1>4, <1>5, <1>6, <1>7, <1>8 DEF HandleRequest

-----------------------------------------------------------------------------
(* The moves around the controller *)

(* A deletion: what was stored stays in the history. *)
LEMMA DeleteStep ==
    ASSUME IInv, NEW k \in Kinds, Delete(k)
    PROVE  IInv'
<1>1. /\ store' \in [Kinds -> Object \cup {Absent}]
      /\ store'[k] = Absent
      /\ \A j \in Kinds \ {k} : store'[j] = store[j]
  BY DEF Delete, IInv, TypeOK
<1>2. copied' \in BOOLEAN /\ (copied' => copied /\ k # "Cluster")
  BY DEF Delete
<1>3. CatalogTypeOK'
  BY MoveStep DEF Delete
<1>4. TypeOK'
  BY <1>1, <1>2, <1>3 DEF Delete, IInv, TypeOK, Ensured
<1>5. PastInv'
  <2>1. store'["AzureCluster"] \in azurePast \cup {Absent}
    BY <1>1 DEF IInv, PastInv, Kinds
  <2>. QED BY <2>1 DEF Delete, IInv, PastInv
<1>6. CopyInv'
  <2>1. copied' => store'["Cluster"] = store["Cluster"]
    BY <1>1, <1>2 DEF Kinds
  <2>. QED BY <1>2, <2>1, Zenon DEF Delete, IInv, CopyInv, Stems
<1>7. RequestInv'
  BY DEF Delete, IInv, RequestInv, RequestOK, Stems
<1>. QED BY <1>4, <1>5, <1>6, <1>7 DEF IInv

(* IInv is an inductive invariant: the requests, the deletions and the edits
   of Release CRs and Organizations keep it, in any order.                 *)
THEOREM InductiveInvariant == Spec => []IInv
<1>1. Init => IInv
  <2>. SUFFICES ASSUME Init PROVE IInv
    OBVIOUS
  <2>1. CatalogTypeOK
    BY CatalogAssumption DEF Init, CatalogInit, CatalogTypeOK, Listing
  <2>2. TypeOK
    BY <2>1, CatalogAssumption DEF Init, TypeOK
  <2>3. PastInv /\ CopyInv
    BY DEF Init, PastInv, CopyInv, Kinds
  <2>4. RequestInv
    BY IdleOrDone DEF Init, RequestInv
  <2>. QED BY <2>2, <2>3, <2>4 DEF IInv
<1>2. IInv /\ [Next]_vars => IInv'
  <2>. SUFFICES ASSUME IInv, [Next]_vars PROVE IInv'
    OBVIOUS
  <2>1. ASSUME NEW r \in Requests, NEW k \in Kinds, NEW o \in Proposals[k], Submit(r, k, o)
        PROVE  IInv'
    BY <2>1, SubmitStep
  <2>2. ASSUME NEW r \in Requests, HandleRequest(r) PROVE IInv'
    BY <2>2, HandleStep
  <2>3. ASSUME NEW k \in Kinds, Delete(k) PROVE IInv'
    BY <2>3, DeleteStep
  <2>4. ASSUME NEW org \in Organizations, EditOrganization(org) PROVE IInv'
    <3>1. CatalogTypeOK'
      BY <2>4, MoveStep DEF EditOrganization
    <3>2. orgs' \subseteq Organizations
      BY <2>4, Zenon DEF EditOrganization, IInv, TypeOK
    <3>. QED BY <2>4, <3>1, <3>2, SurroundingsStep DEF EditOrganization, IInv, TypeOK
  <2>5. CASE EditReleases
    <3>1. CatalogTypeOK'
      BY <2>5, CatalogStep DEF EditReleases, IInv, TypeOK
    <3>. QED BY <2>5, <3>1, SurroundingsStep DEF EditReleases, IInv, TypeOK
  <2>6. CASE SyncCache
    <3>1. cached' \subseteq Versions
      BY <2>6 DEF SyncCache, IInv, TypeOK, CatalogTypeOK, Listing
    <3>. QED BY <2>6, <3>1, SurroundingsStep DEF SyncCache, IInv, TypeOK, CatalogTypeOK
  <2>7. CASE UNCHANGED vars
    BY <2>7, SurroundingsStep DEF vars, historyVars, IInv, TypeOK, CatalogTypeOK
  <2>. QED BY <2>1, <2>2, <2>3, <2>4, <2>5, <2>6, <2>7 DEF Next
<1>. QED BY <1>1, <1>2, PTL DEF Spec

(* Every request is well formed at every step, and nothing that the mutators
   provide is left open in one that has passed them.                       *)
THEOREM TypeCorrect == Spec => []TypeOK
<1>1. IInv => TypeOK
  BY DEF IInv
<1>. QED BY <1>1, InductiveInvariant, PTL

(* The operator label a Cluster copied is one that an AzureCluster had, and
   the operator of its release if every AzureCluster was mutated and had that
   release.                                                                *)
THEOREM CopyCorrect == Spec => []CopiedOperatorFitsRelease
<1>1. IInv => CopiedOperatorFitsRelease
  <2>. SUFFICES ASSUME IInv, copied
                PROVE  LET c == store["Cluster"]
                       IN  /\ \E a \in azurePast : a.azureOp = c.azureOp
                           /\ (/\ "AzureCluster" \notin bypassed
                               /\ \A a \in azurePast : a.release = c.release)
                              => c.azureOp = Operator[c.release]
    BY Zenon DEF CopiedOperatorFitsRelease
  <2>1. PICK a \in azurePast : a.azureOp = store["Cluster"].azureOp
    BY Zenon DEF IInv, CopyInv, Stems
  <2>. QED BY <2>1, Zenon DEF IInv, PastInv
<1>. QED BY <1>1, InductiveInvariant, PTL
=============================================================================
