---------------------------- MODULE NodePoolProofs ----------------------------
(***************************************************************************)
(* Proofs about NodePool, for any number of requests, any releases, VM     *)
(* types and proposals.  IInv of NodePool is inductive; the properties     *)
(* follow from it.                                                         *)
(***************************************************************************)
EXTENDS NodePool, TLAPS

-----------------------------------------------------------------------------
(* The patches of a MachinePool *)

(* Patching satisfies its recursive definition: a function that does is
   written down for as many patches as the mutator makes.                  *)
LEMMA PatchingUnfold ==
    ASSUME NEW o, NEW patches, NEW n \in 0..3, Len(patches) = n
    PROVE  /\ Patching(o, patches)[0] = o
           /\ \A i \in 1..n :
                 Patching(o, patches)[i] = Apply(Patching(o, patches)[i - 1], patches[i])
<1>. DEFINE f == [i \in 0..n |->
                     IF i = 0 THEN o ELSE IF i = 1 THEN Apply(o, patches[1])
                     ELSE IF i = 2 THEN Apply(Apply(o, patches[1]), patches[2])
                     ELSE Apply(Apply(Apply(o, patches[1]), patches[2]), patches[3])]
            P(g) == g = [i \in 0..n |-> IF i = 0 THEN o ELSE Apply(g[i - 1], patches[i])]
<1>1. P(f)
  <2>1. \A i \in 0..n : f[i] = IF i = 0 THEN o ELSE Apply(f[i - 1], patches[i])
    OBVIOUS
  <2>2. f = [i \in 0..n |-> f[i]]
    OBVIOUS
  <2>. HIDE DEF f
  <2>. QED BY <2>1, <2>2
<1>. HIDE DEF f
<1>2. P(CHOOSE g : P(g))
  <2>. HIDE DEF P
  <2>. QED BY <1>1
<1>3. Patching(o, patches) = CHOOSE g : P(g)
  BY Zenon DEF Patching
<1>4. P(Patching(o, patches))
  BY <1>2, <1>3
<1>. QED BY <1>4

(* The object after up to three patches. *)
LEMMA PatchedUpToThree ==
    ASSUME NEW o, NEW s
    PROVE  /\ Len(s) = 0 => Patched(o, s) = o
           /\ Len(s) = 1 => Patched(o, s) = Apply(o, s[1])
           /\ Len(s) = 2 => Patched(o, s) = Apply(Apply(o, s[1]), s[2])
           /\ Len(s) = 3 => Patched(o, s) = Apply(Apply(Apply(o, s[1]), s[2]), s[3])
<1>1. CASE Len(s) = 0
  BY <1>1, PatchingUnfold DEF Patched
<1>2. CASE Len(s) = 1
  BY <1>2, PatchingUnfold DEF Patched
<1>3. CASE Len(s) = 2
  BY <1>3, PatchingUnfold DEF Patched
<1>4. CASE Len(s) = 3
  BY <1>4, PatchingUnfold DEF Patched
<1>. QED BY <1>1, <1>2, <1>3, <1>4

(* The fields that the patches of the mutator set. *)
LEMMA ApplyField ==
    ASSUME NEW o \in MachinePool, NEW p, p.value \in Counts
    PROVE  /\ p.path = "min" => /\ Apply(o, p) = [o EXCEPT !.min = p.value]
                                /\ Apply(o, p) \in MachinePool
           /\ p.path = "max" => /\ Apply(o, p) = [o EXCEPT !.max = p.value]
                                /\ Apply(o, p) \in MachinePool
           /\ p.path = "replicas" => /\ Apply(o, p) = [o EXCEPT !.replicas = p.value]
                                     /\ Apply(o, p) \in MachinePool
BY DEF Apply, MachinePool

\* A patch that is made under a condition, and what it does.
Optional(p, a) == IF p THEN <<a>> ELSE << >>
Step(o, p, a) == IF p THEN Apply(o, a) ELSE o

(* One optional patch after the other. *)
LEMMA PatchedInTurn ==
    ASSUME NEW o, NEW a, NEW b, NEW c,
           NEW p \in BOOLEAN, NEW q \in BOOLEAN, NEW r \in BOOLEAN
    PROVE  Patched(o, Optional(p, a) \o Optional(q, b) \o Optional(r, c))
             = Step(Step(Step(o, p, a), q, b), r, c)
<1>. DEFINE options == Optional(p, a) \o Optional(q, b) \o Optional(r, c)
<1>. SUFFICES ASSUME NEW s PROVE s = options => Patched(o, s) = Step(Step(Step(o, p, a), q, b), r, c)
  OBVIOUS
<1>1. CASE ~p /\ ~q /\ ~r
  <2>1. options = << >> \o << >> \o << >>
    BY <1>1, Zenon DEF Optional
  <2>2. Step(Step(Step(o, p, a), q, b), r, c) = o
    BY <1>1, Zenon DEF Step
  <2>3. ASSUME s = << >> \o << >> \o << >> PROVE Patched(o, s) = o
    <3>1. Len(s) = 0
      BY <2>3
    <3>. QED BY <3>1, PatchedUpToThree
  <2>. HIDE DEF options
  <2>. QED BY <2>1, <2>2, <2>3, Zenon
<1>2. CASE p /\ ~q /\ ~r
  <2>1. options = <<a>> \o << >> \o << >>
    BY <1>2, Zenon DEF Optional
  <2>2. Step(Step(Step(o, p, a), q, b), r, c) = Apply(o, a)
    BY <1>2, Zenon DEF Step
  <2>3. ASSUME s = <<a>> \o << >> \o << >> PROVE Patched(o, s) = Apply(o, a)
    <3>1. Len(s) = 1 /\ s[1] = a
      BY <2>3
    <3>. QED BY <3>1, PatchedUpToThree
  <2>. HIDE DEF options
  <2>. QED BY <2>1, <2>2, <2>3, Zenon
<1>3. CASE ~p /\ q /\ ~r
  <2>1. options = << >> \o <<b>> \o << >>
    BY <1>3, Zenon DEF Optional
  <2>2. Step(Step(Step(o, p, a), q, b), r, c) = Apply(o, b)
    BY <1>3, Zenon DEF Step
  <2>3. ASSUME s = << >> \o <<b>> \o << >> PROVE Patched(o, s) = Apply(o, b)
    <3>1. Len(s) = 1 /\ s[1] = b
      BY <2>3
    <3>. QED BY <3>1, PatchedUpToThree
  <2>. HIDE DEF options
  <2>. QED BY <2>1, <2>2, <2>3, Zenon
<1>4. CASE ~p /\ ~q /\ r
  <2>1. options = << >> \o << >> \o <<c>>
    BY <1>4, Zenon DEF Optional
  <2>2. Step(Step(Step(o, p, a), q, b), r, c) = Apply(o, c)
    BY <1>4, Zenon DEF Step
  <2>3. ASSUME s = << >> \o << >> \o <<c>> PROVE Patched(o, s) = Apply(o, c)
    <3>1. Len(s) = 1 /\ s[1] = c
      BY <2>3
    <3>. QED BY <3>1, PatchedUpToThree
  <2>. HIDE DEF options
  <2>. QED BY <2>1, <2>2, <2>3, Zenon
<1>5. CASE p /\ q /\ ~r
  <2>1. options = <<a>> \o <<b>> \o << >>
    BY <1>5, Zenon DEF Optional
  <2>2. Step(Step(Step(o, p, a), q, b), r, c) = Apply(Apply(o, a), b)
    BY <1>5, Zenon DEF Step
  <2>3. ASSUME s = <<a>> \o <<b>> \o << >> PROVE Patched(o, s) = Apply(Apply(o, a), b)
    <3>1. Len(s) = 2 /\ s[1] = a /\ s[2] = b
      BY <2>3
    <3>. QED BY <3>1, PatchedUpToThree
  <2>. HIDE DEF options
  <2>. QED BY <2>1, <2>2, <2>3, Zenon
<1>6. CASE p /\ ~q /\ r
  <2>1. options = <<a>> \o << >> \o <<c>>
    BY <1>6, Zenon DEF Optional
  <2>2. Step(Step(Step(o, p, a), q, b), r, c) = Apply(Apply(o, a), c)
    BY <1>6, Zenon DEF Step
  <2>3. ASSUME s = <<a>> \o << >> \o <<c>> PROVE Patched(o, s) = Apply(Apply(o, a), c)
    <3>1. Len(s) = 2 /\ s[1] = a /\ s[2] = c
      BY <2>3
    <3>. QED BY <3>1, PatchedUpToThree
  <2>. HIDE DEF options
  <2>. QED BY <2>1, <2>2, <2>3, Zenon
<1>7. CASE ~p /\ q /\ r
  <2>1. options = << >> \o <<b>> \o <<c>>
    BY <1>7, Zenon DEF Optional
  <2>2. Step(Step(Step(o, p, a), q, b), r, c) = Apply(Apply(o, b), c)
    BY <1>7, Zenon DEF Step
  <2>3. ASSUME s = << >> \o <<b>> \o <<c>> PROVE Patched(o, s) = Apply(Apply(o, b), c)
    <3>1. Len(s) = 2 /\ s[1] = b /\ s[2] = c
      BY <2>3
    <3>. QED BY <3>1, PatchedUpToThree
  <2>. HIDE DEF options
  <2>. QED BY <2>1, <2>2, <2>3, Zenon
<1>8. CASE p /\ q /\ r
  <2>1. options = <<a>> \o <<b>> \o <<c>>
    BY <1>8, Zenon DEF Optional
  <2>2. Step(Step(Step(o, p, a), q, b), r, c) = Apply(Apply(Apply(o, a), b), c)
    BY <1>8, Zenon DEF Step
  <2>3. ASSUME s = <<a>> \o <<b>> \o <<c>> PROVE Patched(o, s) = Apply(Apply(Apply(o, a), b), c)
    <3>1. LET t == <<a>> \o <<b>> \o <<c>> IN Len(t) = 3 /\ t[1] = a /\ t[2] = b /\ t[3] = c
      OBVIOUS
    <3>2. Len(s) = 3 /\ s[1] = a /\ s[2] = b /\ s[3] = c
      BY <2>3, <3>1, Zenon
    <3>. QED BY <3>2, PatchedUpToThree
  <2>. HIDE DEF options
  <2>. QED BY <2>1, <2>2, <2>3, Zenon
<1>. QED BY <1>1, <1>2, <1>3, <1>4, <1>5, <1>6, <1>7, <1>8, Zenon

(* OnCreateMutate and OnUpdateMutate of a MachinePool: the patches make a
   range, leave everything else alone, and leave a range alone.            *)
LEMMA MachinePatched ==
    ASSUME NEW o \in MachinePool, NEW n, n = Patched(o, MachinePatches(o))
    PROVE  /\ n \in MachinePool
           /\ n.release = o.release /\ n.operator = o.operator
           /\ HasRange(n)
           /\ KeptRange(o) => n.min = o.min /\ n.max = o.max
<1>1. /\ Counts \subseteq Int /\ defaultReplicas \in Counts
      /\ Unset \notin Counts /\ NoNumber \notin Counts
      /\ o.min \in Counts \cup {Unset, NoNumber} /\ o.max \in Counts \cup {Unset, NoNumber}
      /\ o.replicas \in Counts \cup {Unset}
  BY NodePoolAssumption DEF MachinePool
<1>2. PICK replicas \in Counts :
         replicas = IF o.replicas = Unset THEN defaultReplicas ELSE o.replicas
  BY <1>1
<1>3. PICK noMin \in BOOLEAN : noMin <=> ~(IsNumber(o.min) /\ o.min >= 0)
  OBVIOUS
<1>4. PICK min \in Counts : min = IF noMin THEN replicas ELSE o.min
  BY <1>1, <1>2, <1>3 DEF IsNumber
<1>5. PICK noMax \in BOOLEAN : noMax <=> ~(IsNumber(o.max) /\ o.max >= min)
  OBVIOUS
<1>6. PICK max \in Counts : max = IF noMax THEN min ELSE o.max
  BY <1>1, <1>4, <1>5 DEF IsNumber
<1>7. PICK a : a = Patch(IF o.min = Unset THEN "add" ELSE "replace", "min", replicas)
  OBVIOUS
<1>8. PICK b : b = Patch(IF o.max = Unset THEN "add" ELSE "replace", "max", min)
  OBVIOUS
<1>9. PICK c : c = Patch("add", "replicas", defaultReplicas)
  OBVIOUS
<1>10. PICK x : x = Step(o, noMin, a)
  OBVIOUS
<1>11. PICK y : y = Step(x, noMax, b)
  OBVIOUS
<1>12. PICK unset \in BOOLEAN : unset <=> o.replicas = Unset
  OBVIOUS
<1>13. n = Step(y, unset, c)
  <2>1. MachinePatches(o) =
           (IF IsNumber(o.min) /\ o.min >= 0 THEN << >> ELSE <<a>>)
           \o (IF IsNumber(o.max) /\ o.max >= min THEN << >> ELSE <<b>>)
           \o (IF o.replicas = Unset THEN <<c>> ELSE << >>)
    BY <1>2, <1>3, <1>4, <1>7, <1>8, <1>9, Zenon
       DEF MachinePatches, ensureAutoscalingAnnotations, PatchAnnotation, DefaultPatches
  <2>2. /\ (IF IsNumber(o.min) /\ o.min >= 0 THEN << >> ELSE <<a>>) = Optional(noMin, a)
        /\ (IF IsNumber(o.max) /\ o.max >= min THEN << >> ELSE <<b>>) = Optional(noMax, b)
        /\ (IF o.replicas = Unset THEN <<c>> ELSE << >>) = Optional(unset, c)
    BY <1>3, <1>5, <1>12, Zenon DEF Optional
  <2>3. MachinePatches(o) = Optional(noMin, a) \o Optional(noMax, b) \o Optional(unset, c)
    BY <2>1, <2>2, Zenon
  <2>4. Patched(o, Optional(noMin, a) \o Optional(noMax, b) \o Optional(unset, c))
          = Step(Step(Step(o, noMin, a), noMax, b), unset, c)
    BY PatchedInTurn
  <2>. QED BY <1>10, <1>11, <2>3, <2>4, Zenon
<1>14. x = [o EXCEPT !.min = min] /\ x \in MachinePool
  <2>1. CASE ~noMin
    BY <1>4, <1>10, <2>1 DEF MachinePool, Step
  <2>2. CASE noMin
    <3>1. a.path = "min" /\ a.value = min
      BY <1>4, <1>7, <2>2 DEF Patch
    <3>. QED BY <1>10, <2>2, <3>1, ApplyField DEF Step
  <2>. QED BY <2>1, <2>2
<1>15. y = [x EXCEPT !.max = max] /\ y \in MachinePool
  <2>1. CASE ~noMax
    BY <1>6, <1>11, <1>14, <2>1 DEF MachinePool, Step
  <2>2. CASE noMax
    <3>1. b.path = "max" /\ b.value = max
      BY <1>6, <1>8, <2>2 DEF Patch
    <3>. QED BY <1>11, <1>14, <2>2, <3>1, ApplyField DEF Step
  <2>. QED BY <2>1, <2>2
<1>16. n = [y EXCEPT !.replicas = replicas] /\ n \in MachinePool
  <2>1. CASE ~unset
    BY <1>2, <1>12, <1>13, <1>14, <1>15, <2>1 DEF MachinePool, Step
  <2>2. CASE unset
    <3>1. c.path = "replicas" /\ c.value = replicas
      BY <1>2, <1>9, <1>12, <2>2 DEF Patch
    <3>2. n = Apply(y, c)
      BY <1>13, <2>2 DEF Step
    <3>3. Apply(y, c) = [y EXCEPT !.replicas = replicas] /\ Apply(y, c) \in MachinePool
      BY <1>15, <3>1, ApplyField
    <3>. QED BY <3>2, <3>3
  <2>. QED BY <2>1, <2>2
<1>17. /\ n.release = o.release /\ n.operator = o.operator
       /\ n.min = min /\ n.max = max /\ n.replicas = replicas
  BY <1>14, <1>15, <1>16 DEF MachinePool
<1>18. min <= max
  <2>1. CASE noMax
    BY <1>1, <1>6, <2>1
  <2>2. CASE ~noMax
    BY <1>1, <1>5, <1>6, <2>2
  <2>. QED BY <2>1, <2>2
<1>19. replicas >= 0 => min >= 0
  <2>1. CASE noMin
    BY <1>1, <1>4, <2>1
  <2>2. CASE ~noMin
    BY <1>1, <1>3, <1>4, <2>2
  <2>. QED BY <2>1, <2>2
<1>20. HasRange(n)
  BY <1>1, <1>17, <1>18, <1>19 DEF HasRange, IsNumber
<1>21. KeptRange(o) => min = o.min /\ max = o.max
  BY <1>1, <1>3, <1>4, <1>5, <1>6 DEF KeptRange, IsNumber
<1>. QED BY <1>16, <1>17, <1>20, <1>21

-----------------------------------------------------------------------------
(* The frame: what changes of one variable leave of the invariant *)

(* A request that is under way has its type and the invariant. *)
LEMMA UnderWay ==
    ASSUME IInv, NEW r \in Requests, reqs[r].step \notin {"idle", "done"}
    PROVE  /\ reqs[r] \notin {Idle, Done}
           /\ \E k \in Kinds : reqs[r] \in Request(k)
           /\ RequestOK(reqs[r])
<1>1. reqs[r] \notin {Idle, Done}
  BY DEF Idle, Done
<1>. QED BY <1>1 DEF IInv, TypeOK, RequestInv

(* A step of one request. *)
LEMMA RequestStep ==
    ASSUME IInv, NEW r \in Requests, NEW q,
           \/ q \in {Idle, Done}
           \/ (\E k \in Kinds : q \in Request(k)) /\ RequestOK(q),
           q.step = "operator" => Ensured(q),
           reqs' = [reqs EXCEPT ![r] = q], Unaffected
    PROVE  IInv'
<1>1. /\ UNCHANGED <<clusterRelease, azureRelease, azureOperator, clusterHistory, azureHistory>>
      /\ UNCHANGED <<store, vmHistory, unchecked, unmutated>>
  BY DEF Unaffected, clusterVars
<1>2. DOMAIN reqs = Requests
  BY DEF IInv, TypeOK
<1>3. reqs'[r] = q /\ \A s \in Requests \ {r} : reqs'[s] = reqs[s]
  BY <1>2
<1>4. TypeOK'
  <2>1. DOMAIN reqs' = Requests
    BY <1>2
  <2>2. \A s \in Requests : \/ reqs'[s] \in {Idle, Done}
                            \/ \E k \in Kinds : reqs'[s] \in Request(k)
    BY <1>3 DEF IInv, TypeOK
  <2>3. \A s \in Requests : reqs'[s].step = "operator" => Ensured(reqs'[s])
    BY <1>3 DEF IInv, TypeOK, Ensured
  <2>4. \A s \in Requests : reqs'[s].step = "operator" => Ensured(reqs[s])'
    BY <2>3 DEF Ensured
  <2>. QED BY <1>1, <2>1, <2>2, <2>4 DEF IInv, TypeOK
<1>5. UpwardsOnly' /\ PoolInv' /\ MachineInv'
  BY <1>1 DEF IInv, UpwardsOnly, AzureLabels, PoolInv, MachineInv, WereSupported
<1>6. RequestInv'
  <2>1. \A s \in Requests : reqs'[s] \notin {Idle, Done} => RequestOK(reqs'[s])
    BY <1>3 DEF IInv, RequestInv
  <2>. QED BY <1>1, <2>1 DEF RequestInv, RequestOK, Passed, WereSupported
<1>. QED BY <1>4, <1>5, <1>6 DEF IInv

(* A step of the Cluster or its AzureCluster. *)
LEMMA ClusterStep ==
    ASSUME IInv, UpwardsOnly', clusterRelease' \in Releases, azureRelease' \in Releases,
           azureOperator' \in Operators,
           clusterHistory' \subseteq Releases, azureHistory' \subseteq Labels,
           azureHistory \subseteq azureHistory',
           UNCHANGED <<store, reqs, vmHistory, unchecked, unmutated>>
    PROVE  IInv'
<1>1. TypeOK'
  BY DEF IInv, TypeOK, Ensured
<1>2. PoolInv' /\ MachineInv'
  BY DEF IInv, PoolInv, MachineInv, WereSupported
<1>3. RequestInv'
  BY DEF IInv, RequestInv, RequestOK, Passed, WereSupported
<1>. QED BY <1>1, <1>2, <1>3 DEF IInv

(* What becomes of a request when the object of kind k is written. *)
LEMMA OutdatedRequest ==
    ASSUME IInv, NEW k \in Kinds, NEW r \in Requests
    PROVE  /\ \/ Outdated(k)[r] \in {Idle, Done}
              \/ \E j \in Kinds : Outdated(k)[r] \in Request(j)
           /\ Outdated(k)[r].step = "operator" => Ensured(Outdated(k)[r])
           /\ Outdated(k)[r] \notin {Idle, Done}
              => LET q == reqs[r]
                     n == Outdated(k)[r]
                 IN  /\ q \notin {Idle, Done}
                     /\ n.kind = q.kind /\ n.old = q.old /\ n.new = q.new
                     /\ n.step = q.step /\ n.checked = q.checked /\ n.copied = q.copied
                     /\ n.mutated = q.mutated /\ n.scales = q.scales
                     /\ ~n.stale => ~q.stale /\ q.kind # k
<1>1. CASE reqs[r] \in {Idle, Done}
  BY <1>1 DEF Outdated, IInv, TypeOK
<1>2. CASE reqs[r] \notin {Idle, Done}
  <2>1. PICK j \in Kinds : reqs[r] \in Request(j)
    BY <1>2 DEF IInv, TypeOK
  <2>2. reqs[r].step = "operator" => Ensured(reqs[r])
    BY DEF IInv, TypeOK
  <2>3. CASE reqs[r].kind # k
    BY <1>2, <2>1, <2>2, <2>3 DEF Outdated
  <2>4. CASE reqs[r].kind = k
    <3>1. Outdated(k)[r] = [reqs[r] EXCEPT !.stale = TRUE]
      BY <1>2, <2>4 DEF Outdated
    <3>2. PICK n : n = [reqs[r] EXCEPT !.stale = TRUE]
      OBVIOUS
    <3>3. /\ n \in Request(j) /\ n.stale
          /\ n.kind = reqs[r].kind /\ n.old = reqs[r].old /\ n.new = reqs[r].new
          /\ n.step = reqs[r].step /\ n.checked = reqs[r].checked /\ n.copied = reqs[r].copied
          /\ n.mutated = reqs[r].mutated /\ n.scales = reqs[r].scales
      BY <2>1, <3>2 DEF Request
    <3>. QED BY <1>2, <2>2, <3>1, <3>2, <3>3 DEF Ensured
  <2>. QED BY <2>3, <2>4
<1>. QED BY <1>1, <1>2

(* A write or a deletion of the object of kind k. *)
LEMMA StoreStep ==
    ASSUME IInv, NEW k \in Kinds, NEW o \in Objects(k) \cup {Absent}, Stored(k, o),
           unchecked' \subseteq Kinds, unchecked \subseteq unchecked', unmutated' \in BOOLEAN,
           UNCHANGED clusterVars, DOMAIN reqs' = Requests,
           \A r \in Requests : reqs'[r] = Done \/ reqs'[r] = Outdated(k)[r],
           PoolInv', MachineInv'
    PROVE  IInv'
<1>1. /\ UNCHANGED <<clusterRelease, azureRelease, azureOperator, clusterHistory, azureHistory>>
      /\ vmHistory \subseteq vmHistory'
  BY DEF clusterVars, Stored
<1>2. /\ DOMAIN store' = Kinds /\ store'[k] = o
      /\ \A j \in Kinds \ {k} : store'[j] = store[j]
  BY DEF IInv, TypeOK, Stored
<1>3. TypeOK'
  <2>1. \A r \in Requests : /\ \/ reqs'[r] \in {Idle, Done}
                               \/ \E j \in Kinds : reqs'[r] \in Request(j)
                            /\ reqs'[r].step = "operator" => Ensured(reqs'[r])
    BY OutdatedRequest DEF Done
  <2>2. \A r \in Requests : reqs'[r].step = "operator" => Ensured(reqs[r])'
    BY <2>1 DEF Ensured
  <2>3. vmHistory' \subseteq VMTypes
    <3>1. vmHistory \subseteq VMTypes
      BY DEF IInv, TypeOK
    <3>2. (k = "AzureMachinePool" /\ o # Absent) => o.vmSize \in VMTypes
      BY DEF Objects, AzureMachinePool
    <3>. QED BY <3>1, <3>2 DEF Stored
  <2>4. \A j \in Kinds : store'[j] \in Objects(j) \cup {Absent}
    BY <1>2 DEF IInv, TypeOK
  <2>. QED BY <1>1, <1>2, <2>1, <2>2, <2>3, <2>4 DEF IInv, TypeOK
<1>4. UpwardsOnly'
  BY <1>1 DEF IInv, UpwardsOnly, AzureLabels
<1>5. RequestInv'
  <2>. SUFFICES ASSUME NEW r \in Requests, reqs'[r] \notin {Idle, Done}
                PROVE  RequestOK(reqs[r])'
    BY DEF RequestInv
  <2>1. reqs'[r] = Outdated(k)[r]
    OBVIOUS
  <2>2. PICK q : q = reqs[r]
    OBVIOUS
  <2>3. PICK n : n = reqs'[r]
    OBVIOUS
  <2>4. /\ q \notin {Idle, Done}
        /\ n.kind = q.kind /\ n.old = q.old /\ n.new = q.new
        /\ n.step = q.step /\ n.checked = q.checked /\ n.copied = q.copied
        /\ n.mutated = q.mutated /\ n.scales = q.scales
        /\ ~n.stale => ~q.stale /\ q.kind # k
    BY <2>1, <2>2, <2>3, OutdatedRequest
  <2>5. RequestOK(q) /\ q.kind \in Kinds
    BY <2>2, <2>4 DEF IInv, RequestInv, TypeOK, Request
  <2>6. ~n.stale => n.old = store'[n.kind]
    BY <1>2, <2>4, <2>5 DEF RequestOK
  <2>7. n.checked => n.step = "write" /\ Passed(n)'
    BY <1>1, <2>4, <2>5 DEF RequestOK, Passed, WereSupported
  <2>8. /\ "release" \in n.copied => \E w \in azureHistory : n.new.release = w.release
        /\ n.copied = {"release", "operator"}
           => \E w \in azureHistory : n.new.release <= w.release /\ n.new.operator = w.operator
        /\ (n.mutated /\ n.kind = "MachinePool") => HasRange(n.new)
        /\ n.scales => /\ n.kind = "MachinePool" /\ n.old # Absent
                       /\ KeptRange(n.old) => n.new.min = n.old.min /\ n.new.max = n.old.max
    BY <2>4, <2>5 DEF RequestOK
  <2>9. RequestOK(n)'
    BY <1>1, <2>6, <2>7, <2>8 DEF RequestOK
  <2>. QED BY <2>3, <2>9 DEF RequestOK, Passed, WereSupported
<1>. QED BY <1>3, <1>4, <1>5 DEF IInv

-----------------------------------------------------------------------------
(* The steps of a request *)

LEMMA SubmitStep ==
    ASSUME IInv, NEW r \in Requests, NEW k \in Kinds, NEW o \in Objects(k),
           NEW scales \in BOOLEAN,
           scales => /\ k = "MachinePool" /\ store[k] # Absent
                     /\ o.min = store[k].min /\ o.max = store[k].max,
           Submit(r, k, o, scales)
    PROVE  IInv'
<1>1. store[k] \in Objects(k) \cup {Absent}
  BY DEF IInv, TypeOK
<1>2. PICK new : new = IF store[k] = Absent THEN o ELSE [o EXCEPT !.deleting = store[k].deleting]
  OBVIOUS
<1>3. new \in Objects(k) /\ (k = "MachinePool" => new.min = o.min /\ new.max = o.max)
  <2>1. CASE k = "MachinePool"
    BY <1>1, <1>2, <2>1 DEF Objects, MachinePool
  <2>2. CASE k = "AzureMachinePool"
    BY <1>1, <1>2, <2>2 DEF Objects, AzureMachinePool
  <2>. QED BY <2>1, <2>2 DEF Kinds
<1>4. PICK q : q = [step |-> "mutateFilter", kind |-> k, old |-> store[k], new |-> new,
                    stale |-> FALSE, checked |-> FALSE, mutated |-> FALSE,
                    scales |-> scales, copied |-> {}]
  OBVIOUS
<1>5. q \in Request(k)
  BY <1>1, <1>3, <1>4 DEF Request, Steps
<1>6. RequestOK(q)
  BY <1>3, <1>4 DEF RequestOK
<1>7. reqs' = [reqs EXCEPT ![r] = q] /\ Unaffected
  BY <1>2, <1>4 DEF Submit
<1>8. q.step # "operator"
  BY <1>4
<1>. QED BY <1>5, <1>6, <1>7, <1>8, RequestStep

LEMMA ScaleStep ==
    ASSUME IInv, NEW r \in Requests, NEW n \in Counts, Scale(r, n)
    PROVE  IInv'
<1>1. PICK m \in MachinePool : m = store["MachinePool"] /\ m # Absent
  BY DEF Scale, IInv, TypeOK, Kinds, Objects
<1>2. PICK o : o = [m EXCEPT !.replicas = n]
  OBVIOUS
<1>3. o \in MachinePool /\ o.min = m.min /\ o.max = m.max
  BY <1>1, <1>2 DEF MachinePool
<1>4. Submit(r, "MachinePool", o, TRUE)
  BY <1>1, <1>2 DEF Scale
<1>. QED BY <1>1, <1>3, <1>4, SubmitStep DEF Kinds, Objects

(* A request that only goes on to its next step. *)
LEMMA AdvanceStep ==
    ASSUME IInv, NEW r \in Requests, NEW from \in Steps \ {"idle", "write", "done"},
           NEW to \in Steps \ {"operator"}, Advance(r, from, to)
    PROVE  IInv'
<1>1. /\ RequestOK(reqs[r]) /\ reqs[r].step = from
      /\ \E k \in Kinds : reqs[r] \in Request(k)
  BY UnderWay DEF Advance
<1>2. PICK k \in Kinds : reqs[r] \in Request(k)
  BY <1>1
<1>3. PICK q : q = [reqs[r] EXCEPT !.step = to]
  OBVIOUS
<1>4. /\ q \in Request(k) /\ q.step = to
      /\ q.kind = reqs[r].kind /\ q.old = reqs[r].old /\ q.new = reqs[r].new
      /\ q.checked = reqs[r].checked /\ q.copied = reqs[r].copied
      /\ q.mutated = reqs[r].mutated /\ q.scales = reqs[r].scales /\ q.stale = reqs[r].stale
  BY <1>2, <1>3 DEF Request
<1>5. RequestOK(q)
  BY <1>1, <1>4 DEF RequestOK
<1>6. reqs' = [reqs EXCEPT ![r] = q] /\ Unaffected
  BY <1>3 DEF Advance
<1>. QED BY <1>4, <1>5, <1>6, RequestStep

LEMMA DenyStep ==
    ASSUME IInv, NEW r \in Requests, NEW from, Deny(r, from)
    PROVE  IInv'
<1>1. Done.step # "operator"
  BY DEF Done
<1>. QED BY <1>1, RequestStep DEF Deny

(* ensureLocation, ensureStorageAccountType and ensureDataDisks leave no
   default open.                                                           *)
LEMMA PoolEnsured ==
    ASSUME NEW p \in AzureMachinePool, NEW n, n = EnsurePool(p)
    PROVE  /\ n \in AzureMachinePool /\ n.release = p.release /\ n.operator = p.operator
           /\ n.location # "" /\ n.storage # "" /\ n.dataDisks # "none"
<1>1. Home \in Locations /\ "" \notin Locations
  BY NodePoolAssumption
<1>2. PICK location \in Locations : location = IF p.location = "" THEN Home ELSE p.location
  BY <1>1 DEF AzureMachinePool
<1>3. PICK storage \in {"Premium_LRS", "Standard_LRS", "other"} :
         storage = IF p.storage # "" THEN p.storage
                   ELSE IF Sku[location][p.vmSize].premium THEN "Premium_LRS" ELSE "Standard_LRS"
  BY DEF AzureMachinePool
<1>4. PICK disks \in {"desired", "other"} :
         disks = IF p.dataDisks = "none" THEN "desired" ELSE p.dataDisks
  BY DEF AzureMachinePool
<1>5. n = [p EXCEPT !.location = location, !.storage = storage, !.dataDisks = disks]
  BY <1>2, <1>3, <1>4 DEF EnsurePool
<1>6. n \in AzureMachinePool
  BY <1>5 DEF AzureMachinePool
<1>7. /\ n.release = p.release /\ n.operator = p.operator
      /\ n.location = location /\ n.storage = storage /\ n.dataDisks = disks
  BY <1>5 DEF AzureMachinePool
<1>. QED BY <1>1, <1>6, <1>7

(* OnCreateMutate and OnUpdateMutate, of either kind. *)
LEMMA ObjectEnsured ==
    ASSUME NEW k \in Kinds, NEW q \in Request(k), NEW n, n = EnsureObject(q)
    PROVE  /\ n \in Objects(k) /\ n.release = q.new.release /\ n.operator = q.new.operator
           /\ k = "AzureMachinePool" => n.location # "" /\ n.storage # "" /\ n.dataDisks # "none"
           /\ k = "MachinePool" => /\ HasRange(n)
                                   /\ KeptRange(q.new) => n.min = q.new.min /\ n.max = q.new.max
<1>1. q.kind = k /\ q.new \in Objects(k)
  BY DEF Request
<1>2. CASE k = "AzureMachinePool"
  <2>1. q.new \in AzureMachinePool /\ n = EnsurePool(q.new)
    BY <1>1, <1>2 DEF EnsureObject, Objects
  <2>. QED BY <1>2, <2>1, PoolEnsured DEF Objects
<1>3. CASE k = "MachinePool"
  <2>1. q.new \in MachinePool /\ n = Patched(q.new, MachinePatches(q.new))
    BY <1>1, <1>3 DEF EnsureObject, Objects
  <2>. QED BY <1>3, <2>1, MachinePatched DEF Objects
<1>. QED BY <1>2, <1>3 DEF Kinds

LEMMA EnsureStep ==
    ASSUME IInv, NEW r \in Requests, Ensure(r)
    PROVE  IInv'
<1>1. /\ RequestOK(reqs[r]) /\ reqs[r].step = "ensure" /\ reqs[r].old = Absent
      /\ \E k \in Kinds : reqs[r] \in Request(k)
  BY UnderWay DEF Ensure
<1>2. PICK k \in Kinds : reqs[r] \in Request(k)
  BY <1>1
<1>3. PICK e : e = EnsureObject(reqs[r])
  OBVIOUS
<1>4. /\ e \in Objects(k) /\ e.release = reqs[r].new.release
      /\ k = "AzureMachinePool" => e.location # "" /\ e.storage # "" /\ e.dataDisks # "none"
      /\ k = "MachinePool" => HasRange(e)
  BY <1>2, <1>3, ObjectEnsured
<1>5. PICK n : n = EnsureReleaseVersionLabel(e)
  OBVIOUS
<1>6. /\ azureRelease \in Releases /\ NoRelease \notin Releases
      /\ \E w \in azureHistory : w.release = azureRelease
  BY NodePoolAssumption DEF IInv, TypeOK, UpwardsOnly, AzureLabels
<1>7. /\ n \in Objects(k) /\ n.release # NoRelease
      /\ e.release = NoRelease => n.release = azureRelease
      /\ k = "AzureMachinePool" => n.location # "" /\ n.storage # "" /\ n.dataDisks # "none"
      /\ k = "MachinePool" => HasRange(n)
  <2>1. CASE k = "MachinePool"
    <3>1. /\ n \in MachinePool /\ n.release # NoRelease
          /\ e.release = NoRelease => n.release = azureRelease
          /\ n.replicas = e.replicas /\ n.min = e.min /\ n.max = e.max
      BY <1>4, <1>5, <1>6, <2>1 DEF Objects, MachinePool, EnsureReleaseVersionLabel
    <3>. QED BY <1>4, <2>1, <3>1 DEF Objects, HasRange
  <2>2. CASE k = "AzureMachinePool"
    BY <1>4, <1>5, <1>6, <2>2 DEF Objects, AzureMachinePool, EnsureReleaseVersionLabel
  <2>. QED BY <2>1, <2>2 DEF Kinds
<1>8. PICK c \in SUBSET {"release", "operator"} :
         c = IF reqs[r].new.release = NoRelease THEN {"release"} ELSE {}
  OBVIOUS
<1>9. PICK q : q = [reqs[r] EXCEPT !.step = "operator", !.mutated = TRUE, !.new = n, !.copied = c]
  OBVIOUS
<1>10. /\ q \in Request(k) /\ q.step = "operator" /\ q.new = n /\ q.copied = c
       /\ q.kind = k /\ reqs[r].kind = k /\ q.old = Absent
       /\ q.checked = reqs[r].checked /\ q.scales = reqs[r].scales /\ q.stale = reqs[r].stale
  BY <1>1, <1>2, <1>7, <1>9 DEF Request, Steps
<1>11. ~reqs[r].checked /\ ~reqs[r].scales /\ (~reqs[r].stale => Absent = store[k])
  BY <1>1, <1>10 DEF RequestOK
<1>12. /\ "release" \in q.copied => \E w \in azureHistory : q.new.release = w.release
       /\ q.copied # {"release", "operator"}
       /\ q.kind = "MachinePool" => HasRange(q.new)
  BY <1>4, <1>6, <1>7, <1>8, <1>10
<1>13. RequestOK(q)
  BY <1>10, <1>11, <1>12 DEF RequestOK
<1>14. Ensured(q)
  BY <1>7, <1>10 DEF Ensured
<1>15. reqs' = [reqs EXCEPT ![r] = q] /\ Unaffected
  BY <1>3, <1>5, <1>8, <1>9 DEF Ensure
<1>. QED BY <1>10, <1>13, <1>14, <1>15, RequestStep

LEMMA EnsureUpdateStep ==
    ASSUME IInv, NEW r \in Requests, EnsureUpdate(r)
    PROVE  IInv'
<1>1. /\ RequestOK(reqs[r]) /\ reqs[r].step = "ensure"
      /\ \E k \in Kinds : reqs[r] \in Request(k)
  BY UnderWay DEF EnsureUpdate
<1>2. PICK k \in Kinds : reqs[r] \in Request(k)
  BY <1>1
<1>3. PICK n : n = EnsureObject(reqs[r])
  OBVIOUS
<1>4. /\ n \in Objects(k) /\ n.release = reqs[r].new.release
      /\ n.operator = reqs[r].new.operator
      /\ k = "MachinePool" => /\ HasRange(n)
                              /\ KeptRange(reqs[r].new) => /\ n.min = reqs[r].new.min
                                                           /\ n.max = reqs[r].new.max
  BY <1>2, <1>3, ObjectEnsured
<1>5. PICK q : q = [reqs[r] EXCEPT !.step = "validateFilter", !.mutated = TRUE, !.new = n]
  OBVIOUS
<1>6. /\ q \in Request(k) /\ q.step = "validateFilter" /\ q.new = n
      /\ q.kind = k /\ reqs[r].kind = k /\ q.old = reqs[r].old /\ q.copied = reqs[r].copied
      /\ q.checked = reqs[r].checked /\ q.scales = reqs[r].scales /\ q.stale = reqs[r].stale
  BY <1>2, <1>4, <1>5 DEF Request, Steps
<1>7. ~q.checked /\ (~q.stale => q.old = store[q.kind])
  BY <1>1, <1>6 DEF RequestOK
<1>8. q.scales => /\ q.kind = "MachinePool" /\ q.old # Absent
                  /\ KeptRange(q.old) => q.new.min = q.old.min /\ q.new.max = q.old.max
  <2>. SUFFICES ASSUME q.scales
                PROVE  /\ q.kind = "MachinePool" /\ q.old # Absent
                       /\ KeptRange(q.old) => q.new.min = q.old.min /\ q.new.max = q.old.max
    OBVIOUS
  <2>1. /\ k = "MachinePool" /\ q.old # Absent
        /\ KeptRange(q.old) => reqs[r].new.min = q.old.min /\ reqs[r].new.max = q.old.max
    BY <1>1, <1>6 DEF RequestOK
  <2>2. KeptRange(q.old) => KeptRange(reqs[r].new)
    BY <2>1 DEF KeptRange
  <2>. QED BY <1>4, <1>6, <2>1, <2>2
<1>9. RequestOK(q)
  <2>1. /\ "release" \in q.copied => \E w \in azureHistory : q.new.release = w.release
        /\ q.copied = {"release", "operator"}
           => \E w \in azureHistory : q.new.release <= w.release /\ q.new.operator = w.operator
    BY <1>1, <1>4, <1>6 DEF RequestOK
  <2>2. q.kind = "MachinePool" => HasRange(q.new)
    BY <1>4, <1>6
  <2>. QED BY <1>7, <1>8, <2>1, <2>2 DEF RequestOK
<1>10. reqs' = [reqs EXCEPT ![r] = q] /\ Unaffected
  BY <1>3, <1>5 DEF EnsureUpdate
<1>. QED BY <1>6, <1>9, <1>10, RequestStep

LEMMA CopyOperatorLabelStep ==
    ASSUME IInv, NEW r \in Requests, CopyOperatorLabel(r)
    PROVE  IInv'
<1>1. /\ RequestOK(reqs[r]) /\ reqs[r].step = "operator"
      /\ \E k \in Kinds : reqs[r] \in Request(k)
  BY UnderWay DEF CopyOperatorLabel
<1>2. PICK k \in Kinds : reqs[r] \in Request(k)
  BY <1>1
<1>3. PICK o : o = reqs[r].new
  OBVIOUS
<1>4. PICK n : n = CopyAzureOperatorVersionLabelFromAzureClusterCR(o)
  OBVIOUS
<1>5. o \in Objects(k) /\ azureOperator \in Operators
  BY <1>2, <1>3 DEF Request, IInv, TypeOK
<1>6. /\ n \in Objects(k) /\ n.release = o.release
      /\ n.operator = IF o.operator = NoOperator THEN azureOperator ELSE o.operator
      /\ k = "MachinePool" => n.replicas = o.replicas /\ n.min = o.min /\ n.max = o.max
  <2>1. CASE k = "MachinePool"
    BY <1>4, <1>5, <2>1 DEF Objects, MachinePool, CopyAzureOperatorVersionLabelFromAzureClusterCR
  <2>2. CASE k = "AzureMachinePool"
    BY <1>4, <1>5, <2>2
       DEF Objects, AzureMachinePool, CopyAzureOperatorVersionLabelFromAzureClusterCR
  <2>. QED BY <2>1, <2>2 DEF Kinds
<1>7. PICK c \in SUBSET {"release", "operator"} :
         c = IF o.operator = NoOperator THEN reqs[r].copied \cup {"operator"} ELSE reqs[r].copied
  BY <1>2 DEF Request
<1>8. PICK q : q = [reqs[r] EXCEPT !.step = "validateFilter", !.new = n, !.copied = c]
  OBVIOUS
<1>9. /\ q \in Request(k) /\ q.step = "validateFilter" /\ q.new = n /\ q.copied = c
      /\ q.kind = k /\ reqs[r].kind = k /\ q.old = reqs[r].old /\ q.mutated = reqs[r].mutated
      /\ q.checked = reqs[r].checked /\ q.scales = reqs[r].scales /\ q.stale = reqs[r].stale
  BY <1>2, <1>6, <1>8 DEF Request, Steps
<1>10. ~q.checked /\ (~q.stale => q.old = store[q.kind])
  BY <1>1, <1>9 DEF RequestOK
<1>11. "release" \in q.copied => \E w \in azureHistory : q.new.release = w.release
  BY <1>1, <1>3, <1>6, <1>7, <1>9 DEF RequestOK
<1>12. q.copied = {"release", "operator"}
       => \E w \in azureHistory : q.new.release <= w.release /\ q.new.operator = w.operator
  <2>1. CASE o.operator = NoOperator
    <3>1. /\ q.new.operator = AzureLabels.operator /\ AzureLabels \in azureHistory
          /\ AzureLabels.release = azureRelease
      BY <1>6, <1>9, <2>1 DEF IInv, UpwardsOnly, AzureLabels
    <3>2. q.copied = {"release", "operator"} => q.new.release <= azureRelease
      BY <1>11 DEF IInv, UpwardsOnly
    <3>. QED BY <3>1, <3>2
  <2>2. CASE o.operator # NoOperator
    <3>1. /\ q.copied = reqs[r].copied
          /\ q.new.operator = reqs[r].new.operator /\ q.new.release = reqs[r].new.release
      BY <1>3, <1>6, <1>7, <1>9, <2>2
    <3>. QED BY <1>1, <3>1 DEF RequestOK
  <2>. QED BY <2>1, <2>2
<1>13. (q.mutated /\ q.kind = "MachinePool") => HasRange(q.new)
  BY <1>1, <1>3, <1>6, <1>9 DEF RequestOK, HasRange
<1>14. q.scales => /\ q.kind = "MachinePool" /\ q.old # Absent
                   /\ KeptRange(q.old) => q.new.min = q.old.min /\ q.new.max = q.old.max
  BY <1>1, <1>3, <1>6, <1>9 DEF RequestOK
<1>15. RequestOK(q)
  BY <1>10, <1>11, <1>12, <1>13, <1>14 DEF RequestOK
<1>16. reqs' = [reqs EXCEPT ![r] = q] /\ Unaffected
  BY <1>3, <1>4, <1>7, <1>8 DEF CopyOperatorLabel
<1>. QED BY <1>9, <1>15, <1>16, RequestStep

(* The checks of OnCreateValidate and OnUpdateValidate of an AzureMachinePool:
   an update keeps what the creation established, although it never looks at
   the storage account type again.                                         *)
LEMMA CreateFits ==
    ASSUME NEW p, PoolOnCreateValidate(p)
    PROVE  Fits(p)
BY DEF PoolOnCreateValidate, Fits

LEMMA UpdateFits ==
    ASSUME NEW old, NEW new, Fits(old), PoolUpdateChecks(old, new)
    PROVE  Fits(new)
<1>1. /\ new.organization = Owner /\ new.location = Home /\ new.storage = old.storage
      /\ new.accelerated = old.accelerated
      /\ checkInstanceTypeIsValid(new) /\ new.dataDisks = "desired" /\ ~new.sshKey
  BY DEF Fits, PoolUpdateChecks, checkAcceleratedNetworkingUpdateIsValid
<1>2. CASE old.vmSize = new.vmSize
  <2>1. SkuOf(new) = SkuOf(old) /\ (Known(old) => Known(new))
    BY <1>1, <1>2 DEF Fits, SkuOf, Known
  <2>2. checkStorageAccountTypeIsValid(new)
    BY <1>1, <2>1 DEF Fits, checkStorageAccountTypeIsValid
  <2>3. checkAcceleratedNetworking(new)
    BY <1>1, <2>1 DEF Fits, checkAcceleratedNetworking
  <2>. QED BY <1>1, <2>2, <2>3 DEF Fits
<1>3. CASE old.vmSize # new.vmSize
  <2>1. Known(new) /\ ~(SkuOf(old).premium /\ ~SkuOf(new).premium)
    BY <1>3 DEF PoolUpdateChecks, checkInstanceTypeChangeIsValid
  <2>2. checkStorageAccountTypeIsValid(new)
    BY <1>1, <2>1 DEF Fits, checkStorageAccountTypeIsValid
  <2>3. checkAcceleratedNetworking(new)
    BY <1>3 DEF PoolUpdateChecks, checkAcceleratedNetworkingUpdateIsValid
  <2>. QED BY <1>1, <2>2, <2>3 DEF Fits
<1>. QED BY <1>2, <1>3

(* OnCreateValidate of a MachinePool: the zones are those of the VM type that
   the AzureMachinePool has at this moment.                                *)
LEMMA CreateSupported ==
    ASSUME IInv, NEW m, MachineOnCreateValidate(m)
    PROVE  WereSupported(m.failureDomains)
<1>1. PICK p : p = store["AzureMachinePool"] /\ p # Absent
  BY DEF MachineOnCreateValidate
<1>2. PICK zones \in SUBSET Zones : SupportedAZs(zones) /\ m.failureDomains \subseteq zones
  BY DEF MachineOnCreateValidate
<1>3. /\ p.vmSize \in vmHistory
      /\ "AzureMachinePool" \notin unchecked => p.location = Home
  BY <1>1 DEF IInv, PoolInv, Fits
<1>4. zones = {} \/ zones = Sku[p.location][p.vmSize].zones
  BY <1>1, <1>2 DEF SupportedAZs, SkuOf
<1>5. "AzureMachinePool" \notin unchecked => m.failureDomains \subseteq Sku[Home][p.vmSize].zones
  BY <1>2, <1>3, <1>4
<1>. QED BY <1>3, <1>5 DEF WereSupported

LEMMA OnValidateStep ==
    ASSUME IInv, NEW r \in Requests, OnValidate(r)
    PROVE  IInv'
<1>1. /\ RequestOK(reqs[r]) /\ reqs[r].step = "validate"
      /\ \E k \in Kinds : reqs[r] \in Request(k)
  BY UnderWay DEF OnValidate
<1>2. PICK k \in Kinds : reqs[r] \in Request(k)
  BY <1>1
<1>3. CASE Advance(r, "validate", "write")
  BY <1>3, AdvanceStep DEF Steps
<1>4. CASE Deny(r, "validate")
  BY <1>4, DenyStep
<1>5. CASE /\ ChecksPass(reqs[r])
           /\ reqs' = [reqs EXCEPT ![r] = [reqs[r] EXCEPT !.step = "write", !.checked = TRUE]]
           /\ Unaffected
  <2>1. PICK q : q = [reqs[r] EXCEPT !.step = "write", !.checked = TRUE]
    OBVIOUS
  <2>2. /\ q \in Request(k) /\ q.step = "write"
        /\ q.kind = k /\ reqs[r].kind = k /\ q.old = reqs[r].old /\ q.new = reqs[r].new
        /\ q.copied = reqs[r].copied
        /\ q.mutated = reqs[r].mutated /\ q.scales = reqs[r].scales /\ q.stale = reqs[r].stale
    BY <1>2, <2>1 DEF Request, Steps
  <2>3. Passed(q)
    <3>1. CASE k = "AzureMachinePool" /\ q.old = Absent
      <4>1. PoolOnCreateValidate(q.new)
        BY <1>5, <2>2, <3>1, Zenon DEF ChecksPass
      <4>. QED BY <2>2, <3>1, <4>1, CreateFits DEF Passed
    <3>2. CASE k = "AzureMachinePool" /\ q.old # Absent
      <4>1. PoolUpdateChecks(q.old, q.new)
        BY <1>5, <2>2, <3>2, Zenon DEF ChecksPass
      <4>. QED BY <2>2, <3>2, <4>1 DEF Passed
    <3>3. CASE k = "MachinePool" /\ q.old = Absent
      <4>1. MachineOnCreateValidate(q.new)
        BY <1>5, <2>2, <3>3, Zenon DEF ChecksPass
      <4>. QED BY <2>2, <3>3, <4>1, CreateSupported DEF Passed
    <3>4. CASE k = "MachinePool" /\ q.old # Absent
      <4>1. MachineUpdateChecks(q.old, q.new)
        BY <1>5, <2>2, <3>4, Zenon DEF ChecksPass
      <4>. QED BY <2>2, <3>4, <4>1 DEF Passed, MachineUpdateChecks
    <3>. QED BY <3>1, <3>2, <3>3, <3>4 DEF Kinds
  <2>4. RequestOK(q)
    BY <1>1, <2>2, <2>3 DEF RequestOK
  <2>. QED BY <1>5, <2>1, <2>2, <2>4, RequestStep
<1>. QED BY <1>3, <1>4, <1>5 DEF OnValidate

(* A write keeps the invariants of what is stored. *)
LEMMA WriteStep ==
    ASSUME IInv, NEW r \in Requests, Write(r)
    PROVE  IInv'
<1>1. /\ RequestOK(reqs[r]) /\ \E k \in Kinds : reqs[r] \in Request(k)
  BY UnderWay DEF Write
<1>2. PICK k \in Kinds : reqs[r] \in Request(k)
  BY <1>1
<1>3. PICK q \in Request(k) : q = reqs[r]
  BY <1>2
<1>4. /\ q.kind = k /\ q.new \in Objects(k) /\ q.new # Absent /\ q.old = store[k]
      /\ Stored(k, q.new) /\ UNCHANGED clusterVars
      /\ reqs' = [Outdated(k) EXCEPT ![r] = Done]
      /\ unchecked' = IF q.checked THEN unchecked ELSE unchecked \cup {k}
      /\ unmutated' = IF k = "MachinePool" THEN ~q.mutated ELSE unmutated
      /\ q.checked => Passed(q)
      /\ (q.mutated /\ k = "MachinePool") => HasRange(q.new)
  BY <1>1, <1>3, NodePoolAssumption DEF Write, Request, RequestOK, Objects
<1>5. /\ store'[k] = q.new /\ \A j \in Kinds \ {k} : store'[j] = store[j]
      /\ vmHistory' = IF k = "AzureMachinePool" THEN vmHistory \cup {q.new.vmSize} ELSE vmHistory
  BY <1>4 DEF IInv, TypeOK, Stored
<1>6. PoolInv'
  <2>1. CASE k = "AzureMachinePool"
    <3>1. ASSUME k \notin unchecked' PROVE Fits(q.new)
      <4>1. q.checked /\ k \notin unchecked
        BY <1>4, <3>1
      <4>2. CASE q.old = Absent
        BY <1>4, <2>1, <4>1, <4>2 DEF Passed
      <4>3. CASE q.old # Absent
        <5>1. Fits(q.old)
          BY <1>4, <2>1, <4>1, <4>3 DEF IInv, PoolInv
        <5>2. PoolUpdateChecks(q.old, q.new)
          BY <1>4, <2>1, <4>1, <4>3 DEF Passed
        <5>. QED BY <5>1, <5>2, UpdateFits
      <4>. QED BY <4>2, <4>3
    <3>. QED BY <1>5, <2>1, <3>1 DEF PoolInv
  <2>2. CASE k = "MachinePool"
    <3>1. store'["AzureMachinePool"] = store["AzureMachinePool"] /\ vmHistory' = vmHistory
      BY <1>5, <2>2 DEF Kinds
    <3>. QED BY <1>4, <3>1 DEF IInv, PoolInv
  <2>. QED BY <2>1, <2>2 DEF Kinds
<1>7. MachineInv'
  <2>1. CASE k = "MachinePool"
    <3>1. ASSUME k \notin unchecked' PROVE WereSupported(q.new.failureDomains)'
      <4>1. q.checked /\ k \notin unchecked /\ unchecked' = unchecked /\ vmHistory' = vmHistory
        BY <1>4, <1>5, <2>1, <3>1
      <4>2. WereSupported(q.new.failureDomains)
        <5>1. CASE q.old = Absent
          BY <1>4, <2>1, <4>1, <5>1 DEF Passed
        <5>2. CASE q.old # Absent
          BY <1>4, <2>1, <4>1, <5>2 DEF Passed, IInv, MachineInv
        <5>. QED BY <5>1, <5>2
      <4>. QED BY <4>1, <4>2 DEF WereSupported
    <3>2. ~unmutated' => HasRange(q.new)
      BY <1>4, <2>1
    <3>. QED BY <1>5, <2>1, <3>1, <3>2 DEF MachineInv, WereSupported
  <2>2. CASE k = "AzureMachinePool"
    <3>1. /\ store'["MachinePool"] = store["MachinePool"] /\ vmHistory \subseteq vmHistory'
          /\ unchecked \subseteq unchecked' /\ unmutated' = unmutated
      BY <1>4, <1>5, <2>2 DEF Kinds
    <3>. QED BY <3>1 DEF IInv, MachineInv, WereSupported
  <2>. QED BY <2>1, <2>2 DEF Kinds
<1>8. /\ unchecked' \subseteq Kinds /\ unchecked \subseteq unchecked'
      /\ unmutated' \in BOOLEAN
  BY <1>3, <1>4 DEF IInv, TypeOK, Request
<1>9. /\ DOMAIN reqs' = Requests
      /\ \A s \in Requests : reqs'[s] = Done \/ reqs'[s] = Outdated(k)[s]
  BY <1>4 DEF Outdated
<1>. QED BY <1>4, <1>6, <1>7, <1>8, <1>9, StoreStep

LEMMA HandleRequestStep ==
    ASSUME IInv, NEW r \in Requests, HandleRequest(r)
    PROVE  IInv'
<1>1. CASE MutateFilter(r)
  <2>1. PICK to \in {"ensure", "validateFilter"} : Advance(r, "mutateFilter", to)
    BY <1>1 DEF MutateFilter
  <2>. QED BY <2>1, AdvanceStep DEF Steps
<1>2. CASE Ensure(r)
  BY <1>2, EnsureStep
<1>3. CASE EnsureUpdate(r)
  BY <1>3, EnsureUpdateStep
<1>4. CASE CopyOperatorLabel(r)
  BY <1>4, CopyOperatorLabelStep
<1>5. CASE ValidateFilter(r)
  <2>1. PICK to \in {"validate", "write"} : Advance(r, "validateFilter", to)
    BY <1>5 DEF ValidateFilter
  <2>. QED BY <2>1, AdvanceStep DEF Steps
<1>6. CASE OnValidate(r)
  BY <1>6, OnValidateStep
<1>7. CASE Refuse(r)
  BY <1>7, DenyStep DEF Refuse
<1>8. CASE Write(r)
  BY <1>8, WriteStep
<1>9. CASE Conflict(r)
  BY <1>9, DenyStep DEF Conflict
<1>. QED BY <1>1, <1>2, <1>3, <1>4, <1>5, <1>6, <1>7, <1>8, <1>9 DEF HandleRequest

(* A deletion changes nothing but the deletion timestamp, or removes the
   object.                                                                 *)
LEMMA DeleteStep ==
    ASSUME IInv, NEW k \in Kinds, Delete(k)
    PROVE  IInv'
<1>1. PICK p \in Objects(k) : p = store[k] /\ p # Absent
  BY DEF Delete, IInv, TypeOK
<1>2. PICK o : o = IF p.deleting THEN Absent ELSE [p EXCEPT !.deleting = TRUE]
  OBVIOUS
<1>3. /\ o \in Objects(k) \cup {Absent}
      /\ (o # Absent /\ k = "AzureMachinePool")
         => /\ o.vmSize = p.vmSize /\ o.organization = p.organization /\ o.location = p.location
            /\ o.storage = p.storage /\ o.accelerated = p.accelerated
            /\ o.dataDisks = p.dataDisks /\ o.sshKey = p.sshKey
      /\ (o # Absent /\ k = "MachinePool")
         => /\ o.failureDomains = p.failureDomains /\ o.replicas = p.replicas
            /\ o.min = p.min /\ o.max = p.max
  <2>1. CASE k = "MachinePool"
    BY <1>2, <2>1 DEF Objects, MachinePool
  <2>2. CASE k = "AzureMachinePool"
    BY <1>2, <2>2 DEF Objects, AzureMachinePool
  <2>. QED BY <2>1, <2>2 DEF Kinds
<1>4. Stored(k, o) /\ reqs' = Outdated(k) /\ UNCHANGED <<clusterVars, unchecked, unmutated>>
  BY <1>1, <1>2 DEF Delete
<1>5. /\ store'[k] = o /\ \A j \in Kinds \ {k} : store'[j] = store[j]
      /\ vmHistory \subseteq vmHistory'
  BY <1>4 DEF IInv, TypeOK, Stored
<1>6. PoolInv'
  <2>1. CASE k = "AzureMachinePool"
    <3>1. p.vmSize \in vmHistory /\ (k \notin unchecked => Fits(p))
      BY <1>1, <2>1 DEF IInv, PoolInv
    <3>2. (o # Absent /\ Fits(p)) => Fits(o)
      BY <1>3, <2>1 DEF Fits, checkInstanceTypeIsValid, checkStorageAccountTypeIsValid,
                        checkAcceleratedNetworking, Known, SkuOf
    <3>. QED BY <1>3, <1>4, <1>5, <2>1, <3>1, <3>2 DEF PoolInv
  <2>2. CASE k = "MachinePool"
    <3>1. store'["AzureMachinePool"] = store["AzureMachinePool"]
      BY <1>5, <2>2 DEF Kinds
    <3>. QED BY <1>4, <1>5, <3>1 DEF IInv, PoolInv
  <2>. QED BY <2>1, <2>2 DEF Kinds
<1>7. MachineInv'
  <2>1. CASE k = "MachinePool"
    <3>1. /\ k \notin unchecked => WereSupported(p.failureDomains)
          /\ ~unmutated => HasRange(p)
      BY <1>1, <2>1 DEF IInv, MachineInv
    <3>2. (o # Absent /\ HasRange(p)) => HasRange(o)
      BY <1>3, <2>1 DEF HasRange
    <3>3. (o # Absent /\ WereSupported(p.failureDomains)) => WereSupported(o.failureDomains)'
      BY <1>3, <1>4, <1>5, <2>1 DEF WereSupported
    <3>4. store'["MachinePool"] = o /\ UNCHANGED <<unchecked, unmutated>>
      BY <1>4, <1>5, <2>1
    <3>. QED BY <2>1, <3>1, <3>2, <3>3, <3>4 DEF MachineInv, WereSupported
  <2>2. CASE k = "AzureMachinePool"
    <3>1. store'["MachinePool"] = store["MachinePool"]
      BY <1>5, <2>2 DEF Kinds
    <3>. QED BY <1>4, <1>5, <3>1 DEF IInv, MachineInv, WereSupported
  <2>. QED BY <2>1, <2>2 DEF Kinds
<1>8. /\ DOMAIN reqs' = Requests
      /\ \A s \in Requests : reqs'[s] = Done \/ reqs'[s] = Outdated(k)[s]
  BY <1>4 DEF Outdated
<1>9. /\ unchecked' \subseteq Kinds /\ unchecked \subseteq unchecked' /\ unmutated' \in BOOLEAN
  BY <1>4 DEF IInv, TypeOK
<1>. QED BY <1>3, <1>4, <1>6, <1>7, <1>8, <1>9, StoreStep

LEMMA UpgradeStep ==
    ASSUME IInv, NEW v \in LegacyReleases, UpgradeCluster(v)
    PROVE  IInv'
<1>1. /\ Releases \subseteq Nat /\ v \in Releases /\ UpwardsOnly
      /\ clusterRelease \in Releases /\ azureRelease \in Releases /\ azureOperator \in Operators
      /\ clusterHistory \subseteq Releases /\ azureHistory \subseteq Labels
  BY NodePoolAssumption DEF IInv, TypeOK, LegacyReleases
<1>2. /\ clusterRelease < v /\ clusterRelease' = v
      /\ clusterHistory' = clusterHistory \cup {v}
      /\ UNCHANGED <<azureRelease, azureOperator, azureHistory>>
      /\ UNCHANGED <<store, reqs, vmHistory, unchecked, unmutated>>
  BY DEF UpgradeCluster, Path!UpgradeCluster
<1>3. UpwardsOnly'
  BY <1>1, <1>2 DEF UpwardsOnly, AzureLabels
<1>. QED BY <1>1, <1>2, <1>3, ClusterStep

LEMMA UpdateAzureClusterStep ==
    ASSUME IInv, NEW v \in LegacyReleases, NEW o \in Operators, UpdateAzureCluster(v, o)
    PROVE  IInv'
<1>1. /\ Releases \subseteq Nat /\ v \in Releases /\ UpwardsOnly
      /\ clusterRelease \in Releases /\ azureRelease \in Releases
      /\ clusterHistory \subseteq Releases /\ azureHistory \subseteq Labels
  BY NodePoolAssumption DEF IInv, TypeOK, LegacyReleases
<1>2. PICK w \in Labels : w = [release |-> v, operator |-> o]
  BY <1>1 DEF Labels
<1>3. /\ v = azureRelease \/ (v \in clusterHistory /\ azureRelease < v)
      /\ azureRelease' = v /\ azureOperator' = o
      /\ UNCHANGED <<clusterRelease, clusterHistory>>
      /\ azureHistory' = azureHistory \cup {w}
      /\ UNCHANGED <<store, reqs, vmHistory, unchecked, unmutated>>
  <2>1. CASE v = azureRelease
    BY <1>2, <2>1 DEF UpdateAzureCluster
  <2>2. CASE v # azureRelease
    BY <1>2, <2>2 DEF UpdateAzureCluster, Path!UpgradeAzureCluster
  <2>. QED BY <2>1, <2>2
<1>4. v \in clusterHistory
  BY <1>1, <1>3 DEF UpwardsOnly, AzureLabels
<1>5. UpwardsOnly'
  <2>1. AzureLabels' = w
    BY <1>2, <1>3 DEF AzureLabels
  <2>2. w.release = v /\ \A u \in azureHistory : u.release \in Nat
    BY <1>1, <1>2 DEF Labels
  <2>. QED BY <1>1, <1>3, <1>4, <2>1, <2>2 DEF UpwardsOnly
<1>. QED BY <1>1, <1>2, <1>3, <1>5, ClusterStep

LEMMA NextStep ==
    ASSUME IInv, [Next]_vars
    PROVE  IInv'
<1>1. ASSUME NEW r \in Requests, NEW p \in PoolProposals, Submit(r, "AzureMachinePool", p, FALSE)
      PROVE  IInv'
  <2>1. p \in Objects("AzureMachinePool") /\ "AzureMachinePool" \in Kinds
    BY NodePoolAssumption DEF Objects, Kinds
  <2>. QED BY <1>1, <2>1, SubmitStep
<1>2. ASSUME NEW r \in Requests, NEW m \in MachineProposals, Submit(r, "MachinePool", m, FALSE)
      PROVE  IInv'
  <2>1. m \in Objects("MachinePool") /\ "MachinePool" \in Kinds
    BY NodePoolAssumption DEF Objects, Kinds
  <2>. QED BY <1>2, <2>1, SubmitStep
<1>3. ASSUME NEW r \in Requests, NEW n \in Counts, Scale(r, n) PROVE IInv'
  BY <1>3, ScaleStep
<1>4. ASSUME NEW r \in Requests, HandleRequest(r) PROVE IInv'
  BY <1>4, HandleRequestStep
<1>5. ASSUME NEW k \in Kinds, Delete(k) PROVE IInv'
  BY <1>5, DeleteStep
<1>6. ASSUME NEW v \in LegacyReleases, UpgradeCluster(v) PROVE IInv'
  BY <1>6, UpgradeStep
<1>7. ASSUME NEW v \in LegacyReleases, NEW o \in Operators, UpdateAzureCluster(v, o) PROVE IInv'
  BY <1>7, UpdateAzureClusterStep
<1>8. CASE UNCHANGED vars
  <2>1. UpwardsOnly'
    BY <1>8 DEF vars, IInv, UpwardsOnly, AzureLabels
  <2>. QED BY <1>8, <2>1, ClusterStep DEF vars, IInv, TypeOK
<1>. QED BY <1>1, <1>2, <1>3, <1>4, <1>5, <1>6, <1>7, <1>8 DEF Next

-----------------------------------------------------------------------------
(* The invariant of the node pool, its requests and its cluster together: for
   any VM types, zones, releases and objects that clients propose, and any
   interleaving of requests, deletions and upgrades.                       *)
THEOREM InductiveInvariant == Spec => []IInv
<1>1. Init => IInv
  <2>. SUFFICES ASSUME Init PROVE IInv
    OBVIOUS
  <2>1. /\ Releases \subseteq Nat /\ clusterRelease \in Releases /\ azureRelease \in Releases
        /\ azureRelease <= clusterRelease /\ azureHistory = {AzureLabels}
        /\ clusterHistory = {clusterRelease, azureRelease}
    <3>1. LegacyReleases \subseteq Releases /\ Releases \subseteq Nat
      BY NodePoolAssumption DEF LegacyReleases
    <3>2. /\ clusterRelease \in LegacyReleases /\ azureRelease \in LegacyReleases
          /\ azureRelease = clusterRelease \/ azureRelease < clusterRelease
          /\ clusterHistory = {clusterRelease, azureRelease} /\ azureHistory = {AzureLabels}
      BY DEF Init, Path!Init
    <3>. QED BY <3>1, <3>2
  <2>2. /\ \A r \in Requests : reqs[r] = Idle /\ reqs[r].step = "idle"
        /\ \A k \in Kinds : store[k] = Absent
    BY DEF Init, Idle
  <2>3. TypeOK
    <3>1. azureOperator \in Operators
      BY <2>1 DEF Init, Operators
    <3>2. AzureLabels \in Labels
      BY <2>1, <3>1 DEF AzureLabels, Labels
    <3>. QED BY <2>1, <2>2, <3>1, <3>2 DEF Init, TypeOK
  <2>4. UpwardsOnly
    BY <2>1 DEF UpwardsOnly, AzureLabels
  <2>5. PoolInv /\ MachineInv /\ RequestInv
    BY <2>2 DEF PoolInv, MachineInv, RequestInv, Kinds
  <2>. QED BY <2>3, <2>4, <2>5 DEF IInv
<1>2. IInv /\ [Next]_vars => IInv'
  BY NextStep
<1>. QED BY <1>1, <1>2, PTL DEF Spec

(* Type correctness, and no default that is left open when the operator
   label is copied.                                                        *)
THEOREM TypeCorrect == Spec => []TypeOK
<1>1. IInv => TypeOK
  BY DEF IInv
<1>. QED BY <1>1, InductiveInvariant, PTL

(* Every validated AzureMachinePool fits its VM type, after any sequence of
   updates.                                                                *)
THEOREM HardwareCorrect == Spec => []HardwareFits
<1>1. IInv => HardwareFits
  BY DEF IInv, PoolInv, Fits, HardwareFits
<1>. QED BY <1>1, InductiveInvariant, PTL

(* The operator label that a node pool copies is not one that the AzureCluster
   had before the release label that it copies.                            *)
THEOREM OperatorCorrect == Spec => []OperatorNotOlderThanRelease
<1>1. IInv => OperatorNotOlderThanRelease
  BY DEF IInv, RequestInv, RequestOK, OperatorNotOlderThanRelease
<1>. QED BY <1>1, InductiveInvariant, PTL

(* The zones of a validated MachinePool were supported when it was checked. *)
THEOREM ZonesCorrect == Spec => []ZonesWereSupported
<1>1. IInv => ZonesWereSupported
  BY DEF IInv, MachineInv, WereSupported, ZonesWereSupported
<1>. QED BY <1>1, InductiveInvariant, PTL

(* The patches of the mutator always leave a valid range for the autoscaler. *)
THEOREM RangeCorrect == Spec => []ScalingRangeValid
<1>1. IInv => ScalingRangeValid
  BY DEF IInv, MachineInv, HasRange, ScalingRangeValid
<1>. QED BY <1>1, InductiveInvariant, PTL

(* A change of the replicas by the autoscaler never moves a valid range. *)
THEOREM ScalingCorrect == Spec => ScalingKeepsRange
<1>. DEFINE P == LET m == store["MachinePool"]
                     n == store'["MachinePool"]
                 IN  (/\ Absent \notin {m, n}
                      /\ IsNumber(m.min) /\ IsNumber(m.max) /\ 0 <= m.min /\ m.min <= m.max
                      /\ \E r \in Requests : reqs[r].step = "write" /\ reqs[r].scales /\ Write(r))
                     => n.min = m.min /\ n.max = m.max
<1>1. ASSUME IInv, NEW m, NEW n, m = store["MachinePool"], n = store'["MachinePool"],
             KeptRange(m), NEW r \in Requests, reqs[r].scales, Write(r)
      PROVE  n.min = m.min /\ n.max = m.max
  <2>1. RequestOK(reqs[r])
    BY <1>1, UnderWay DEF Write
  <2>2. /\ reqs[r].kind = "MachinePool" /\ reqs[r].old = m
        /\ reqs[r].new.min = m.min /\ reqs[r].new.max = m.max
    BY <1>1, <2>1 DEF RequestOK, Write
  <2>3. n = reqs[r].new
    BY <1>1, <2>2 DEF Write, Stored, IInv, TypeOK, Kinds
  <2>. QED BY <2>2, <2>3
<1>2. IInv /\ [Next]_vars => [P]_vars
  BY <1>1 DEF KeptRange
<1>. QED BY <1>2, InductiveInvariant, PTL DEF Spec, ScalingKeepsRange

(* Only writes and deletions change what is stored. *)
LEMMA StoreChanges ==
    ASSUME [Next]_vars, store' # store
    PROVE  (\E r \in Requests : Write(r)) \/ (\E k \in Kinds : Delete(k))
BY DEF Next, HandleRequest, Submit, Scale, MutateFilter, Ensure, EnsureUpdate, CopyOperatorLabel,
       ValidateFilter, OnValidate, Refuse, Conflict, Advance, Deny, Unaffected, UpgradeCluster,
       UpdateAzureCluster, vars

(* What Azure cannot change in a scale set stays as it was created. *)
THEOREM FixedCorrect == Spec => FixedForLife
<1>. DEFINE P == LET p == store["AzureMachinePool"]
                     n == store'["AzureMachinePool"]
                 IN  ("AzureMachinePool" \notin unchecked' /\ Absent \notin {p, n})
                     => /\ n.location = p.location /\ n.storage = p.storage
                        /\ n.spot = p.spot /\ n.accelerated = p.accelerated
                        /\ n.organization = Owner
<1>1. ASSUME IInv, [Next]_vars, NEW p, NEW n,
             p = store["AzureMachinePool"], n = store'["AzureMachinePool"],
             "AzureMachinePool" \notin unchecked', Absent \notin {p, n}
      PROVE  /\ n.location = p.location /\ n.storage = p.storage
             /\ n.spot = p.spot /\ n.accelerated = p.accelerated
             /\ n.organization = Owner
  <2>1. n.organization = Owner
    BY <1>1, NextStep DEF IInv, PoolInv, Fits
  <2>2. p \in AzureMachinePool /\ "AzureMachinePool" \in DOMAIN store
    BY <1>1 DEF IInv, TypeOK, Kinds, Objects
  <2>3. CASE n = p
    BY <2>1, <2>3
  <2>4. ASSUME NEW r \in Requests, Write(r), n # p
        PROVE  /\ n.location = p.location /\ n.storage = p.storage
               /\ n.spot = p.spot /\ n.accelerated = p.accelerated
    <3>1. RequestOK(reqs[r])
      BY <1>1, <2>4, UnderWay DEF Write
    <3>2. reqs[r].kind = "AzureMachinePool"
      BY <1>1, <2>2, <2>4 DEF Write, Stored
    <3>3. n = reqs[r].new /\ p = reqs[r].old /\ reqs[r].checked
      BY <1>1, <2>2, <2>4, <3>1, <3>2 DEF Write, Stored, RequestOK
    <3>4. PoolUpdateChecks(p, n)
      BY <1>1, <3>1, <3>2, <3>3 DEF RequestOK, Passed
    <3>. QED BY <3>4 DEF PoolUpdateChecks, checkAcceleratedNetworkingUpdateIsValid
  <2>5. ASSUME NEW k \in Kinds, Delete(k), n # p
        PROVE  /\ n.location = p.location /\ n.storage = p.storage
               /\ n.spot = p.spot /\ n.accelerated = p.accelerated
    <3>1. k = "AzureMachinePool"
      BY <1>1, <2>2, <2>5 DEF Delete, Stored
    <3>2. n = [p EXCEPT !.deleting = TRUE]
      BY <1>1, <2>2, <2>5, <3>1 DEF Delete, Stored
    <3>. QED BY <2>2, <3>2 DEF AzureMachinePool
  <2>. QED BY <1>1, <2>1, <2>3, <2>4, <2>5, StoreChanges
<1>2. IInv /\ [Next]_vars => [P]_vars
  BY <1>1
<1>. QED BY <1>2, InductiveInvariant, PTL DEF Spec, FixedForLife
=============================================================================
