----------------------------- MODULE Hyena_proofs -----------------------------
(***************************************************************************)
(* Proofs about Hyena: what a pod reads, for any number of servers, pods,  *)
(* names, values, thresholds and concurrent calls.                         *)
(***************************************************************************)
EXTENDS Hyena, SecretManager_proofs

-----------------------------------------------------------------------------
(* Pods leave manager and servers alone.                                   *)

LEMMA PodStepsLeave ==
    ASSUME NEW p \in Pods, PodStarts(p) \/ PodConfigError(p) \/ PodStep(p)
    PROVE  UNCHANGED vars /\ UNCHANGED wants
BY DEF PodStarts, PodConfigError, PodStep, Settles, PodGets, PodMisses,
       PodCannotReach, PodCombines, PodHasTooFew

LEMMA ManagerStep == [HyenaNext]_hyenaVars => [Next]_vars
BY PodStepsLeave DEF HyenaNext, hyenaVars

\* What the manager and the servers guarantee, they guarantee in the system.
LEMMA ManagerInSystem == HyenaSpec => []IInv
<1>1. HyenaInit => Init
  BY DEF HyenaInit
<1>2. HyenaInit => IInv
  BY <1>1, InitIInv
<1>3. IInv /\ [HyenaNext]_hyenaVars => IInv'
  BY ManagerStep, IInvStep
<1> QED
  BY <1>2, <1>3, PTL DEF HyenaSpec

-----------------------------------------------------------------------------
(* What manager and servers keep of a call that has begun.                 *)

Kept(o) ==
    /\ status'[o] # "idle" /\ job'[o] = job[o]
    /\ undisturbed'[o] => undisturbed[o]
    /\ crashed[o] \subseteq crashed'[o]
    /\ status[o] = "ok" => status'[o] = "ok"
    /\ \A s \in Servers : rpc[o][s] = "served" => rpc'[o][s] = "served"

LEMMA CallsKept ==
    ASSUME TypeOK, CallsInOrder, [Next]_vars, NEW o \in Ops, status[o] # "idle"
    PROVE  Kept(o)
<1>1. ASSUME NEW p \in Ops, NEW j, Begin(p, j), Call(p, 1)
      PROVE  Kept(o)
  BY <1>1 DEF Kept, Begin, Call, TypeOK, Servers
<1>2. ASSUME NEW p \in Ops, NEW n \in Names, NEW v \in Values,
             StoreSecretRejected(p, n, v)
      PROVE  Kept(o)
  BY <1>2 DEF Kept, StoreSecretRejected, TypeOK, histVars
<1>3. ASSUME NEW p \in Ops, NEW s \in Servers, ServeStore(p, s) \/ ServeDelete(p, s)
      PROVE  Kept(o)
  BY <1>3 DEF Kept, ServeStore, ServeDelete, Served, TypeOK, histVars
<1>4. ASSUME NEW p \in Ops, NEW s \in Servers, RpcDropped(p, s)
      PROVE  Kept(o)
  BY <1>4 DEF Kept, RpcDropped, TypeOK, histVars
<1>5. ASSUME NEW p \in Ops, RpcReturns(p) \/ DeleteWarns(p)
      PROVE  Kept(o)
  <2>1. /\ status[p] = "wait" /\ Call(p, cur[p] + 1)
        /\ UNCHANGED <<job, undisturbed, crashed>>
    BY <1>5 DEF RpcReturns, DeleteWarns, histVars
  <2>2. \A s \in Servers : s = cur[p] + 1 => rpc[p][s] = "none"
    BY Constants DEF CallsInOrder, CallInOrder, TypeOK, Servers
  <2> QED
    BY <2>1, <2>2 DEF Kept, Call, TypeOK
<1>6. ASSUME NEW p \in Ops, StoreFails(p)
      PROVE  Kept(o)
  BY <1>6 DEF Kept, StoreFails, TypeOK, histVars
<1>7. ASSUME NEW k \in Thresholds, ManagerRestarts(k)
      PROVE  Kept(o)
  BY <1>7 DEF Kept, ManagerRestarts, TypeOK, histVars
<1>8. ASSUME NEW s \in Servers, ServerExits(s)
      PROVE  Kept(o)
  BY <1>8 DEF Kept, ServerExits, TypeOK, callVars
<1>9. ASSUME UNCHANGED <<callVars, histVars>>
      PROVE  Kept(o)
  BY <1>9 DEF Kept, callVars, histVars
<1> QED
  BY <1>1, <1>2, <1>3, <1>4, <1>5, <1>6, <1>7, <1>8, <1>9
  DEF Next, CallEnds, StoreSecret, StoreSecretSplits, DeleteSecret, ServerStarts, vars

\* A store on a name stays one.
LEMMA StoresKept ==
    ASSUME TypeOK, CallsInOrder, [Next]_vars
    PROVE  \A n \in Names : StoresOf(n) \subseteq StoresOf(n)'
BY CallsKept DEF StoresOf, OnName, IsStore, Kept

-----------------------------------------------------------------------------
(* Types.                                                                  *)

\* Combine gives a stored value, wrong bytes or an error.
LEMMA CombineTyped ==
    ASSUME HyenaTypeOK, CallsInOrder, PodsExplained, NEW p \in Pods,
           NEW G \in SUBSET Successes(p)
    PROVE  CombineResults(p, G) \subseteq Values \cup {Garbage, NoSecret}
<1>1. ASSUME NEW s \in G
      PROVE  job[part[p][s].split].data \in Values
  <2>1. s \in Servers /\ outcome[p][s] = "share"
    BY <1>1 DEF Successes
  <2>2. part[p][s].split \in StoresOf(wants[p].name)
    BY <2>1 DEF PodsExplained, PartsExplained
  <2> QED
    BY <2>2 DEF StoresOf, IsStore, CallsInOrder, CallInOrder, Job
<1> QED
  BY <1>1 DEF CombineResults

LEMMA HyenaTypeStep ==
    HyenaIInv /\ [HyenaNext]_hyenaVars => HyenaTypeOK'
<1> SUFFICES ASSUME HyenaIInv, [HyenaNext]_hyenaVars PROVE HyenaTypeOK'
  OBVIOUS
<1>1. TypeOK'
  BY ManagerStep, IInvStep DEF HyenaIInv, IInv
<1>2. HyenaTypeOK
  BY DEF HyenaIInv
<1>3. ASSUME NEW p \in Pods, PodStarts(p)
      PROVE  HyenaTypeOK'
  BY <1>1, <1>2, <1>3 DEF HyenaTypeOK, PodStarts, NoneFetched, NoParts
<1>4. ASSUME NEW p \in Pods, PodConfigError(p)
      PROVE  HyenaTypeOK'
  BY <1>1, <1>2, <1>4 DEF HyenaTypeOK, PodConfigError
<1>5. ASSUME NEW p \in Pods, NEW s \in Servers, PodGets(p, s)
      PROVE  HyenaTypeOK'
  <2>1. shares[s][wants[p].name] \in Share \cup {NoShare}
    BY <1>2 DEF HyenaTypeOK, TypeOK, MapTypeOK
  <2> QED
    BY <1>1, <1>2, <1>5, <2>1 DEF HyenaTypeOK, PodGets, Settles
<1>6. ASSUME NEW p \in Pods, NEW s \in Servers, PodMisses(p, s) \/ PodCannotReach(p, s)
      PROVE  HyenaTypeOK'
  <2>1. /\ \E r \in {"missing", "unreachable"} :
               outcome' = [outcome EXCEPT ![p][s] = r]
        /\ UNCHANGED <<pod, wants, part, secret, reached>>
    BY <1>6 DEF PodMisses, PodCannotReach, Settles
  <2> QED
    BY <1>1, <1>2, <2>1 DEF HyenaTypeOK
<1>7. ASSUME NEW p \in Pods, PodCombines(p)
      PROVE  HyenaTypeOK'
  <2>1. PICK G \in SUBSET Successes(p) : \E b \in CombineResults(p, G) :
            /\ secret' = [secret EXCEPT ![p] = b]
            /\ pod' = [pod EXCEPT ![p] = IF b = NoSecret THEN "failed" ELSE "ready"]
    BY <1>7 DEF PodCombines
  <2>2. CombineResults(p, G) \subseteq Values \cup {Garbage, NoSecret}
    BY <1>2, CombineTyped DEF HyenaIInv, IInv
  <2>3. UNCHANGED <<wants, outcome, part, reached>>
    BY <1>7 DEF PodCombines
  <2> QED
    BY <1>1, <1>2, <2>1, <2>2, <2>3 DEF HyenaTypeOK
<1>8. ASSUME NEW p \in Pods, PodHasTooFew(p)
      PROVE  HyenaTypeOK'
  BY <1>1, <1>2, <1>8 DEF HyenaTypeOK, PodHasTooFew
<1>9. CASE UNCHANGED podVars
  BY <1>1, <1>2, <1>9 DEF HyenaTypeOK, podVars
<1> QED
  BY <1>3, <1>4, <1>5, <1>6, <1>7, <1>8, <1>9 DEF HyenaNext, PodStep, hyenaVars

-----------------------------------------------------------------------------
(* A step seen from one pod.                                               *)

Untouched(p) ==
    /\ pod'[p] = pod[p]
    /\ outcome'[p] = outcome[p]
    /\ part'[p] = part[p]
    /\ secret'[p] = secret[p]
    /\ reached'[p] = reached[p]

LEMMA StepOfPod ==
    ASSUME HyenaTypeOK, [HyenaNext]_hyenaVars, NEW p \in Pods
    PROVE  \/ Untouched(p)
           \/ PodStarts(p) \/ PodConfigError(p) \/ PodStep(p)
<1>1. ASSUME NEW q \in Pods \ {p}, PodStarts(q) \/ PodConfigError(q) \/ PodStep(q)
      PROVE  Untouched(p)
  BY <1>1
  DEF Untouched, HyenaTypeOK, PodStarts, PodConfigError, PodStep, PodGets, PodMisses,
      PodCannotReach, Settles, PodCombines, PodHasTooFew
<1>2. CASE UNCHANGED podVars
  BY <1>2 DEF podVars, Untouched
<1> QED
  BY <1>1, <1>2 DEF HyenaNext, hyenaVars

LEMMA WantsKept == [HyenaNext]_hyenaVars => wants' = wants
BY PodStepsLeave DEF HyenaNext, hyenaVars, podVars

\* A call a pod counts as answered has answered.
LEMMA ReachedAnswered ==
    ASSUME PodsExplained, NEW p \in Pods, NEW o \in Ops, reached[p][o] # {}
    PROVE  status[o] = "ok"
BY DEF PodsExplained, PodInOrder

\* What server s holds for the name of an undisturbed call that has answered.
LEMMA HeldOfAnswered ==
    ASSUME IInv, NEW o \in Ops, undisturbed[o], status[o] = "ok", NEW s \in Servers
    PROVE  /\ IsStore(o) =>
                  \/ shares[s][job[o].name] = ShareFor(o, s)
                  \/ shares[s][job[o].name] = NoShare /\ s \in crashed[o]
           /\ IsDelete(o) /\ rpc[o][s] = "served" => shares[s][job[o].name] = NoShare
<1>1. UndisturbedCall(o) /\ CallInOrder(o)
  BY DEF IInv, UndisturbedCalls, CallsInOrder
<1>2. IsStore(o) => rpc[o][s] = "served"
  BY <1>1, Constants DEF CallInOrder, Acked, Servers
<1> QED
  BY <1>1, <1>2 DEF UndisturbedCall, IsStore, IsDelete

\* A pod no step of its own touches: the calls it refers to are kept.
LEMMA UntouchedExplained ==
    ASSUME HyenaIInv, [HyenaNext]_hyenaVars, NEW p \in Pods, Untouched(p)
    PROVE  /\ PodInOrder(p)'
           /\ PartsExplained(p)'
           /\ \A o \in Ops : FetchedOf(p, o)'
<1>1. TypeOK /\ CallsInOrder /\ [Next]_vars /\ wants' = wants /\ wants[p].name \in Names
  BY ManagerStep, WantsKept DEF HyenaIInv, IInv, HyenaTypeOK
<1>2. PodInOrder(p) /\ PartsExplained(p) /\ \A o \in Ops : FetchedOf(p, o)
  BY DEF HyenaIInv, PodsExplained
<1>3. \A o \in Ops : reached[p][o] # {} => status[o] = "ok" /\ Kept(o)
  BY <1>1, CallsKept, ReachedAnswered DEF HyenaIInv
<1>4. \A o \in Ops : reached[p][o] \subseteq Servers
  BY DEF HyenaIInv, HyenaTypeOK
<1>5. PodInOrder(p)'
  BY <1>1, <1>2, <1>3, <1>4 DEF PodInOrder, Untouched, Kept, ConfigAccepts
<1>6. PartsExplained(p)'
  <2>1. StoresOf(wants[p].name) \subseteq StoresOf(wants[p].name)'
    BY <1>1, StoresKept DEF StoresOf, OnName, IsStore
  <2> QED
    BY <1>1, <1>2, <2>1 DEF PartsExplained, Untouched
<1>7. ASSUME NEW o \in Ops
      PROVE  FetchedOf(p, o)'
  <2>1. CASE reached[p][o] = {}
    BY <2>1 DEF FetchedOf, Untouched
  <2>2. CASE reached[p][o] # {}
    BY <1>1, <1>2, <1>3, <2>2
    DEF FetchedOf, Untouched, Kept, IsStore, IsDelete, ShareFor
  <2> QED
    BY <2>1, <2>2
<1> QED
  BY <1>5, <1>6, <1>7

LEMMA GetsExplained ==
    ASSUME HyenaIInv, NEW p \in Pods, NEW s \in Servers, PodGets(p, s)
    PROVE  /\ PodInOrder(p)'
           /\ PartsExplained(p)'
           /\ \A o \in Ops : FetchedOf(p, o)'
<1> DEFINE n == wants[p].name
           sh == shares[s][n]
<1>1. PodInOrder(p) /\ PartsExplained(p) /\ \A o \in Ops : FetchedOf(p, o)
  BY DEF HyenaIInv, PodsExplained
<1>2. /\ UNCHANGED <<vars, pod, wants, secret, reached>>
      /\ pod[p] = "fetch" /\ outcome[p][s] = "none" /\ sh # NoShare
      /\ outcome' = [outcome EXCEPT ![p][s] = "share"]
      /\ part' = [part EXCEPT ![p][s] = sh]
  BY DEF PodGets, Settles, GetShare
<1>3. n \in Names /\ sh \in Share /\ sh.split \in Ops
  BY <1>2 DEF HyenaIInv, HyenaTypeOK, TypeOK, MapTypeOK, Share
<1>4. sh.idx = s /\ sh.split \in StoresOf(n)
  <2>1. SharesInPlace
    BY DEF HyenaIInv, IInv
  <2>2. sh.idx = s /\ IsStore(sh.split) /\ job[sh.split].name = n
    BY <1>2, <1>3, <2>1 DEF SharesInPlace
  <2> QED
    BY <1>3, <2>2 DEF StoresOf, OnName, IsStore
<1>5. /\ outcome'[p][s] = "share" /\ part'[p][s] = sh
      /\ \A t \in Servers \ {s} : outcome'[p][t] = outcome[p][t] /\ part'[p][t] = part[p][t]
  BY <1>2 DEF HyenaIInv, HyenaTypeOK
<1>6. PodInOrder(p)'
  BY <1>1, <1>2 DEF PodInOrder, ConfigAccepts, vars, callVars
<1>7. PartsExplained(p)'
  <2>1. StoresOf(n)' = StoresOf(n)
    BY <1>2 DEF StoresOf, OnName, IsStore, vars, callVars
  <2> QED
    BY <1>1, <1>2, <1>3, <1>4, <1>5, <2>1 DEF PartsExplained
<1>8. ASSUME NEW o \in Ops, undisturbed[o], reached[p][o] # {}, n = job[o].name
      PROVE  /\ IsStore(o) => sh = ShareFor(o, s)
             /\ ~ (IsDelete(o) /\ s \in reached[p][o])
  <2>1. status[o] = "ok" /\ (s \in reached[p][o] => rpc[o][s] = "served")
    BY <1>8, ReachedAnswered DEF HyenaIInv, PodsExplained, PodInOrder
  <2> QED
    BY <1>2, <1>8, <2>1, HeldOfAnswered DEF HyenaIInv
<1>9. ASSUME NEW o \in Ops
      PROVE  FetchedOf(p, o)'
  BY <1>1, <1>2, <1>5, <1>8
  DEF FetchedOf, vars, callVars, histVars, IsStore, IsDelete, ShareFor
<1> QED
  BY <1>6, <1>7, <1>9

\* Server s settles without a share: for an undisturbed StoreSecret it then has
\* restarted, or the pod could not reach it.
LEMMA SettlesExplained ==
    ASSUME HyenaIInv, NEW p \in Pods, NEW s \in Servers,
           PodMisses(p, s) \/ PodCannotReach(p, s)
    PROVE  /\ PodInOrder(p)'
           /\ PartsExplained(p)'
           /\ \A o \in Ops : FetchedOf(p, o)'
<1>1. PodInOrder(p) /\ PartsExplained(p) /\ \A o \in Ops : FetchedOf(p, o)
  BY DEF HyenaIInv, PodsExplained
<1>2. PICK r \in {"missing", "unreachable"} :
          /\ UNCHANGED <<vars, pod, wants, part, secret, reached>>
          /\ pod[p] = "fetch"
          /\ outcome' = [outcome EXCEPT ![p][s] = r]
          /\ r = "missing" => shares[s][wants[p].name] = NoShare
  BY DEF PodMisses, PodCannotReach, Settles, GetShareNotFound
<1>3. outcome'[p][s] = r /\ \A t \in Servers \ {s} : outcome'[p][t] = outcome[p][t]
  BY <1>2 DEF HyenaIInv, HyenaTypeOK
<1>4. PodInOrder(p)'
  BY <1>1, <1>2 DEF PodInOrder, ConfigAccepts, vars, callVars
<1>5. PartsExplained(p)'
  BY <1>1, <1>2, <1>3 DEF PartsExplained, StoresOf, OnName, IsStore, vars, callVars
<1>6. ASSUME NEW o \in Ops, undisturbed[o], reached[p][o] # {}, r = "missing",
             wants[p].name = job[o].name, IsStore(o)
      PROVE  s \in crashed[o]
  <2>1. ShareFor(o, s) # NoShare
    BY Constants DEF ShareFor, Share
  <2> QED
    BY <1>2, <1>6, <2>1, HeldOfAnswered, ReachedAnswered DEF HyenaIInv
<1>7. ASSUME NEW o \in Ops
      PROVE  FetchedOf(p, o)'
  BY <1>1, <1>2, <1>3, <1>6
  DEF FetchedOf, vars, callVars, histVars, IsStore, IsDelete, ShareFor
<1> QED
  BY <1>4, <1>5, <1>7

LEMMA StartsExplained ==
    ASSUME HyenaIInv, NEW p \in Pods, PodStarts(p)
    PROVE  /\ PodInOrder(p)'
           /\ PartsExplained(p)'
           /\ \A o \in Ops : FetchedOf(p, o)'
<1>1. PodInOrder(p)
  BY DEF HyenaIInv, PodsExplained
<1>2. /\ UNCHANGED <<vars, wants, secret>>
      /\ pod[p] # "ready" /\ ConfigAccepts(wants[p].k)
      /\ pod'[p] = "fetch" /\ outcome'[p] = NoneFetched
      /\ reached'[p] = [o \in Ops |->
             {s \in Servers : status[o] = "ok" /\ rpc[o][s] = "served"}]
  BY DEF PodStarts, HyenaIInv, HyenaTypeOK
<1>3. secret'[p] = NoSecret
  BY <1>1, <1>2 DEF PodInOrder
<1>4. PodInOrder(p)'
  BY <1>2, <1>3 DEF PodInOrder, ConfigAccepts, vars, callVars
<1>5. PartsExplained(p)'
  BY <1>2, <1>3, SecretsAssumption DEF PartsExplained, NoneFetched
<1>6. \A o \in Ops : FetchedOf(p, o)'
  BY <1>2 DEF FetchedOf, NoneFetched
<1> QED
  BY <1>4, <1>5, <1>6

\* What Combine makes of the shares a pod holds.
LEMMA CombineExplained ==
    ASSUME HyenaIInv, NEW p \in Pods, NEW G \in SUBSET Successes(p),
           NEW b \in CombineResults(p, G)
    PROVE  /\ b = Garbage => StoresOf(wants[p].name) # {}
           /\ \A o \in Ops :
                 /\ StoresOf(wants[p].name) = {o}
                 /\ Cardinality(G) = wants[p].k
                 /\ wants[p].k = job[o].k
                 => b # Garbage
<1> DEFINE splits == {part[p][s].split : s \in G}
<1>1. \A s \in G : part[p][s].split \in StoresOf(wants[p].name)
  BY DEF Successes, HyenaIInv, PodsExplained, PartsExplained
<1>2. CASE G = {}
  <2>1. b = NoSecret
    BY <1>2, FS_EmptySet DEF CombineResults
  <2> QED
    BY <2>1, SecretsAssumption
<1>3. CASE G # {}
  <2>1. ASSUME NEW o \in Ops, StoresOf(wants[p].name) = {o},
               Cardinality(G) = wants[p].k, wants[p].k = job[o].k
        PROVE  b # Garbage
    <3>1. splits = {o}
      BY <1>1, <1>3, <2>1
    <3>2. Cardinality(splits) = 1
      BY <3>1, FS_Singleton
    <3>3. b = NoSecret \/ b = IF Cardinality(G) >= job[o].k THEN job[o].data ELSE Garbage
      BY <3>1, <3>2 DEF CombineResults
    <3>4. job[o].data \in Values /\ job[o].k \in Int
      <4>1. IsStore(o) /\ job[o] \in Job
        BY <2>1 DEF StoresOf, IsStore, HyenaIInv, IInv, CallsInOrder, CallInOrder
      <4> QED
        BY <4>1, Constants DEF IsStore, Job
    <3> QED
      BY <2>1, <3>3, <3>4, SecretsAssumption
  <2> QED
    BY <1>1, <1>3, <2>1
<1> QED
  BY <1>2, <1>3

\* FetchShares has returned, or the configuration was refused.
LEMMA EndsExplained ==
    ASSUME HyenaIInv, NEW p \in Pods,
           PodCombines(p) \/ PodHasTooFew(p) \/ PodConfigError(p)
    PROVE  /\ PodInOrder(p)'
           /\ PartsExplained(p)'
           /\ \A o \in Ops : FetchedOf(p, o)'
<1>1. PodInOrder(p) /\ PartsExplained(p) /\ \A o \in Ops : FetchedOf(p, o)
  BY DEF HyenaIInv, PodsExplained
<1>2. UNCHANGED <<vars, wants, outcome, part, reached>>
  BY DEF PodCombines, PodHasTooFew, PodConfigError
<1>3. /\ pod'[p] \in {"ready", "failed"}
      /\ pod'[p] = "ready" => ConfigAccepts(wants[p].k)
      /\ pod'[p] # "ready" => secret'[p] = NoSecret
      /\ secret'[p] = Garbage => StoresOf(wants[p].name) # {}
  <2>1. CASE PodCombines(p)
    <3>1. PICK G \in SUBSET Successes(p) : \E b \in CombineResults(p, G) :
              /\ secret' = [secret EXCEPT ![p] = b]
              /\ pod' = [pod EXCEPT ![p] = IF b = NoSecret THEN "failed" ELSE "ready"]
      BY <2>1 DEF PodCombines
    <3>2. ConfigAccepts(wants[p].k)
      BY <1>1, <2>1 DEF PodCombines, PodInOrder
    <3>3. PICK b \in CombineResults(p, G) :
              /\ secret'[p] = b
              /\ pod'[p] = IF b = NoSecret THEN "failed" ELSE "ready"
      BY <3>1 DEF HyenaIInv, HyenaTypeOK
    <3>4. b = Garbage => StoresOf(wants[p].name) # {}
      BY <3>3, CombineExplained
    <3> QED
      BY <3>2, <3>3, <3>4
  <2>2. CASE PodHasTooFew(p) \/ PodConfigError(p)
    <3>1. pod[p] # "ready" /\ pod' = [pod EXCEPT ![p] = "failed"] /\ secret' = secret
      BY <2>2 DEF PodHasTooFew, PodConfigError
    <3> QED
      BY <1>1, <3>1, SecretsAssumption DEF PodInOrder, HyenaIInv, HyenaTypeOK
  <2> QED
    BY <2>1, <2>2
<1>4. PodInOrder(p)'
  BY <1>1, <1>2, <1>3 DEF PodInOrder, ConfigAccepts, vars, callVars
<1>5. PartsExplained(p)'
  BY <1>1, <1>2, <1>3 DEF PartsExplained, StoresOf, OnName, IsStore, vars, callVars
<1>6. \A o \in Ops : FetchedOf(p, o)'
  BY <1>1, <1>2
  DEF FetchedOf, vars, callVars, histVars, IsStore, IsDelete, ShareFor
<1> QED
  BY <1>4, <1>5, <1>6

LEMMA ExplainedStep == HyenaIInv /\ [HyenaNext]_hyenaVars => PodsExplained'
<1> SUFFICES ASSUME HyenaIInv, [HyenaNext]_hyenaVars, NEW p \in Pods
             PROVE  /\ PodInOrder(p)'
                    /\ PartsExplained(p)'
                    /\ \A o \in Ops : FetchedOf(p, o)'
  BY DEF PodsExplained
<1> QED
  BY StepOfPod, UntouchedExplained, GetsExplained, SettlesExplained, StartsExplained,
     EndsExplained
  DEF PodStep, HyenaIInv

-----------------------------------------------------------------------------
(* The properties of what a pod reads.                                     *)

LEMMA NeverGarbageStep == HyenaIInv /\ [HyenaNext]_hyenaVars => OneStoreNeverGarbage'
<1> SUFFICES ASSUME HyenaIInv, [HyenaNext]_hyenaVars, NEW p \in Pods, NEW o \in Ops,
                    StoresOf(wants[p].name)' = {o}, wants'[p].k = job'[o].k,
                    secret'[p] = Garbage
             PROVE  FALSE
  BY DEF OneStoreNeverGarbage
<1>1. TypeOK /\ CallsInOrder /\ [Next]_vars /\ wants' = wants /\ wants[p].name \in Names
  BY ManagerStep, WantsKept DEF HyenaIInv, IInv, HyenaTypeOK
<1>2. StoresOf(wants[p].name) \subseteq {o}
  <2>1. StoresOf(wants[p].name) \subseteq StoresOf(wants[p].name)'
    BY <1>1, StoresKept DEF StoresOf, OnName, IsStore
  <2> QED
    BY <2>1
<1>3. CASE Untouched(p)
  <2>1. StoresOf(wants[p].name) = {o}
    BY <1>2, <1>3 DEF Untouched, HyenaIInv, PodsExplained, PartsExplained
  <2>2. status[o] # "idle"
    BY <2>1 DEF StoresOf, IsStore
  <2>3. job'[o] = job[o]
    BY <1>1, <2>2, CallsKept DEF Kept
  <2> QED
    BY <1>1, <1>3, <2>1, <2>3 DEF Untouched, HyenaIInv, OneStoreNeverGarbage
<1>4. CASE PodCombines(p)
  <2>1. UNCHANGED <<vars, wants>>
    BY <1>4 DEF PodCombines
  <2>2. StoresOf(wants[p].name) = {o} /\ wants[p].k = job[o].k
    BY <2>1 DEF StoresOf, OnName, IsStore, vars, callVars
  <2>3. PICK G \in SUBSET Successes(p) : \E b \in CombineResults(p, G) :
            Cardinality(G) = wants[p].k /\ secret' = [secret EXCEPT ![p] = b]
    BY <1>4 DEF PodCombines
  <2> QED
    BY <2>2, <2>3, CombineExplained, ZenonT(30) DEF HyenaIInv, HyenaTypeOK
<1>5. CASE PodStarts(p) \/ PodConfigError(p) \/ (PodStep(p) /\ ~PodCombines(p))
  <2>1. secret' = secret /\ pod[p] # "ready"
    BY <1>5
    DEF PodStarts, PodConfigError, PodStep, PodGets, PodMisses, PodCannotReach,
        Settles, PodHasTooFew
  <2> QED
    BY <2>1, SecretsAssumption DEF HyenaIInv, PodsExplained, PodInOrder
<1> QED
  BY <1>3, <1>4, <1>5, StepOfPod DEF HyenaIInv

\* Counting the servers outside a set of them.
LEMMA OthersOf ==
    ASSUME NEW X \in SUBSET Servers
    PROVE  /\ IsFiniteSet(X) /\ Cardinality(X) \in Nat
           /\ IsFiniteSet(Servers \ X)
           /\ Cardinality(Servers \ X) = N - Cardinality(X)
<1>1. IsFiniteSet(Servers) /\ Cardinality(Servers) = N
  BY Constants, FS_Interval DEF Servers
<1>2. Servers \cap X = X
  OBVIOUS
<1>3. IsFiniteSet(X) /\ IsFiniteSet(Servers \ X)
  BY <1>1, FS_Subset, FS_Difference
<1>4. Cardinality(Servers \ X) = Cardinality(Servers) - Cardinality(Servers \cap X)
  BY <1>1, <1>3, FS_Difference
<1> QED
  BY <1>1, <1>2, <1>3, <1>4, FS_CardinalityType

LEMMA NonEmpty ==
    ASSUME NEW X, NEW k \in Int, Cardinality(X) > N - k, k <= N
    PROVE  X # {}
<1>1. Cardinality({}) = 0
  BY FS_EmptySet
<1> SUFFICES ASSUME X = {} PROVE FALSE
  OBVIOUS
<1>2. Cardinality(X) = 0
  BY <1>1, Zenon
<1> QED
  BY <1>2, Constants

LEMMA UnreadableStep == HyenaIInv /\ [HyenaNext]_hyenaVars => DeletedIsUnreadable'
<1> SUFFICES ASSUME HyenaIInv, [HyenaNext]_hyenaVars, NEW p \in Pods, NEW o \in Ops,
                    IsDelete(o)', undisturbed'[o], wants'[p].name = job'[o].name,
                    Cardinality(reached'[p][o]) > N - wants'[p].k, pod'[p] = "ready"
             PROVE  FALSE
  BY DEF DeletedIsUnreadable
<1>1. TypeOK /\ CallsInOrder /\ [Next]_vars /\ wants' = wants
  BY ManagerStep, WantsKept DEF HyenaIInv, IInv
<1>2. PodInOrder(p) /\ wants[p].k \in Int /\ N \in Nat
  BY Constants DEF HyenaIInv, HyenaTypeOK, PodsExplained
<1>3. CASE Untouched(p)
  <2>1. reached[p][o] # {}
    <3>1. wants[p].k <= N
      BY <1>2, <1>3 DEF Untouched, PodInOrder, ConfigAccepts
    <3>2. Cardinality(reached[p][o]) > N - wants[p].k
      BY <1>1, <1>3 DEF Untouched
    <3> QED
      BY <1>2, <3>1, <3>2, NonEmpty
  <2>2. status[o] = "ok" /\ Kept(o)
    BY <1>1, <2>1, CallsKept, ReachedAnswered DEF HyenaIInv
  <2> QED
    BY <1>1, <1>3, <2>2 DEF Untouched, Kept, IsDelete, HyenaIInv, DeletedIsUnreadable
<1>4. CASE PodCombines(p)
  <2>1. UNCHANGED <<vars, reached>>
    BY <1>4 DEF PodCombines
  <2>2. reached[p][o] # {}
    <3>1. wants[p].k <= N
      BY <1>2, <1>4 DEF PodCombines, PodInOrder, ConfigAccepts
    <3>2. Cardinality(reached[p][o]) > N - wants[p].k
      BY <1>1, <2>1
    <3> QED
      BY <1>2, <3>1, <3>2, NonEmpty
  <2>3. PICK G \in SUBSET Successes(p) : Cardinality(G) = wants[p].k
    BY <1>4 DEF PodCombines
  <2>4. reached[p][o] \subseteq Servers
    BY DEF HyenaIInv, HyenaTypeOK
  <2>5. G \subseteq Servers \ reached[p][o]
    BY <1>1, <2>1, <2>2, <2>4
    DEF Successes, HyenaIInv, PodsExplained, FetchedOf, IsDelete, vars, callVars, histVars
  <2>6. Cardinality(G) <= N - Cardinality(reached[p][o])
    <3>1. Cardinality(G) <= Cardinality(Servers \ reached[p][o])
      BY <2>4, <2>5, OthersOf, FS_Subset
    <3> QED
      BY <2>4, <3>1, OthersOf
  <2>7. Cardinality(reached[p][o]) \in Nat /\ Cardinality(G) \in Int
    BY <1>2, <2>3, <2>4, OthersOf
  <2> QED
    BY <1>1, <1>2, <2>1, <2>3, <2>6, <2>7
<1>5. CASE PodStarts(p) \/ PodConfigError(p) \/ (PodStep(p) /\ ~PodCombines(p))
  BY <1>5
  DEF PodStarts, PodConfigError, PodStep, PodGets, PodMisses, PodCannotReach, Settles,
      PodHasTooFew, HyenaIInv, HyenaTypeOK
<1> QED
  BY <1>3, <1>4, <1>5, StepOfPod DEF HyenaIInv

\* Shares of one undisturbed split, as many as it needs, give what was stored.
LEMMA CombineRight ==
    ASSUME HyenaIInv, NEW p \in Pods, NEW o \in Ops, NEW G \in SUBSET Successes(p),
           IsStore(o), undisturbed[o], reached[p][o] # {}, wants[p].name = job[o].name,
           Cardinality(G) = wants[p].k, wants[p].k = job[o].k, wants[p].k >= 2
    PROVE  CombineResults(p, G) = {job[o].data}
<1> DEFINE splits == {part[p][s].split : s \in G}
<1>1. \A s \in G : part[p][s].split = o /\ part[p][s].idx = s
  <2>1. \A s \in G : part[p][s] = ShareFor(o, s)
    BY DEF Successes, HyenaIInv, PodsExplained, FetchedOf
  <2>2. \A s \in G : ShareFor(o, s).split = o /\ ShareFor(o, s).idx = s
    BY DEF ShareFor
  <2> QED
    BY <2>1, <2>2
<1>2. job[o].k \in Int
  BY Constants DEF HyenaIInv, HyenaTypeOK
<1>3. G # {}
  <2>1. Cardinality({}) # Cardinality(G)
    BY <1>2, FS_EmptySet
  <2> QED
    BY <2>1, Zenon
<1>4. splits = {o}
  BY <1>1, <1>3
<1>5. Cardinality(splits) = 1
  BY <1>4, FS_Singleton
<1>6. ~ \E s, t \in G : s # t /\ part[p][s] = part[p][t]
  BY <1>1
<1>7. ~ (Cardinality(G) < 2) /\ Cardinality(G) >= job[o].k /\ ~ (1 > 1)
  BY <1>2
<1>8. CombineResults(p, G) =
          {IF Cardinality(G) >= job[q].k THEN job[q].data ELSE Garbage : q \in splits}
  BY <1>5, <1>6, <1>7 DEF CombineResults
<1> QED
  BY <1>4, <1>7, <1>8

\* The servers a pod has no share of restarted or were out of its reach.
LEMMA TooFewExplained ==
    ASSUME HyenaIInv, NEW p \in Pods, NEW o \in Ops,
           IsStore(o), undisturbed[o], reached[p][o] # {}, wants[p].name = job[o].name,
           AllSettled(p), Cardinality(Successes(p)) < wants[p].k
    PROVE  Cardinality(crashed[o] \cup Unreachable(p)) > N - wants[p].k
<1> DEFINE X == crashed[o] \cup Unreachable(p)
<1>1. X \in SUBSET Servers /\ Successes(p) \in SUBSET Servers /\ wants[p].k \in Int
  BY Constants DEF HyenaIInv, HyenaTypeOK, TypeOK, Unreachable, Successes
<1>2. ASSUME NEW s \in Servers \ X
      PROVE  s \in Successes(p)
  <2>1. outcome[p][s] # "none" /\ outcome[p][s] # "unreachable" /\ s \notin crashed[o]
    BY DEF AllSettled, Unreachable
  <2>2. outcome[p][s] # "missing"
    BY <2>1 DEF HyenaIInv, PodsExplained, FetchedOf
  <2>3. outcome[p][s] \in {"none", "share", "missing", "unreachable"}
    BY DEF HyenaIInv, HyenaTypeOK
  <2> QED
    BY <2>1, <2>2, <2>3 DEF Successes
<1>3. Cardinality(Servers \ X) <= Cardinality(Successes(p))
  BY <1>1, <1>2, OthersOf, FS_Subset
<1>4. /\ Cardinality(X) \in Nat /\ Cardinality(Successes(p)) \in Nat
      /\ Cardinality(Servers \ X) = N - Cardinality(X)
  BY <1>1, OthersOf
<1> QED
  BY <1>1, <1>3, <1>4, Constants

LEMMA ReadsStep == HyenaIInv /\ [HyenaNext]_hyenaVars => ReadsWhatWasStored'
<1> SUFFICES ASSUME HyenaIInv, [HyenaNext]_hyenaVars, NEW p \in Pods, NEW o \in Ops,
                    IsStore(o)', undisturbed'[o], reached'[p][o] # {},
                    wants'[p] = [name |-> job'[o].name, k |-> job'[o].k],
                    pod'[p] \in {"ready", "failed"}, AllSettled(p)'
             PROVE  \/ pod'[p] = "ready" /\ secret'[p] = job'[o].data
                    \/ /\ pod'[p] = "failed"
                       /\ Cardinality(crashed[o] \cup Unreachable(p))' > N - job'[o].k
  BY DEF ReadsWhatWasStored
<1>1. TypeOK /\ CallsInOrder /\ [Next]_vars /\ wants' = wants
  BY ManagerStep, WantsKept DEF HyenaIInv, IInv
<1>2. PodInOrder(p)
  BY DEF HyenaIInv, PodsExplained
<1>3. CASE Untouched(p)
  <2>1. status[o] = "ok"
    BY <1>3, ReachedAnswered DEF Untouched, HyenaIInv
  <2>2. Kept(o)
    BY <1>1, <2>1, CallsKept
  <2>3. /\ IsStore(o) /\ undisturbed[o] /\ reached[p][o] # {}
        /\ wants[p] = [name |-> job[o].name, k |-> job[o].k]
        /\ pod[p] \in {"ready", "failed"} /\ AllSettled(p)
    BY <1>1, <1>3, <2>1, <2>2 DEF Untouched, Kept, IsStore, AllSettled
  <2>4. \/ pod[p] = "ready" /\ secret[p] = job[o].data
        \/ /\ pod[p] = "failed"
           /\ Cardinality(crashed[o] \cup Unreachable(p)) > N - job[o].k
    BY <2>3 DEF HyenaIInv, ReadsWhatWasStored
  <2>5. Cardinality(crashed[o] \cup Unreachable(p))
            <= Cardinality(crashed'[o] \cup Unreachable(p)')
    <3>1. crashed[o] \cup Unreachable(p) \subseteq crashed'[o] \cup Unreachable(p)'
      BY <1>3, <2>2 DEF Kept, Untouched, Unreachable
    <3>2. crashed'[o] \cup Unreachable(p)' \in SUBSET Servers
      <4>1. TypeOK'
        BY ManagerStep, IInvStep DEF HyenaIInv, IInv
      <4> QED
        BY <4>1 DEF TypeOK, Unreachable
    <3> QED
      BY <3>1, <3>2, OthersOf, FS_Subset
  <2>6. /\ Cardinality(crashed[o] \cup Unreachable(p)) \in Nat
        /\ Cardinality(crashed'[o] \cup Unreachable(p)') \in Nat
        /\ job[o].k \in Int
    <3>1. TypeOK'
      BY ManagerStep, IInvStep DEF HyenaIInv, IInv
    <3>2. /\ crashed[o] \cup Unreachable(p) \in SUBSET Servers
          /\ crashed'[o] \cup Unreachable(p)' \in SUBSET Servers
      BY <1>1, <3>1 DEF TypeOK, Unreachable
    <3>3. wants[p].k \in Int
      BY Constants DEF HyenaIInv, HyenaTypeOK
    <3>4. job[o].k \in Int
      BY <2>3, <3>3
    <3> QED
      BY <3>2, <3>4, OthersOf
  <2> QED
    BY <1>3, <2>2, <2>4, <2>5, <2>6, Constants DEF Untouched, Kept
<1>4. CASE UNCHANGED vars /\ UNCHANGED <<outcome, part, reached>>
  <2>1. /\ IsStore(o) /\ undisturbed[o] /\ reached[p][o] # {} /\ AllSettled(p)
        /\ wants[p].name = job[o].name /\ wants[p].k = job[o].k
        /\ job' = job /\ crashed' = crashed /\ Unreachable(p)' = Unreachable(p)
    BY <1>1, <1>4
    DEF vars, callVars, histVars, IsStore, AllSettled, Unreachable
  <2>2. CASE PodConfigError(p)
    BY <1>2, <2>1, <2>2 DEF PodConfigError, PodInOrder
  <2>3. CASE PodHasTooFew(p)
    <3>1. pod'[p] = "failed" /\ Cardinality(Successes(p)) < wants[p].k
      BY <2>3 DEF PodHasTooFew, HyenaIInv, HyenaTypeOK
    <3> QED
      BY <2>1, <3>1, TooFewExplained
  <2>4. CASE PodCombines(p)
    <3>1. PICK G \in SUBSET Successes(p) : \E b \in CombineResults(p, G) :
              /\ Cardinality(G) = wants[p].k
              /\ secret' = [secret EXCEPT ![p] = b]
              /\ pod' = [pod EXCEPT ![p] = IF b = NoSecret THEN "failed" ELSE "ready"]
      BY <2>4 DEF PodCombines
    <3>2. wants[p].k >= 2
      BY <1>2, <2>4 DEF PodCombines, PodInOrder, ConfigAccepts
    <3>3. CombineResults(p, G) = {job[o].data}
      BY <2>1, <3>1, <3>2, CombineRight
    <3>4. job[o].data \in Values
      BY <2>1 DEF IsStore, HyenaIInv, IInv, CallsInOrder, CallInOrder, Job
    <3>5. secret'[p] = job[o].data /\ pod'[p] = "ready"
      BY <3>1, <3>3, <3>4, SecretsAssumption DEF HyenaIInv, HyenaTypeOK
    <3> QED
      BY <2>1, <3>5
  <2>5. CASE Untouched(p)
    BY <1>3, <2>5
  <2>6. CASE PodStarts(p) \/ (PodStep(p) /\ ~PodCombines(p) /\ ~PodHasTooFew(p))
    BY <2>6
    DEF PodStarts, PodStep, PodGets, PodMisses, PodCannotReach, Settles, HyenaIInv,
        HyenaTypeOK
  <2> QED
    BY <2>2, <2>3, <2>4, <2>5, <2>6, StepOfPod DEF HyenaIInv, PodStep
<1>5. CASE PodStarts(p) \/ (PodStep(p) /\ ~PodCombines(p) /\ ~PodHasTooFew(p))
  BY <1>5
  DEF PodStarts, PodStep, PodGets, PodMisses, PodCannotReach, Settles, HyenaIInv,
      HyenaTypeOK
<1>6. PodCombines(p) \/ PodHasTooFew(p) \/ PodConfigError(p) =>
          UNCHANGED vars /\ UNCHANGED <<outcome, part, reached>>
  BY DEF PodCombines, PodHasTooFew, PodConfigError
<1> QED
  BY <1>3, <1>4, <1>5, <1>6, StepOfPod DEF HyenaIInv, PodStep

-----------------------------------------------------------------------------
(* The theorems.                                                           *)

LEMMA HyenaInvInit == HyenaInit => HyenaIInv
<1> SUFFICES ASSUME HyenaInit PROVE HyenaIInv
  OBVIOUS
<1>1. IInv
  BY InitIInv DEF HyenaInit
<1>2. HyenaTypeOK
  BY <1>1 DEF HyenaInit, HyenaTypeOK, IInv, NoneFetched, NoParts
<1>3. /\ \A p \in Pods : pod[p] = "new" /\ secret[p] = NoSecret
      /\ \A p \in Pods : outcome[p] = NoneFetched
      /\ \A p \in Pods, o \in Ops : reached[p][o] = {}
  BY DEF HyenaInit
<1>4. PodsExplained
  BY <1>3, SecretsAssumption
  DEF PodsExplained, PodInOrder, PartsExplained, FetchedOf, NoneFetched
<1>5. ReadsWhatWasStored /\ OneStoreNeverGarbage /\ DeletedIsUnreadable
  BY <1>3, SecretsAssumption
  DEF ReadsWhatWasStored, OneStoreNeverGarbage, DeletedIsUnreadable
<1> QED
  BY <1>1, <1>2, <1>4, <1>5 DEF HyenaIInv

LEMMA HyenaInvStep == HyenaIInv /\ [HyenaNext]_hyenaVars => HyenaIInv'
<1>1. IInv /\ [HyenaNext]_hyenaVars => IInv'
  BY ManagerStep, IInvStep
<1> QED
  BY <1>1, HyenaTypeStep, ExplainedStep, ReadsStep, NeverGarbageStep, UnreadableStep
  DEF HyenaIInv

\* The inductive invariant of the whole system.
THEOREM SystemInvariance == HyenaSpec => []HyenaIInv
BY HyenaInvInit, HyenaInvStep, PTL DEF HyenaSpec

\* A pod that starts after a successful StoreSecret nothing interfered with gets
\* what was stored, or fails because more than N-K servers restarted or were out
\* of its reach (FetchShares, fetcher.go:86-114, and the sidecar, main.go:77-121).
THEOREM PodsReadWhatWasStored == HyenaSpec => []ReadsWhatWasStored
<1>1. HyenaIInv => ReadsWhatWasStored
  BY DEF HyenaIInv
<1> QED
  BY <1>1, SystemInvariance, PTL

\* A name stored once, under the threshold its readers use, never gives wrong
\* bytes (Combine, shamir.go:204-253).
THEOREM OneStoreIsNeverGarbage == HyenaSpec => []OneStoreNeverGarbage
<1>1. HyenaIInv => OneStoreNeverGarbage
  BY DEF HyenaIInv
<1> QED
  BY <1>1, SystemInvariance, PTL

\* A secret deleted on more than N-K servers is not read any more
\* (DeleteSecret, main.go:128-149).
THEOREM DeletedSecretsAreUnreadable == HyenaSpec => []DeletedIsUnreadable
<1>1. HyenaIInv => DeletedIsUnreadable
  BY DEF HyenaIInv
<1> QED
  BY <1>1, SystemInvariance, PTL

\* Every reachable state of manager, servers and pods has the declared types,
\* with any number of each (sidecar main.go:60-120).
THEOREM HyenaTypeCorrect == HyenaSpec => []HyenaTypeOK
<1>1. HyenaIInv => HyenaTypeOK
  BY DEF HyenaIInv
<1> QED
  BY <1>1, SystemInvariance, PTL

\* The system runs the manager and the servers as SecretManager specifies them:
\* what is proved of them holds in it (sidecars only call GetShare).
THEOREM SystemImplementsManager == HyenaSpec => Spec
<1>1. HyenaInit => Init
  BY DEF HyenaInit
<1> QED
  BY <1>1, ManagerStep, PTL DEF HyenaSpec, Spec
=============================================================================
