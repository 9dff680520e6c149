------------------------------- MODULE Hyena --------------------------------
(***************************************************************************)
(* The whole system: the secret manager and the share servers, and the     *)
(* pods whose sidecar (cmd/sidecar, an init container) fetches the shares  *)
(* of one secret and reconstructs it before the application starts.        *)
(*                                                                         *)
(* A pod's FetchShares is taken at the level of QuorumFetch: an endpoint   *)
(* settles once, on the share its server held at that moment or on the     *)
(* error of its last attempt.  The attempts before change nothing.         *)
(***************************************************************************)
EXTENDS SecretManager

CONSTANTS
    Pods,
    Garbage,   \* bytes reconstructed from shares that do not determine them
    NoSecret

ASSUME SecretsAssumption ==
    Garbage \notin Values /\ NoSecret \notin Values /\ Garbage # NoSecret

VARIABLES
    pod,       \* pod[p]: what its sidecar is at
    wants,     \* wants[p]: the secret it fetches (SECRETS) and its THRESHOLD
    outcome,   \* outcome[p][s]: what fetching from server s came to
    part,      \* part[p][s]: the share server s answered with
    secret,    \* secret[p]: what the sidecar wrote for the application
    reached    \* history, reached[p][o]: the servers call o had been served by
               \* if it had answered success when p started

podVars == <<pod, wants, outcome, part, secret, reached>>
hyenaVars == <<vars, podVars>>

NoneFetched == [s \in Servers |-> "none"]
NoParts     == [s \in Servers |-> NoShare]

HyenaTypeOK ==
    /\ TypeOK
    /\ pod \in [Pods -> {"new", "fetch", "ready", "failed"}]
    /\ wants \in [Pods -> [name : Names, k : Thresholds]]
    /\ outcome \in [Pods -> [Servers ->
                        {"none", "share", "missing", "unreachable"}]]
    /\ part \in [Pods -> [Servers -> Share \cup {NoShare}]]
    /\ secret \in [Pods -> Values \cup {Garbage, NoSecret}]
    /\ reached \in [Pods -> [Ops -> SUBSET Servers]]

\* The pods' templates name a secret and a threshold; they need not agree with
\* the manager's DEFAULT_K.
HyenaInit ==
    /\ Init
    /\ pod = [p \in Pods |-> "new"]
    /\ wants \in [Pods -> [name : Names, k : Thresholds]]
    /\ outcome = [p \in Pods |-> NoneFetched]
    /\ part = [p \in Pods |-> NoParts]
    /\ secret = [p \in Pods |-> NoSecret]
    /\ reached = [p \in Pods |-> [o \in Ops |-> {}]]

-----------------------------------------------------------------------------
(* LoadSidecarConfig and the start of FetchShares.                         *)

ConfigAccepts(k) == k >= 2 /\ k <= N

\* A pod is created, or its failed init container is run again.
PodStarts(p) ==
    /\ pod[p] \in {"new", "failed"}
    /\ ConfigAccepts(wants[p].k)
    /\ pod' = [pod EXCEPT ![p] = "fetch"]
    /\ outcome' = [outcome EXCEPT ![p] = NoneFetched]
    /\ part' = [part EXCEPT ![p] = NoParts]
    /\ reached' = [reached EXCEPT ![p] = [o \in Ops |->
           {s \in Servers : status[o] = "ok" /\ rpc[o][s] = "served"}]]
    /\ UNCHANGED <<vars, wants, secret>>

PodConfigError(p) ==
    /\ pod[p] = "new"
    /\ ~ConfigAccepts(wants[p].k)
    /\ pod' = [pod EXCEPT ![p] = "failed"]
    /\ UNCHANGED <<vars, wants, outcome, part, secret, reached>>

-----------------------------------------------------------------------------
(* FetchShares: server s settles.                                          *)

Settles(p, s, r) ==
    /\ pod[p] = "fetch"
    /\ outcome[p][s] = "none"
    /\ outcome' = [outcome EXCEPT ![p][s] = r]
    /\ UNCHANGED <<vars, pod, wants, secret, reached>>

PodGets(p, s) ==
    /\ Settles(p, s, "share")
    /\ GetShare(s, wants[p].name, shares[s][wants[p].name])
    /\ part' = [part EXCEPT ![p][s] = shares[s][wants[p].name]]

PodMisses(p, s) ==
    /\ Settles(p, s, "missing")
    /\ GetShareNotFound(s, wants[p].name)
    /\ UNCHANGED part

\* The last attempt is refused, or times out.
PodCannotReach(p, s) ==
    /\ Settles(p, s, "unreachable")
    /\ UNCHANGED part

AllSettled(p) == \A s \in Servers : outcome[p][s] # "none"
Successes(p)  == {s \in Servers : outcome[p][s] = "share"}

-----------------------------------------------------------------------------
(* FetchShares returns; Combine; the file is written.                      *)

\* What Combine makes of the parts of the servers in G.  Fewer than two parts,
\* or two equal ones, are refused.  Parts of one split determine the secret if
\* there are as many as it was split for, and otherwise give other bytes without
\* an error.  Parts of several splits are refused when their lengths differ or
\* two of their x coordinates, which Split draws at random, happen to be equal,
\* and give other bytes when not.  NoSecret stands for the error.
CombineResults(p, G) ==
    LET splits == {part[p][s].split : s \in G}
    IN  IF \/ Cardinality(G) < 2
           \/ \E s, t \in G : s # t /\ part[p][s] = part[p][t]
        THEN {NoSecret}
        ELSE IF Cardinality(splits) > 1 THEN {NoSecret, Garbage}
        ELSE {IF Cardinality(G) >= job[o].k THEN job[o].data ELSE Garbage
                  : o \in splits}

\* Mutant: one share fewer than the threshold is returned.
PodCombinesOneFewer(p) ==
    /\ pod[p] = "fetch"
    /\ AllSettled(p)
    /\ \E G \in SUBSET Successes(p) : \E b \in CombineResults(p, G) :
          /\ Cardinality(G) = wants[p].k - 1
          /\ secret' = [secret EXCEPT ![p] = b]
          /\ pod' = [pod EXCEPT ![p] = IF b = NoSecret THEN "failed" ELSE "ready"]
    /\ UNCHANGED <<vars, wants, outcome, part, reached>>

\* ExitReconstructionError, or the secret is written and the sidecar exits 0.
PodCombines(p) ==
    /\ pod[p] = "fetch"
    /\ AllSettled(p)
    /\ \E G \in SUBSET Successes(p) : \E b \in CombineResults(p, G) :
          /\ Cardinality(G) = wants[p].k
          /\ secret' = [secret EXCEPT ![p] = b]
          /\ pod' = [pod EXCEPT ![p] = IF b = NoSecret THEN "failed" ELSE "ready"]
    /\ UNCHANGED <<vars, wants, outcome, part, reached>>

\* Mutant: one failed server fails the fetch.
PodHasTooFewIfAnyFails(p) ==
    /\ pod[p] = "fetch"
    /\ AllSettled(p)
    /\ Successes(p) # Servers
    /\ pod' = [pod EXCEPT ![p] = "failed"]
    /\ UNCHANGED <<vars, wants, outcome, part, secret, reached>>

\* ExitFetchError.
PodHasTooFew(p) ==
    /\ pod[p] = "fetch"
    /\ AllSettled(p)
    /\ Cardinality(Successes(p)) < wants[p].k
    /\ pod' = [pod EXCEPT ![p] = "failed"]
    /\ UNCHANGED <<vars, wants, outcome, part, secret, reached>>

-----------------------------------------------------------------------------
PodStep(p) ==
    \/ \E s \in Servers : PodGets(p, s) \/ PodMisses(p, s) \/ PodCannotReach(p, s)
    \/ PodCombines(p)
    \/ PodHasTooFew(p)

HyenaNext ==
    \/ Next /\ UNCHANGED podVars
    \/ \E p \in Pods : PodStarts(p) \/ PodConfigError(p) \/ PodStep(p)

HyenaSpec == HyenaInit /\ [][HyenaNext]_hyenaVars

-----------------------------------------------------------------------------
(* Properties.                                                             *)

Unreachable(p) == {s \in Servers : outcome[p][s] = "unreachable"}
StoresOf(n)    == {o \in Ops : OnName(o, n) /\ IsStore(o)}

\* A pod that starts after a successful StoreSecret, which no other call has
\* interfered with by the time the pod is done, gets exactly the stored data if
\* the servers that restarted since the call began and those the pod could not
\* reach are together no more than N-K, and in any case nothing else than the
\* data: it fails or is right.
ReadsWhatWasStored ==
    \A p \in Pods, o \in Ops :
        /\ IsStore(o) /\ undisturbed[o] /\ reached[p][o] # {}
        /\ wants[p] = [name |-> job[o].name, k |-> job[o].k]
        /\ pod[p] \in {"ready", "failed"}
        /\ AllSettled(p)
        => \/ pod[p] = "ready" /\ secret[p] = job[o].data
           \/ /\ pod[p] = "failed"
              /\ Cardinality(crashed[o] \cup Unreachable(p)) > N - job[o].k

\* As long as a name has been stored once, under the threshold its readers use,
\* a pod never starts with wrong bytes, even if that StoreSecret failed half
\* way, goes on while the pod reads, or was deleted in part (sidecar
\* main.go:78-112).
OneStoreNeverGarbage ==
    \A p \in Pods, o \in Ops :
        /\ StoresOf(wants[p].name) = {o}
        /\ wants[p].k = job[o].k
        => secret[p] # Garbage

\* A pod that starts after a DeleteSecret that reached more than N-K servers,
\* and that no other call interferes with, does not get the secret, however
\* many servers the DeleteSecret missed.
DeletedIsUnreadable ==
    \A p \in Pods, o \in Ops :
        /\ IsDelete(o) /\ undisturbed[o]
        /\ wants[p].name = job[o].name
        /\ Cardinality(reached[p][o]) > N - wants[p].k
        => pod[p] # "ready"

-----------------------------------------------------------------------------
(* The inductive invariant.                                                *)

\* What a pod has by where it is; the calls it counts as answered still are.
PodInOrder(p) ==
    /\ pod[p] = "new" => outcome[p] = NoneFetched /\ \A o \in Ops : reached[p][o] = {}
    /\ pod[p] \in {"fetch", "ready"} => ConfigAccepts(wants[p].k)
    /\ pod[p] # "ready" => secret[p] = NoSecret
    /\ \A o \in Ops : \A s \in reached[p][o] : status[o] = "ok" /\ rpc[o][s] = "served"

\* A share a pod holds is the one of the server it is from, of a split of the
\* secret it wants; and it has no wrong bytes of a secret nobody stored.
PartsExplained(p) ==
    /\ \A s \in Servers : outcome[p][s] = "share" =>
          /\ part[p][s] \in Share
          /\ part[p][s].idx = s
          /\ part[p][s].split \in StoresOf(wants[p].name)
    /\ secret[p] = Garbage => StoresOf(wants[p].name) # {}

\* What a pod got of an undisturbed call answered before it started: of a
\* StoreSecret its share, unless the server restarted; of a DeleteSecret none.
FetchedOf(p, o) ==
    undisturbed[o] /\ reached[p][o] # {} /\ wants[p].name = job[o].name =>
        \A s \in Servers :
            /\ IsStore(o) /\ outcome[p][s] = "share" => part[p][s] = ShareFor(o, s)
            /\ IsStore(o) /\ outcome[p][s] = "missing" => s \in crashed[o]
            /\ IsDelete(o) /\ s \in reached[p][o] => outcome[p][s] # "share"

PodsExplained ==
    \A p \in Pods : PodInOrder(p) /\ PartsExplained(p) /\ \A o \in Ops : FetchedOf(p, o)

\* With the invariant of the manager, what every step of manager, servers and
\* pods preserves (fetcher.go:68-114 and sidecar main.go:77-121).
HyenaIInv ==
    /\ HyenaTypeOK
    /\ IInv
    /\ PodsExplained
    /\ ReadsWhatWasStored
    /\ OneStoreNeverGarbage
    /\ DeletedIsUnreadable

-----------------------------------------------------------------------------
\* Shares of several splits, or fewer than the split's threshold, end in
\* "Failed to reconstruct secret" (charts/hyena/README.md:454-460).  Refuted:
\* Combine returns bytes, and the application starts with them.
MismatchIsRejected == \A p \in Pods : secret[p] # Garbage

\* "System recovered once enough servers became available" (docs/demo.md:168):
\* a pod that can reach K servers again gets what was stored.  Refuted: a
\* server that restarted has lost its shares.
RecoversWithServers ==
    \A p \in Pods, o \in Ops :
        /\ IsStore(o) /\ undisturbed[o] /\ reached[p][o] # {}
        /\ wants[p] = [name |-> job[o].name, k |-> job[o].k]
        /\ pod[p] = "failed"
        => Cardinality(Unreachable(p)) > N - job[o].k
=============================================================================
