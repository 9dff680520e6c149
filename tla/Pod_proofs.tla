----------------------------- MODULE Pod_proofs -----------------------------
(***************************************************************************)
(* Proofs about Pod, for every deployment, any number of secrets, servers  *)
(* and store calls, and any number of restarts of each part.               *)
(***************************************************************************)
EXTENDS Pod, FiniteSetTheorems, SequenceTheorems, WellFoundedInduction, TLAPS

-----------------------------------------------------------------------------
(* The inductive invariant.                                                *)

AtWork == sidecar \in {"fetch", "write", "fill"}

\* What this run of the sidecar may have reconstructed of a secret.
Explained(n, d) ==
    \/ d \in MetBy(n)
    \/ d = Garbage /\ (Mixed(n) \/ TooFew(n))

\* The sidecar is done with its i-th secret.
Complete(i) ==
    LET s == Config.secrets[i]
    IN  /\ s.path \in DOMAIN files
        /\ files[s.path].name = s.name
        /\ Explained(s.name, files[s.path].data)

\* Servers hold shares of calls there were, and the run has seen what they hold.
StoreOK ==
    /\ \A s \in Servers, n \in Names : holds[s][n] \in 0..Len(calls)
    /\ \A n \in Names : during[n] \subseteq 0..Len(calls)
    /\ sidecar # "exited" => \A s \in Servers, n \in Names : holds[s][n] \in during[n]

\* Where the sidecar is, and what it has in its hands.
WorkOK ==
    /\ AtWork => cfg # {} /\ todo \in 1..Len(Config.secrets)
    /\ sidecar # "fetch" => DOMAIN fetched = {}
    /\ \A e \in DOMAIN fetched : fetched[e] \in MetBy(Current.name) \cup {0}
    /\ sidecar \in {"write", "fill"} => Explained(Current.name, value)

\* Files are only ever made below the mount, for the secrets there are.
VolumeOK ==
    /\ StartDirs \subseteq dirs
    /\ \A p \in DOMAIN files :
          /\ cfg # {} /\ \E i \in DOMAIN Config.secrets : Config.secrets[i].path = p
          /\ Writable(p) /\ p \notin StartDirs

\* What this run has written; what is left of an earlier one stops it.
FilesOK ==
    /\ AtWork => \A i \in 1..(todo - 1) : Complete(i)
    /\ sidecar = "fill" =>
          /\ Current.path \in DOMAIN files
          /\ files[Current.path] = [name |-> Current.name, data |-> 0]
    /\ sidecar = "exited" /\ code = 0 =>
          cfg # {} /\ \A i \in DOMAIN Config.secrets : Complete(i)

\* Exit code 4 is of a secret that the run has a configuration for.
RefusedOK ==
    /\ sidecar = "exited" /\ code = 4 => cfg # {} /\ todo \in 1..Len(Config.secrets)
    /\ RefusalsAreExplained

\* The application has loaded what is on the volume, and that stays as it is.
AppOK ==
    app = "running" =>
        sidecar = "exited" /\ code = 0 /\ secrets \in loadSecrets(files, Mount)

PodInv == TypeOK /\ StoreOK /\ WorkOK /\ VolumeOK /\ FilesOK /\ RefusedOK /\ AppOK

-----------------------------------------------------------------------------
(* The configuration of a run.                                             *)

\* What LoadSidecarConfig has checked.
LEMMA ConfigOK ==
    ASSUME TypeOK, cfg # {}
    PROVE  /\ Config.secrets = SecretMappings(env)
           /\ Config.secrets \in Seq([name : Names, path : Seq(Component)])
           /\ Len(Config.secrets) \in Nat \ {0}
           /\ Config.endpoints = env.SHARE_SERVER_ENDPOINTS
           /\ Config.endpoints \in Seq(Servers)
           /\ Config.threshold \in Nat \ {0, 1}
<1> DEFINE c == [secrets |-> SecretMappings(env), endpoints |-> env.SHARE_SERVER_ENDPOINTS,
                 threshold |-> env.THRESHOLD]
<1>1. /\ SecretMappings(env) # <<>> /\ ~(env.THRESHOLD < 2)
      /\ cfg = {c}
  BY DEF TypeOK, LoadSidecarConfig
<1>2. Config = c
  BY <1>1, Zenon DEF Config
<1>3. /\ SecretMappings(env) \in Seq([name : Names, path : Seq(Component)])
      /\ env.SHARE_SERVER_ENDPOINTS \in Seq(Servers)
      /\ env.THRESHOLD \in Int
  BY PodAssumption DEF TypeOK
<1>4. Len(SecretMappings(env)) \in Nat \ {0}
  BY <1>1, <1>3, EmptySeq, LenProperties
<1> HIDE DEF Config
<1> QED
  BY <1>1, <1>2, <1>3, <1>4

\* The secret a run is at.
LEMMA CurrentOK ==
    ASSUME TypeOK, cfg # {}, todo \in 1..Len(Config.secrets)
    PROVE  /\ Current = Config.secrets[todo]
           /\ Current.name \in Names /\ Current.path \in Seq(Component)
<1>1. Config.secrets[todo] \in [name : Names, path : Seq(Component)]
  BY ConfigOK, ElementOfSeq
<1> QED
  BY <1>1 DEF Current

LEMMA SecretOK ==
    ASSUME TypeOK, cfg # {}, NEW i \in DOMAIN Config.secrets
    PROVE  /\ i \in 1..Len(Config.secrets)
           /\ Config.secrets[i].name \in Names /\ Config.secrets[i].path \in Seq(Component)
<1>1. i \in 1..Len(Config.secrets)
  BY ConfigOK, LenProperties
<1>2. Config.secrets[i] \in [name : Names, path : Seq(Component)]
  BY <1>1, ConfigOK, ElementOfSeq
<1> QED
  BY <1>1, <1>2

\* The configuration is the same for the whole life of the pod.
LEMMA SameConfig ==
    ASSUME UNCHANGED deployment
    PROVE  /\ env' = env /\ cfg' = cfg /\ Config' = Config /\ Mount' = Mount
           /\ StartDirs' = StartDirs
<1>1. env' = env /\ cfg' = cfg /\ Mount' = Mount
  BY DEF deployment, Mount
<1>2. Config' = Config
  BY <1>1 DEF Config
<1>3. StartDirs' = StartDirs
  BY <1>1 DEF StartDirs
<1> QED
  BY <1>1, <1>2, <1>3

\* What a run has met it has met for good.
LEMMA StillExplained ==
    ASSUME PodInv, Config' = Config, NEW n \in Names, during[n] \subseteq during'[n],
           \A c \in 1..Len(calls) : calls'[c].k = calls[c].k
    PROVE  /\ MetBy(n) \subseteq MetBy(n)'
           /\ Mixed(n) => Mixed(n)'
           /\ TooFew(n) => TooFew(n)'
           /\ \A d : Explained(n, d) => Explained(n, d)'
<1>1. MetBy(n) \subseteq MetBy(n)'
  BY DEF MetBy
<1>2. Mixed(n) => Mixed(n)'
  BY <1>1 DEF Mixed
<1>3. MetBy(n) \subseteq 1..Len(calls)
  BY LenProperties DEF PodInv, TypeOK, StoreOK, MetBy
<1>4. TooFew(n) => TooFew(n)'
  BY <1>1, <1>3 DEF TooFew
<1> QED
  BY <1>1, <1>2, <1>4 DEF Explained

\* A step that leaves the servers and the run alone changes nothing of this.
LEMMA SameExplained ==
    ASSUME Config' = Config, UNCHANGED <<calls, during>>
    PROVE  /\ \A n : MetBy(n)' = MetBy(n) /\ (Mixed(n)' <=> Mixed(n)) /\ (TooFew(n)' <=> TooFew(n))
           /\ \A n, d : Explained(n, d)' <=> Explained(n, d)
<1>1. \A n : MetBy(n)' = MetBy(n)
  BY DEF MetBy
<1> QED
  BY <1>1 DEF Mixed, TooFew, Explained

LEMMA PodInit == Init => PodInv
<1> SUFFICES ASSUME Init PROVE PodInv
  OBVIOUS
<1>1. /\ MaxStores \in Nat /\ N \in Nat /\ Len(SecretMappings(env)) \in Nat
      /\ <<>> \in Seq([name : Names, k : Thresholds, next : 1..(N+1)]) /\ Len(<<>>) = 0
  BY PodAssumption, LenProperties, EmptySeq DEF Init
<1>2. \A n \in Names : Holding(n) \subseteq {0}
  BY DEF Init, Holding
<1>3. TypeOK
  BY <1>1, <1>2 DEF Init, TypeOK, NoFiles, NoResults
<1>4. StoreOK
  BY <1>1, <1>2 DEF Init, StoreOK, Holding
<1>5. WorkOK /\ FilesOK /\ AppOK /\ RefusedOK
  BY DEF Init, WorkOK, FilesOK, AppOK, RefusedOK, RefusalsAreExplained, AtWork, NoResults
<1>6. VolumeOK
  BY DEF Init, VolumeOK, NoFiles
<1> QED
  BY <1>3, <1>4, <1>5, <1>6 DEF PodInv

-----------------------------------------------------------------------------
(* The steps.                                                              *)

\* What the steps at the servers have in common.
ServersMove ==
    /\ UNCHANGED <<deployment, sidecarVars, volumeVars, appVars, firstRun>>
    /\ calls' \in Seq([name : Names, k : Thresholds, next : 1..(N+1)])
    /\ Len(calls') <= MaxStores /\ Len(calls) <= Len(calls')
    /\ \A c \in 1..Len(calls) : calls'[c].k = calls[c].k
    /\ holds' \in [Servers -> [Names -> 0..MaxStores]]
    /\ \A s \in Servers, n \in Names : holds'[s][n] \in 0..Len(calls')
    /\ NotesHeld \/ UNCHANGED <<holds, during>>

LEMMA ServersMoving ==
    ASSUME PodInv,
           \/ \E n \in Names, k \in Thresholds : StoreSecret(n, k)
           \/ \E c \in DOMAIN calls : StoreShare(c)
           \/ \E s \in Servers, n \in Names : DeleteShare(s, n)
           \/ \E s \in Servers : ServerRestarts(s)
    PROVE  ServersMove
<1> DEFINE Call == [name : Names, k : Thresholds, next : 1..(N+1)]
<1>1. /\ calls \in Seq(Call) /\ Len(calls) \in Nat /\ DOMAIN calls = 1..Len(calls)
      /\ N \in Nat /\ MaxStores \in Nat /\ Len(calls) <= MaxStores
      /\ holds \in [Servers -> [Names -> 0..MaxStores]]
      /\ \A s \in Servers, n \in Names : holds[s][n] \in 0..Len(calls)
  BY PodAssumption, LenProperties DEF PodInv, TypeOK, StoreOK
<1>2. CASE \E n \in Names, k \in Thresholds : StoreSecret(n, k)
  <2>1. PICK n \in Names, k \in Thresholds : StoreSecret(n, k)
    BY <1>2
  <2> DEFINE new == [name |-> n, k |-> k, next |-> 1]
  <2>2. new \in Call
    BY <1>1
  <2>3. calls' = Append(calls, new)
    BY <2>1 DEF StoreSecret
  <2> HIDE DEF new
  <2>4. /\ calls' \in Seq(Call) /\ Len(calls') = Len(calls) + 1
        /\ \A c \in 1..Len(calls) : calls'[c] = calls[c]
    BY <1>1, <2>2, <2>3, AppendProperties
  <2> QED
    BY <1>1, <2>1, <2>4 DEF StoreSecret, ServersMove, runVars
<1>3. CASE \E c \in DOMAIN calls : StoreShare(c)
  <2>1. PICK c \in 1..Len(calls) : StoreShare(c)
    BY <1>1, <1>3
  <2>2. calls[c] \in Call /\ calls[c].next \in 1..N
    BY <1>1, <2>1, ElementOfSeq DEF StoreShare, Servers
  <2>3. [calls[c] EXCEPT !.next = @ + 1] \in Call
    <3>1. calls[c].next + 1 \in 1..(N+1)
      BY <1>1, <2>2
    <3>2. \A d \in Call, m \in 1..(N+1) : [d EXCEPT !.next = m] \in Call
      OBVIOUS
    <3> QED
      BY <2>2, <3>1, <3>2
  <2>4. calls' = [calls EXCEPT ![c] = [calls[c] EXCEPT !.next = @ + 1]]
    BY <2>1 DEF StoreShare
  <2>5. /\ calls' \in Seq(Call) /\ Len(calls') = Len(calls)
        /\ \A d \in 1..Len(calls) : calls'[d].k = calls[d].k
    BY <1>1, <2>2, <2>3, <2>4, ExceptSeq
  <2>6. /\ holds' \in [Servers -> [Names -> 0..MaxStores]]
        /\ \A s \in Servers, n \in Names : holds'[s][n] \in {c, holds[s][n]}
    BY <1>1, <2>1, <2>2 DEF StoreShare
  <2>7. NotesHeld /\ UNCHANGED <<deployment, sidecarVars, volumeVars, appVars, firstRun>>
    BY <2>1 DEF StoreShare
  <2>8. ASSUME NEW s \in Servers, NEW n \in Names
        PROVE  holds'[s][n] \in 0..Len(calls')
    <3>1. holds[s][n] \in 0..Len(calls) /\ c \in 0..Len(calls) /\ Len(calls') = Len(calls)
      BY <1>1, <2>5
    <3> QED
      BY <2>6, <3>1
  <2>9. Len(calls') <= MaxStores /\ Len(calls) <= Len(calls')
    <3>1. Len(calls) \in Nat /\ Len(calls) <= MaxStores /\ Len(calls') = Len(calls)
      BY <1>1, <2>5
    <3> QED
      BY <3>1
  <2> QED
    BY <2>5, <2>6, <2>7, <2>8, <2>9 DEF ServersMove
<1>4. CASE \/ \E s \in Servers, n \in Names : DeleteShare(s, n)
           \/ \E s \in Servers : ServerRestarts(s)
  <2>1. /\ calls' = calls /\ NotesHeld
        /\ UNCHANGED <<deployment, sidecarVars, volumeVars, appVars, firstRun>>
    BY <1>4 DEF DeleteShare, ServerRestarts
  <2>2. /\ holds' \in [Servers -> [Names -> 0..MaxStores]]
        /\ \A s \in Servers, n \in Names : holds'[s][n] \in {0, holds[s][n]}
    <3>1. CASE \E s \in Servers, n \in Names : DeleteShare(s, n)
      BY <1>1, <3>1 DEF DeleteShare
    <3>2. CASE \E s \in Servers : ServerRestarts(s)
      BY <1>1, <3>2 DEF ServerRestarts
    <3> QED
      BY <1>4, <3>1, <3>2
  <2>3. ASSUME NEW s \in Servers, NEW n \in Names
        PROVE  holds'[s][n] \in 0..Len(calls')
    <3>1. holds[s][n] \in 0..Len(calls) /\ 0 \in 0..Len(calls) /\ Len(calls') = Len(calls)
      BY <1>1, <2>1
    <3> QED
      BY <2>2, <3>1
  <2> QED
    BY <1>1, <2>1, <2>2, <2>3 DEF ServersMove
<1> QED
  BY <1>2, <1>3, <1>4

\* What a run has stays explained when servers get or lose shares.
LEMMA InvStore ==
    ASSUME PodInv, ServersMove
    PROVE  PodInv'
<1>1. /\ UNCHANGED <<env, cfg, sidecar, todo, fetched, value, code, dirs, files, app, secrets,
                     firstRun>>
      /\ Config' = Config /\ Mount' = Mount /\ StartDirs' = StartDirs
      /\ Current' = Current /\ (AtWork' <=> AtWork)
  BY SameConfig DEF ServersMove, deployment, sidecarVars, volumeVars, appVars, Current, AtWork
<1>2. Len(calls) \in Nat /\ Len(calls') \in Nat /\ Len(calls) <= Len(calls')
      /\ Len(calls') <= MaxStores /\ MaxStores \in Nat
  BY PodAssumption, LenProperties DEF ServersMove, PodInv, TypeOK
<1>3. /\ during' \in [Names -> SUBSET (0..MaxStores)]
      /\ \A n \in Names : during[n] \subseteq during'[n] /\ during'[n] \subseteq 0..Len(calls')
      /\ sidecar # "exited" => \A s \in Servers, n \in Names : holds'[s][n] \in during'[n]
  <2>1. CASE UNCHANGED <<holds, during>> \/ (sidecar = "exited" /\ during' = during)
    <3>1. \A n \in Names : during[n] \subseteq 0..Len(calls')
      BY <1>2 DEF PodInv, StoreOK
    <3> QED
      BY <2>1, <3>1 DEF PodInv, TypeOK, StoreOK
  <2>2. CASE NotesHeld /\ sidecar # "exited"
    <3>1. during' = [n \in Names |-> during[n] \cup Holding(n)']
      BY <2>2 DEF NotesHeld
    <3>2. \A n \in Names : Holding(n)' \subseteq 0..Len(calls')
      BY DEF Holding, ServersMove
    <3>3. \A n \in Names : during[n] \subseteq 0..Len(calls')
      BY <1>2 DEF PodInv, StoreOK
    <3>4. \A s \in Servers, n \in Names : holds'[s][n] \in Holding(n)'
      BY DEF Holding
    <3>5. 0..Len(calls') \subseteq 0..MaxStores
      BY <1>2
    <3> QED
      BY <3>1, <3>2, <3>3, <3>4, <3>5
  <2> QED
    BY <2>1, <2>2 DEF NotesHeld, ServersMove
<1>4. \A n \in Names : /\ MetBy(n) \subseteq MetBy(n)'
                       /\ Mixed(n) => Mixed(n)'
                       /\ \A d : Explained(n, d) => Explained(n, d)'
  BY <1>1, <1>3, StillExplained DEF ServersMove
<1>5. TypeOK' /\ StoreOK'
  BY <1>1, <1>3 DEF ServersMove, PodInv, TypeOK, StoreOK
<1>6. WorkOK'
  <2>1. AtWork => Current.name \in Names
    BY CurrentOK DEF PodInv, WorkOK
  <2>2. ASSUME NEW e \in DOMAIN fetched
        PROVE  fetched[e] \in MetBy(Current.name)' \cup {0}
    <3>1. AtWork /\ fetched[e] \in MetBy(Current.name) \cup {0}
      BY DEF PodInv, WorkOK, AtWork
    <3>2. MetBy(Current.name) \subseteq MetBy(Current.name)'
      BY <1>1, <1>4, <2>1, <3>1 DEF MetBy
    <3> QED
      BY <3>1, <3>2
  <2>3. sidecar \in {"write", "fill"} => Explained(Current.name, value)'
    BY <1>1, <1>4, <2>1 DEF PodInv, WorkOK, AtWork
  <2>4. /\ AtWork => cfg # {} /\ todo \in 1..Len(Config.secrets)
        /\ sidecar # "fetch" => DOMAIN fetched = {}
    BY DEF PodInv, WorkOK
  <2> QED
    BY <1>1, <2>2, <2>3, <2>4 DEF WorkOK
<1>7. VolumeOK' /\ AppOK'
  BY <1>1 DEF PodInv, VolumeOK, Writable, AppOK
<1>8. FilesOK'
  <2>1. ASSUME cfg # {}, NEW i \in DOMAIN Config.secrets, Complete(i)
        PROVE  Complete(i)'
    BY <1>1, <1>4, <2>1, SecretOK DEF Complete, PodInv
  <2>2. cfg # {} => 1..Len(Config.secrets) = DOMAIN Config.secrets
    BY ConfigOK, LenProperties DEF PodInv
  <2>3. AtWork => \A i \in 1..(todo - 1) : i \in DOMAIN Config.secrets
    BY <2>2, ConfigOK DEF PodInv, WorkOK
  <2> QED
    BY <1>1, <2>1, <2>3 DEF PodInv, FilesOK, WorkOK
<1>9. RefusedOK'
  <2>1. sidecar = "exited" /\ code = 4 => Current.name \in Names
    BY CurrentOK DEF PodInv, RefusedOK
  <2>2. sidecar = "exited" /\ code = 4 => (Mixed(Current.name) => Mixed(Current.name)')
    BY <1>1, <1>4, <2>1
  <2> QED
    BY <1>1, <2>2 DEF PodInv, RefusedOK, RefusalsAreExplained
<1> QED
  BY <1>5, <1>6, <1>7, <1>8, <1>9 DEF PodInv

\* A step of the sidecar or of Kubernetes that begins no new run.
LEMMA InRun ==
    ASSUME UNCHANGED <<deployment, calls, during>>
    PROVE  /\ env' = env /\ cfg' = cfg /\ Config' = Config /\ Mount' = Mount
           /\ StartDirs' = StartDirs
           /\ \A n : MetBy(n)' = MetBy(n) /\ (Mixed(n)' <=> Mixed(n))
           /\ \A n, d : Explained(n, d)' <=> Explained(n, d)
BY SameConfig, SameExplained

\* The sidecar ends with an error: nothing else changes but the directories.
LEMMA InvFails ==
    ASSUME PodInv,
           ConfigError \/ TokenReadError \/ FetchError \/ WriteError \/ Panics \/ SidecarKilled
    PROVE  PodInv'
<1>1. /\ sidecar # "exited" /\ sidecar' = "exited" /\ code' \in {1, 2, 3, 5, 137}
      /\ fetched' = NoResults \/ (sidecar # "fetch" /\ fetched' = fetched)
      /\ dirs \subseteq dirs'
      /\ UNCHANGED <<env, cfg, calls, holds, todo, value, files, app, secrets, firstRun, during>>
  BY DEF ConfigError, TokenReadError, FetchError, WriteError, Panics, SidecarKilled, Exits,
     deployment, storeVars, volumeVars, appVars, runVars
<1>2. Config' = Config /\ Mount' = Mount /\ StartDirs' = StartDirs
  BY <1>1, SameConfig DEF deployment
<1>3. DOMAIN fetched' = {}
  BY <1>1 DEF PodInv, WorkOK, NoResults
<1>4. TypeOK' /\ StoreOK'
  BY <1>1, <1>3 DEF PodInv, TypeOK, StoreOK
<1>5. WorkOK' /\ FilesOK' /\ AppOK' /\ RefusedOK'
  BY <1>1, <1>3 DEF PodInv, WorkOK, FilesOK, AppOK, AtWork, RefusedOK, RefusalsAreExplained
<1>6. VolumeOK'
  BY <1>1, <1>2 DEF PodInv, VolumeOK, Writable
<1> QED
  BY <1>4, <1>5, <1>6 DEF PodInv

LEMMA InvBegins == PodInv /\ Begins => PodInv'
<1> SUFFICES ASSUME PodInv, Begins PROVE PodInv'
  OBVIOUS
<1>1. /\ sidecar = "starting" /\ sidecar' = "fetch" /\ todo' = 1 /\ cfg # {}
      /\ UNCHANGED <<env, cfg, calls, holds, fetched, value, code, dirs, files, app, secrets,
                     firstRun, during>>
      /\ DOMAIN fetched = {}
  BY DEF Begins, deployment, storeVars, volumeVars, appVars, runVars, PodInv, WorkOK
<1>2. Config' = Config /\ Mount' = Mount /\ StartDirs' = StartDirs
  BY <1>1, SameConfig DEF deployment
<1>3. 1 \in 1..Len(Config.secrets) /\ 1 \in 0..Len(SecretMappings(env))
  BY <1>1, ConfigOK DEF PodInv
<1>4. TypeOK' /\ StoreOK'
  BY <1>1, <1>3 DEF PodInv, TypeOK, StoreOK
<1>5. WorkOK' /\ FilesOK' /\ AppOK' /\ RefusedOK'
  BY <1>1, <1>2, <1>3
  DEF PodInv, WorkOK, FilesOK, AppOK, AtWork, RefusedOK, RefusalsAreExplained
<1>6. VolumeOK'
  BY <1>1, <1>2 DEF PodInv, VolumeOK, Writable
<1> QED
  BY <1>4, <1>5, <1>6 DEF PodInv

\* A fetch is for a secret there is, while no application runs.
LEMMA AtFetch ==
    ASSUME PodInv, AtWork
    PROVE  /\ cfg # {} /\ todo \in 1..Len(Config.secrets)
           /\ Current = Config.secrets[todo]
           /\ Current.name \in Names /\ app # "running"
           /\ Config.endpoints = env.SHARE_SERVER_ENDPOINTS
           /\ \A e \in DOMAIN Config.endpoints : Endpoint(e) \in Servers
           /\ Config.threshold \in Nat \ {0, 1}
<1>1. cfg # {} /\ todo \in 1..Len(Config.secrets) /\ app # "running"
  BY DEF PodInv, WorkOK, AtWork, AppOK
<1>2. \A e \in DOMAIN Config.endpoints : Endpoint(e) \in Servers
  BY <1>1, ConfigOK, ElementOfSeq, LenProperties DEF PodInv, Endpoint
<1> QED
  BY <1>1, <1>2, ConfigOK, CurrentOK DEF PodInv

\* An endpoint settles on what its server holds now, or on nothing.
LEMMA InvSettles ==
    ASSUME PodInv, NEW e \in DOMAIN env.SHARE_SERVER_ENDPOINTS, Settles(e)
    PROVE  PodInv'
<1>1. /\ sidecar = "fetch" /\ sidecar' = "fetch"
      /\ UNCHANGED <<env, cfg, calls, holds, todo, value, code, dirs, files, app, secrets,
                     firstRun, during>>
  BY DEF Settles, deployment, storeVars, volumeVars, appVars, runVars
<1>2. /\ Config' = Config /\ Mount' = Mount /\ StartDirs' = StartDirs /\ Current' = Current
      /\ \A n : MetBy(n)' = MetBy(n)
      /\ \A n, d : Explained(n, d)' <=> Explained(n, d)
  BY <1>1, InRun DEF deployment, Current
<1>3. PICK c \in {holds[Endpoint(e)][Current.name], 0} :
          fetched' = [f \in DOMAIN fetched \cup {e} |-> IF f = e THEN c ELSE fetched[f]]
  BY DEF Settles
<1>4. Current.name \in Names /\ Endpoint(e) \in Servers
  BY <1>1, AtFetch DEF AtWork
<1>5. c \in 0..MaxStores /\ c \in MetBy(Current.name) \cup {0}
  <2>1. holds \in [Servers -> [Names -> 0..MaxStores]] /\ 0 \in 0..MaxStores
    BY PodAssumption DEF PodInv, TypeOK
  <2>2. holds[Endpoint(e)][Current.name] \in during[Current.name]
    BY <1>1, <1>4 DEF PodInv, StoreOK
  <2> QED
    BY <1>4, <2>1, <2>2 DEF MetBy
<1>6. /\ DOMAIN fetched' \subseteq DOMAIN env.SHARE_SERVER_ENDPOINTS
      /\ \A f \in DOMAIN fetched' : /\ fetched'[f] \in 0..MaxStores
                                    /\ fetched'[f] \in MetBy(Current.name) \cup {0}
  <2>1. /\ DOMAIN fetched \subseteq DOMAIN env.SHARE_SERVER_ENDPOINTS
        /\ \A f \in DOMAIN fetched : /\ fetched[f] \in 0..MaxStores
                                     /\ fetched[f] \in MetBy(Current.name) \cup {0}
    BY DEF PodInv, TypeOK, WorkOK
  <2> QED
    BY <1>3, <1>5, <2>1
<1>7. TypeOK' /\ StoreOK'
  BY <1>1, <1>6 DEF PodInv, TypeOK, StoreOK
<1>8. WorkOK'
  BY <1>1, <1>2, <1>6 DEF PodInv, WorkOK, AtWork
<1>9. VolumeOK' /\ AppOK' /\ RefusedOK'
  BY <1>1, <1>2
  DEF PodInv, VolumeOK, Writable, AppOK, RefusedOK, RefusalsAreExplained
<1>10. FilesOK'
  BY <1>1, <1>2 DEF PodInv, FilesOK, AtWork, Complete
<1> QED
  BY <1>7, <1>8, <1>9, <1>10 DEF PodInv

\* Combine refuses, or gives what is explained by the shares it got.
LEMMA CombinedOK ==
    ASSUME PodInv, sidecar = "fetch", NEW G \in Returned, NEW b \in CombineResults(G)
    PROVE  /\ b # 0 => Explained(Current.name, b)
           /\ b = 0 => \/ Mixed(Current.name)
                       \/ \E i, j \in DOMAIN Config.endpoints :
                             i # j /\ Config.endpoints[i] = Config.endpoints[j]
<1>1. /\ G \subseteq DOMAIN Config.endpoints
      /\ \A e \in G : fetched[e] \in MetBy(Current.name)
      /\ Cardinality(G) = Config.threshold /\ Config.threshold \in Nat
  BY AtFetch DEF AtWork, PodInv, TypeOK, WorkOK, Returned, Successes
<1>2. Garbage # 0
  BY PodAssumption
<1>3. CASE \E e, f \in G : e # f /\ Endpoint(e) = Endpoint(f) /\ fetched[e] = fetched[f]
  <2>1. b = 0
    BY <1>3 DEF CombineResults
  <2> QED
    BY <1>1, <1>3, <2>1 DEF Endpoint
<1>4. CASE \E e, f \in G : fetched[e] # fetched[f]
  <2>1. b \in {0, Garbage}
    BY <1>4 DEF CombineResults
  <2>2. Mixed(Current.name)
    BY <1>1, <1>4 DEF Mixed
  <2> QED
    BY <2>1, <2>2 DEF Explained
<1>5. CASE /\ ~\E e, f \in G : e # f /\ Endpoint(e) = Endpoint(f) /\ fetched[e] = fetched[f]
           /\ ~\E e, f \in G : fetched[e] # fetched[f]
  <2>1. PICK e \in G : b = IF Cardinality(G) >= calls[fetched[e]].k THEN fetched[e] ELSE Garbage
    BY <1>5 DEF CombineResults
  <2>2. fetched[e] \in MetBy(Current.name) /\ fetched[e] # 0
    BY <1>1 DEF MetBy
  <2>3. CASE Cardinality(G) >= calls[fetched[e]].k
    BY <2>1, <2>2, <2>3 DEF Explained
  <2>4. CASE ~(Cardinality(G) >= calls[fetched[e]].k)
    <3>1. calls[fetched[e]].k \in Int
      <4>1. fetched[e] \in 1..Len(calls)
        <5>1. Current.name \in Names /\ Len(calls) \in Nat
          BY AtFetch, LenProperties DEF AtWork, PodInv, TypeOK
        <5>2. fetched[e] \in 0..Len(calls)
          BY <2>2, <5>1 DEF PodInv, StoreOK, MetBy
        <5> QED
          BY <2>2, <5>1, <5>2
      <4>2. calls[fetched[e]] \in [name : Names, k : Thresholds, next : 1..(N+1)]
        <5>1. calls \in Seq([name : Names, k : Thresholds, next : 1..(N+1)])
          BY DEF PodInv, TypeOK
        <5> QED
          BY <4>1, <5>1, ElementOfSeq
      <4>3. Thresholds \subseteq Int
        BY PodAssumption
      <4> QED
        BY <4>2, <4>3
    <3>2. TooFew(Current.name)
      BY <1>1, <2>2, <2>4, <3>1 DEF TooFew
    <3> QED
      BY <1>2, <2>1, <2>4, <3>2 DEF Explained
  <2> QED
    BY <2>3, <2>4
<1> QED
  BY <1>3, <1>4, <1>5

LEMMA InvCombineError == PodInv /\ CombineError => PodInv'
<1> SUFFICES ASSUME PodInv, CombineError PROVE PodInv'
  OBVIOUS
<1>1. /\ sidecar = "fetch" /\ sidecar' = "exited" /\ code' = 4 /\ fetched' = NoResults
      /\ UNCHANGED <<env, cfg, calls, holds, todo, value, dirs, files, app, secrets, firstRun,
                     during>>
  BY DEF CombineError, Exits, deployment, storeVars, volumeVars, appVars, runVars
<1>2. /\ Config' = Config /\ Mount' = Mount /\ StartDirs' = StartDirs /\ Current' = Current
      /\ \A n : Mixed(n)' <=> Mixed(n)
  BY <1>1, InRun DEF deployment, Current
<1>3. cfg # {} /\ todo \in 1..Len(Config.secrets) /\ app # "running"
  BY <1>1, AtFetch DEF AtWork
<1>4. TypeOK' /\ StoreOK'
  BY <1>1 DEF PodInv, TypeOK, StoreOK, NoResults
<1>5. WorkOK' /\ FilesOK' /\ AppOK'
  BY <1>1, <1>3 DEF WorkOK, FilesOK, AppOK, AtWork, NoResults
<1>6. VolumeOK'
  BY <1>1, <1>2 DEF PodInv, VolumeOK, Writable
<1>7. RefusedOK'
  <2>1. PICK G \in Returned : 0 \in CombineResults(G)
    BY DEF CombineError
  <2>2. \/ Mixed(Current.name)
        \/ \E i, j \in DOMAIN Config.endpoints : i # j /\ Config.endpoints[i] = Config.endpoints[j]
    BY <1>1, <2>1, CombinedOK
  <2>3. Mixed(Current.name) => Mixed(Current.name)'
    BY <1>2
  <2> QED
    BY <1>1, <1>2, <1>3, <2>2, <2>3 DEF RefusedOK, RefusalsAreExplained
<1> QED
  BY <1>4, <1>5, <1>6, <1>7 DEF PodInv

LEMMA InvCombines == PodInv /\ Combines => PodInv'
<1> SUFFICES ASSUME PodInv, Combines PROVE PodInv'
  OBVIOUS
<1>1. /\ sidecar = "fetch" /\ sidecar' = "write" /\ fetched' = NoResults
      /\ UNCHANGED <<env, cfg, calls, holds, todo, code, dirs, files, app, secrets, firstRun,
                     during>>
  BY DEF Combines, deployment, storeVars, volumeVars, appVars, runVars
<1>2. /\ Config' = Config /\ Mount' = Mount /\ StartDirs' = StartDirs /\ Current' = Current
      /\ \A n, d : Explained(n, d)' <=> Explained(n, d)
  BY <1>1, InRun DEF deployment, Current
<1>3. cfg # {} /\ todo \in 1..Len(Config.secrets) /\ app # "running" /\ Current.name \in Names
  BY <1>1, AtFetch DEF AtWork
<1>4. Explained(Current.name, value')
  <2>1. PICK G \in Returned : value' \in CombineResults(G) \ {0}
    BY DEF Combines
  <2> QED
    BY <1>1, <2>1, CombinedOK
<1>5. TypeOK'
  <2>1. value' \in 0..MaxStores \cup {Garbage}
    BY <1>3, <1>4 DEF Explained, MetBy, PodInv, TypeOK
  <2> QED
    BY <1>1, <2>1 DEF PodInv, TypeOK, NoResults
<1>6. StoreOK' /\ AppOK' /\ RefusedOK'
  BY <1>1, <1>3 DEF PodInv, StoreOK, AppOK, RefusedOK, RefusalsAreExplained
<1>7. WorkOK'
  <2>1. Explained(Current.name, value)'
    BY <1>1, <1>2, <1>4 DEF Explained, MetBy, Mixed, TooFew
  <2> QED
    BY <1>1, <1>2, <1>3, <2>1 DEF WorkOK, AtWork, NoResults
<1>8. VolumeOK'
  BY <1>1, <1>2 DEF PodInv, VolumeOK, Writable
<1>9. FilesOK'
  BY <1>1, <1>2 DEF PodInv, FilesOK, AtWork, Complete
<1> QED
  BY <1>5, <1>6, <1>7, <1>8, <1>9 DEF PodInv

\* A file can only be made where there was none, below the mount.
LEMMA InvCreates == PodInv /\ Creates => PodInv'
<1> SUFFICES ASSUME PodInv, Creates PROVE PodInv'
  OBVIOUS
<1> DEFINE p   == Current.path
           new == [name |-> Current.name, data |-> 0]
<1>1. /\ sidecar = "write" /\ sidecar' = "fill" /\ dirs \subseteq dirs'
      /\ p \notin DOMAIN files /\ p \notin dirs /\ Writable(p)
      /\ files' = [q \in DOMAIN files \cup {p} |-> IF q = p THEN new ELSE files[q]]
      /\ UNCHANGED <<env, cfg, calls, holds, todo, fetched, value, code, app, secrets, firstRun,
                     during>>
  BY DEF Creates, OpenFails, deployment, storeVars, appVars, runVars
<1>2. /\ Config' = Config /\ Mount' = Mount /\ StartDirs' = StartDirs /\ Current' = Current
      /\ \A n : MetBy(n)' = MetBy(n)
      /\ \A n, d : Explained(n, d)' <=> Explained(n, d)
  BY <1>1, InRun DEF deployment, Current
<1>3. /\ cfg # {} /\ Current.name \in Names /\ app # "running" /\ Current = Config.secrets[todo]
      /\ todo \in 1..Len(Config.secrets)
  BY <1>1, AtFetch DEF AtWork
<1> HIDE DEF p
<1>4. /\ DOMAIN files' = DOMAIN files \cup {p} /\ files'[p] = new
      /\ \A q \in DOMAIN files : files'[q] = files[q]
  BY <1>1
<1>5. TypeOK'
  <2>1. new \in [name : Names, data : 0..MaxStores \cup {Garbage}]
    BY <1>3, PodAssumption
  <2>2. \A q \in DOMAIN files' : files'[q] \in [name : Names, data : 0..MaxStores \cup {Garbage}]
    BY <1>4, <2>1 DEF PodInv, TypeOK
  <2> QED
    BY <1>1, <2>2 DEF PodInv, TypeOK
<1>6. StoreOK' /\ AppOK' /\ RefusedOK'
  BY <1>1, <1>3 DEF PodInv, StoreOK, AppOK, RefusedOK, RefusalsAreExplained
<1>7. WorkOK'
  BY <1>1, <1>2 DEF PodInv, WorkOK, AtWork
<1>8. VolumeOK'
  <2>1. \E i \in DOMAIN Config.secrets : Config.secrets[i].path = p
    BY <1>3, ConfigOK, LenProperties DEF p, PodInv
  <2>2. p \notin StartDirs
    BY <1>1 DEF PodInv, VolumeOK
  <2>3. ASSUME NEW q \in DOMAIN files'
        PROVE  /\ \E i \in DOMAIN Config.secrets : Config.secrets[i].path = q
               /\ Mount \in Prefixes(q) /\ q \notin StartDirs
    BY <1>1, <1>4, <2>1, <2>2 DEF PodInv, VolumeOK, Writable
  <2> QED
    BY <1>1, <1>2, <1>3, <2>3 DEF PodInv, VolumeOK, Writable
<1>9. FilesOK'
  <2>1. \A i \in 1..(todo - 1) : Complete(i)'
    BY <1>1, <1>2, <1>4 DEF PodInv, FilesOK, AtWork, Complete
  <2>2. p' = p /\ p' \in DOMAIN files' /\ files'[p'] = [name |-> Current'.name, data |-> 0]
    BY <1>2, <1>4 DEF p
  <2> QED
    BY <1>1, <2>1, <2>2 DEF FilesOK, AtWork, p
<1> QED
  BY <1>5, <1>6, <1>7, <1>8, <1>9 DEF PodInv

\* The files of the secrets before are others: they are not empty.
LEMMA InvFills == PodInv /\ Fills => PodInv'
<1> SUFFICES ASSUME PodInv, Fills PROVE PodInv'
  OBVIOUS
<1> DEFINE p    == Current.path
           full == [name |-> Current.name, data |-> value]
<1>1. /\ sidecar = "fill" /\ DOMAIN fetched = {}
      /\ files' = [files EXCEPT ![p].data = value]
      /\ UNCHANGED <<env, cfg, calls, holds, fetched, value, dirs, app, secrets, firstRun, during>>
      /\ \/ todo = Len(Config.secrets) /\ sidecar' = "exited" /\ code' = 0 /\ todo' = todo
         \/ todo # Len(Config.secrets) /\ sidecar' = "fetch" /\ code' = code /\ todo' = todo + 1
  BY DEF Fills, Exits, deployment, storeVars, appVars, runVars, PodInv, WorkOK
<1>2. /\ Config' = Config /\ Mount' = Mount /\ StartDirs' = StartDirs
      /\ \A n, d : Explained(n, d)' <=> Explained(n, d)
  BY <1>1, InRun DEF deployment
<1>3. /\ cfg # {} /\ Current.name \in Names /\ app # "running" /\ Current = Config.secrets[todo]
      /\ todo \in 1..Len(Config.secrets) /\ Len(Config.secrets) \in Nat
      /\ DOMAIN Config.secrets = 1..Len(Config.secrets)
      /\ Config.secrets = SecretMappings(env)
  BY <1>1, AtFetch, ConfigOK, LenProperties DEF PodInv, AtWork
<1>4. /\ p \in DOMAIN files /\ files[p] = [name |-> Current.name, data |-> 0]
      /\ Explained(Current.name, value)
  BY <1>1 DEF PodInv, FilesOK, WorkOK
<1> HIDE DEF p
<1>5. /\ DOMAIN files' = DOMAIN files /\ files'[p] = full
      /\ \A q \in DOMAIN files : q # p => files'[q] = files[q]
  BY <1>1, <1>4
<1>6. TypeOK'
  <2>1. full \in [name : Names, data : 0..MaxStores \cup {Garbage}]
    BY <1>3 DEF PodInv, TypeOK
  <2>2. \A q \in DOMAIN files' : files'[q] \in [name : Names, data : 0..MaxStores \cup {Garbage}]
    <3> HIDE DEF full
    <3> QED
      BY <1>5, <2>1 DEF PodInv, TypeOK
  <2>3. todo' \in 0..Len(SecretMappings(env)) /\ code' \in {0, 1, 2, 3, 4, 5, 137}
        /\ sidecar' \in {"starting", "fetch", "write", "fill", "exited"}
    BY <1>1, <1>3 DEF PodInv, TypeOK
  <2> QED
    BY <1>1, <2>2, <2>3 DEF PodInv, TypeOK
<1>7. StoreOK' /\ AppOK' /\ VolumeOK' /\ RefusedOK'
  BY <1>1, <1>2, <1>3, <1>5
  DEF PodInv, StoreOK, AppOK, VolumeOK, Writable, RefusedOK, RefusalsAreExplained
<1>8. WorkOK'
  BY <1>1, <1>2, <1>3 DEF WorkOK, AtWork
<1>9. \A i \in 1..todo : Complete(i)'
  <2>1. ASSUME NEW i \in 1..todo, i = todo
        PROVE  Complete(i)'
    <3>1. Config.secrets[i].path = p /\ Config.secrets[i].name = Current.name
      BY <1>3, <2>1 DEF p
    <3> QED
      BY <1>2, <1>4, <1>5, <3>1 DEF Complete
  <2>2. ASSUME NEW i \in 1..(todo - 1)
        PROVE  Complete(i)'
    <3>1. Complete(i)
      BY <1>1, <2>2 DEF PodInv, FilesOK, AtWork
    <3>2. Config.secrets[i].path # p
      BY <1>4, <3>1, PodAssumption DEF Complete, Explained, MetBy
    <3> QED
      BY <1>1, <1>2, <1>5, <3>1, <3>2 DEF Complete
  <2>3. \A i \in 1..todo : i = todo \/ i \in 1..(todo - 1)
    BY <1>3
  <2> QED
    BY <2>1, <2>2, <2>3
<1>10. FilesOK'
  BY <1>1, <1>2, <1>3, <1>9 DEF FilesOK, AtWork
<1> QED
  BY <1>6, <1>7, <1>8, <1>10 DEF PodInv

\* Every run begins with nothing done, whatever is on the volume.
LEMMA InvRestarts ==
    ASSUME PodInv, SidecarRestarts \/ SandboxRestarts \/ PodReplaced
    PROVE  PodInv'
<1>1. /\ sidecar' = "starting" /\ todo' = 0 /\ fetched' = NoResults /\ value' = 0 /\ code' = 0
      /\ during' = [n \in Names |-> Holding(n)] /\ firstRun' \in BOOLEAN
      /\ UNCHANGED <<env, cfg, calls, holds>>
      /\ \/ dirs' = dirs /\ files' = files
         \/ dirs' = StartDirs /\ files' = NoFiles
      /\ app' \in {"none", "running"} /\ (app' = "running" => app = "running" /\ code # 0)
  BY DEF SidecarRestarts, SandboxRestarts, PodReplaced, StartsAgain, deployment, storeVars,
     volumeVars, appVars, PodInv, TypeOK
<1>2. Config' = Config /\ Mount' = Mount /\ StartDirs' = StartDirs
  BY <1>1, SameConfig DEF deployment
<1>3. app' = "none"
  BY <1>1 DEF PodInv, AppOK
<1>4. \A n \in Names : /\ Holding(n) \subseteq 0..Len(calls) /\ Holding(n) \subseteq 0..MaxStores
                       /\ \A s \in Servers : holds[s][n] \in Holding(n)
  BY DEF Holding, PodInv, TypeOK, StoreOK
<1>5. TypeOK'
  <2>1. MaxStores \in Nat /\ Len(SecretMappings(env)) \in Nat
    BY PodAssumption, LenProperties DEF PodInv, TypeOK
  <2>2. \A p \in DOMAIN files' : files'[p] \in [name : Names, data : 0..MaxStores \cup {Garbage}]
    BY <1>1 DEF PodInv, TypeOK, NoFiles
  <2>3. during' \in [Names -> SUBSET (0..MaxStores)]
    BY <1>1, <1>4
  <2> QED
    BY <1>1, <1>3, <2>1, <2>2, <2>3 DEF PodInv, TypeOK, NoResults
<1>6. StoreOK'
  BY <1>1, <1>4 DEF PodInv, StoreOK
<1>7. WorkOK' /\ FilesOK' /\ AppOK' /\ RefusedOK'
  BY <1>1, <1>3 DEF WorkOK, FilesOK, AppOK, AtWork, NoResults, RefusedOK, RefusalsAreExplained
<1>8. VolumeOK'
  BY <1>1, <1>2 DEF PodInv, VolumeOK, Writable, NoFiles
<1> QED
  BY <1>5, <1>6, <1>7, <1>8 DEF PodInv

\* The application leaves the volume and the sidecar alone.
LEMMA InvApp ==
    ASSUME PodInv, AppStarts \/ AppExits \/ UNCHANGED vars
    PROVE  PodInv'
<1>1. /\ UNCHANGED <<env, cfg, calls, holds, sidecar, todo, fetched, value, code, dirs, files,
                     firstRun, during>>
      /\ \/ app' = "none"
         \/ app' = app /\ secrets' = secrets
         \/ /\ app' = "running" /\ sidecar = "exited" /\ code = 0
            /\ secrets' \in loadSecrets(files, Mount)
  BY DEF AppStarts, AppExits, deployment, storeVars, sidecarVars, volumeVars, runVars, vars,
     appVars
<1>2. /\ Config' = Config /\ Mount' = Mount /\ StartDirs' = StartDirs /\ Current' = Current
      /\ \A n : MetBy(n)' = MetBy(n) /\ (Mixed(n)' <=> Mixed(n))
      /\ \A n, d : Explained(n, d)' <=> Explained(n, d)
  BY <1>1, InRun DEF deployment, Current
<1>3. TypeOK' /\ StoreOK'
  BY <1>1 DEF PodInv, TypeOK, StoreOK
<1>4. WorkOK' /\ FilesOK'
  BY <1>1, <1>2 DEF PodInv, WorkOK, FilesOK, AtWork, Complete
<1>5. VolumeOK' /\ RefusedOK'
  BY <1>1, <1>2 DEF PodInv, VolumeOK, Writable, RefusedOK, RefusalsAreExplained
<1>6. AppOK'
  BY <1>1, <1>2 DEF PodInv, AppOK
<1> QED
  BY <1>3, <1>4, <1>5, <1>6 DEF PodInv

LEMMA PodStep == PodInv /\ [Next]_vars => PodInv'
<1> SUFFICES ASSUME PodInv, [Next]_vars PROVE PodInv'
  OBVIOUS
<1>1. CASE \/ \E n \in Names, k \in Thresholds : StoreSecret(n, k)
           \/ \E c \in DOMAIN calls : StoreShare(c)
           \/ \E s \in Servers, n \in Names : DeleteShare(s, n)
           \/ \E s \in Servers : ServerRestarts(s)
  BY <1>1, ServersMoving, InvStore
<1>2. CASE ConfigError \/ TokenReadError \/ FetchError \/ WriteError \/ Panics \/ SidecarKilled
  BY <1>2, InvFails
<1>3. CASE Begins \/ CombineError \/ Combines \/ Creates \/ Fills
  BY <1>3, InvBegins, InvCombineError, InvCombines, InvCreates, InvFills
<1>4. CASE \E e \in DOMAIN env.SHARE_SERVER_ENDPOINTS : Settles(e)
  BY <1>4, InvSettles
<1>5. CASE SidecarRestarts \/ SandboxRestarts \/ PodReplaced
  BY <1>5, InvRestarts
<1>6. CASE AppStarts \/ AppExits \/ UNCHANGED vars
  BY <1>6, InvApp
<1> QED
  BY <1>1, <1>2, <1>3, <1>4, <1>5, <1>6 DEF Next

-----------------------------------------------------------------------------
(* The theorems.                                                           *)

\* The inductive invariant of a pod and the servers it sees.
THEOREM PodInvariance == Spec => []PodInv
BY PodInit, PodStep, PTL DEF Spec

\* Every reachable state has the declared types.
THEOREM PodTypeCorrect == Spec => []TypeOK
<1>1. PodInv => TypeOK
  BY DEF PodInv
<1> QED
  BY <1>1, PodInvariance, PTL

\* When the application runs, it has the files of all its secrets and no others,
\* each complete and with what a server held during the last run of the sidecar, whatever
\* crashes and restarts came before; other bytes there are only where that run could meet
\* shares of several calls, or of one for more shares than it takes (sidecar main.go:60-120).
THEOREM AppHasItsSecrets == Spec => []AppHasTheSecretsOfTheLastRun
<1>1. PodInv => AppHasTheSecretsOfTheLastRun
  <2> SUFFICES ASSUME PodInv, app = "running"
               PROVE  /\ DOMAIN files = {Config.secrets[i].path : i \in DOMAIN Config.secrets}
                      /\ \A i \in DOMAIN Config.secrets :
                            LET n == Config.secrets[i].name
                                f == files[Config.secrets[i].path]
                            IN  /\ f.name = n
                                /\ f.data \in MetBy(n) \cup {Garbage}
                                /\ f.data = Garbage => Mixed(n) \/ TooFew(n)
    BY DEF AppHasTheSecretsOfTheLastRun
  <2>1. \A i \in DOMAIN Config.secrets : Complete(i)
    BY DEF PodInv, AppOK, FilesOK
  <2>2. DOMAIN files = {Config.secrets[i].path : i \in DOMAIN Config.secrets}
    BY <2>1 DEF Complete, PodInv, VolumeOK
  <2>3. ASSUME NEW i \in DOMAIN Config.secrets
        PROVE  LET n == Config.secrets[i].name
                   f == files[Config.secrets[i].path]
               IN  /\ f.name = n
                   /\ f.data \in MetBy(n) \cup {Garbage}
                   /\ f.data = Garbage => Mixed(n) \/ TooFew(n)
    <3>1. Garbage \notin MetBy(Config.secrets[i].name)
      <4>1. cfg # {}
        BY DEF PodInv, AppOK, FilesOK
      <4> QED
        BY <4>1, SecretOK, PodAssumption DEF PodInv, TypeOK, MetBy
    <3> QED
      BY <2>1, <3>1 DEF Complete, Explained
  <2> QED
    BY <2>2, <2>3
<1> QED
  BY <1>1, PodInvariance, PTL

\* When every endpoint is listed once, and no server has held shares of another call
\* during the run, Combine does not refuse what was fetched, whichever endpoints failed
\* and whenever the others settled (sidecar main.go:86-90, fetcher.go:70).
THEOREM RefusalsHaveACause == Spec => []RefusalsAreExplained
<1>1. PodInv => RefusalsAreExplained
  BY DEF PodInv, RefusedOK
<1> QED
  BY <1>1, PodInvariance, PTL

-----------------------------------------------------------------------------
(* What the application answers.                                           *)

\* A path below the mount begins with the mount.
LEMMA BelowMount ==
    ASSUME PodInv, NEW p \in DOMAIN files
    PROVE  /\ p \in Seq(Component) /\ Len(p) \in Nat \ {0}
           /\ SubSeq(p, 1, Len(Mount)) = Mount
<1>1. /\ cfg # {} /\ \E i \in DOMAIN Config.secrets : Config.secrets[i].path = p
      /\ Writable(p) /\ p # <<>>
  BY DEF PodInv, VolumeOK, StartDirs
<1>2. p \in Seq(Component)
  BY <1>1, SecretOK DEF PodInv
<1>3. Len(p) \in Nat \ {0}
  BY <1>1, <1>2, EmptySeq, LenProperties
<1>4. PICK i \in 0..Len(p) : Mount = SubSeq(p, 1, i)
  BY <1>1 DEF Writable, Prefixes
<1>5. Len(SubSeq(p, 1, i)) = i
  BY <1>2, <1>3
<1> QED
  BY <1>2, <1>3, <1>4, <1>5

\* A base name that only one file has is loaded, from that file.
LEMMA LoadedFrom ==
    ASSUME NEW p \in Found(files, Mount), secrets \in loadSecrets(files, Mount),
           \A q \in Found(files, Mount) : Base(q) = Base(p) => q = p
    PROVE  /\ Base(p) \in DOMAIN secrets
           /\ secrets[Base(p)] = [loaded |-> TRUE, content |-> files[p]]
<1> DEFINE found == Found(files, Mount)
           names == {Base(q) : q \in found}
<1>1. PICK kept \in {f \in [names -> found] : \A b \in names : Base(f[b]) = b} :
          secrets = [b \in names |-> [loaded |-> TRUE, content |-> files[kept[b]]]]
  BY DEF loadSecrets
<1>2. Base(p) \in names
  OBVIOUS
<1>3. kept[Base(p)] \in found /\ Base(kept[Base(p)]) = Base(p)
  BY <1>1, <1>2
<1>4. kept[Base(p)] = p
  BY <1>3
<1> QED
  BY <1>1, <1>2, <1>4

\* What is in the map was loaded.
LEMMA AllLoaded ==
    ASSUME secrets \in loadSecrets(files, Mount)
    PROVE  {b \in DOMAIN secrets : secrets[b].loaded} = DOMAIN secrets
<1> DEFINE found == Found(files, Mount)
           names == {Base(q) : q \in found}
<1>1. PICK kept \in {f \in [names -> found] : \A b \in names : Base(f[b]) = b} :
          secrets = [b \in names |-> [loaded |-> TRUE, content |-> files[kept[b]]]]
  BY DEF loadSecrets
<1>2. DOMAIN secrets = names
  BY <1>1
<1>3. \A b \in names : secrets[b].loaded = TRUE
  BY <1>1
<1> HIDE DEF names
<1> QED
  BY <1>2, <1>3

\* What a function takes on a finite set is finite.
LEMMA ImageIsFinite ==
    ASSUME NEW S, IsFiniteSet(S), NEW f, DOMAIN f = S, f = [x \in S |-> f[x]]
    PROVE  IsFiniteSet({f[x] : x \in S})
<1> DEFINE T == {f[x] : x \in S}
<1>1. f \in Surjection(S, T)
  <2>1. f \in [S -> T]
    OBVIOUS
  <2> QED
    BY <2>1 DEF Surjection
<1> HIDE DEF T
<1>2. IsFiniteSet(T)
  BY <1>1, FS_Surjection
<1> QED
  BY <1>2 DEF T

LEMMA FilesAreFinite == PodInv => IsFiniteSet(DOMAIN files)
<1> SUFFICES ASSUME PodInv PROVE IsFiniteSet(DOMAIN files)
  OBVIOUS
<1>1. CASE DOMAIN files = {}
  BY <1>1, FS_EmptySet
<1>2. CASE DOMAIN files # {}
  <2> DEFINE I == DOMAIN Config.secrets
             f == [i \in I |-> Config.secrets[i].path]
  <2>1. cfg # {}
    BY <1>2 DEF PodInv, VolumeOK
  <2>2. I = 1..Len(Config.secrets) /\ Len(Config.secrets) \in Nat
    BY <2>1, ConfigOK, LenProperties DEF PodInv
  <2>3. IsFiniteSet(I)
    BY <2>2, FS_Interval
  <2>4. IsFiniteSet({f[i] : i \in I})
    <3>1. DOMAIN f = I /\ f = [i \in I |-> f[i]]
      OBVIOUS
    <3> HIDE DEF I, f
    <3> QED
      BY <2>3, <3>1, ImageIsFinite
  <2>5. DOMAIN files \subseteq {f[i] : i \in I}
    BY DEF PodInv, VolumeOK
  <2> QED
    BY <2>4, <2>5, FS_Subset
<1> QED
  BY <1>1, <1>2

\* A secret written to a base name of its own, which is not hidden, is listed,
\* loaded and verified with the content of its file, and the application is
\* healthy; its status page never says that only some files could be loaded
\* (demo-app main.go:82-278).
THEOREM AppAnswersForItsSecrets == Spec => []AppServesEverySecret
<1>1. PodInv => AppServesEverySecret
  <2> SUFFICES ASSUME PodInv, app = "running"
               PROVE  AppServesEverySecret
    BY DEF AppServesEverySecret
  <2>1. /\ secrets \in loadSecrets(files, Mount)
        /\ cfg # {} /\ \A i \in DOMAIN Config.secrets : Complete(i)
    BY DEF PodInv, AppOK, FilesOK
  <2>2. {b \in DOMAIN secrets : secrets[b].loaded} = DOMAIN secrets
    BY <2>1, AllLoaded
  <2>3. statusHandler(secrets) # "some"
    <3>1. CASE DOMAIN secrets = {}
      BY <2>2, <3>1, FS_EmptySet DEF statusHandler, countLoadedSecrets
    <3>2. CASE DOMAIN secrets # {}
      BY <2>2, <3>2 DEF statusHandler, countLoadedSecrets
    <3> QED
      BY <3>1, <3>2
  <2>4. ASSUME NEW i \in DOMAIN Config.secrets, ~Hidden(Config.secrets[i].path),
               \A j \in DOMAIN Config.secrets :
                   j # i => Base(Config.secrets[j].path) # Base(Config.secrets[i].path)
        PROVE  LET p == Config.secrets[i].path
               IN  /\ healthHandler(secrets) = 200
                   /\ Base(p) \in secretsListHandler(secrets) \cap rootHandler(secrets)
                   /\ secretGetHandler(secrets, Base(p)) = [status |-> 200, loaded |-> TRUE]
                   /\ verifyHandler(secrets, Base(p)) = [status |-> 200, content |-> files[p]]
    <3> DEFINE p == Config.secrets[i].path
               b == Base(p)
    <3>1. p \in DOMAIN files
      BY <2>1 DEF Complete
    <3>2. p \in Found(files, Mount)
      BY <2>4, <3>1, BelowMount DEF Found
    <3>3. ASSUME NEW q \in Found(files, Mount), Base(q) = Base(p)
          PROVE  q = p
      <4>1. PICK j \in DOMAIN Config.secrets : Config.secrets[j].path = q
        BY DEF Found, PodInv, VolumeOK
      <4> QED
        BY <2>4, <3>3, <4>1
    <3>4. b \in DOMAIN secrets /\ secrets[b] = [loaded |-> TRUE, content |-> files[p]]
      BY <2>1, <3>2, <3>3, LoadedFrom
    <3>5. b # NoName
      <4>1. p[Len(p)] \in Component
        BY <3>1, BelowMount, ElementOfSeq
      <4>2. p[Len(p)][2] # 0 /\ NoName[2] = 0
        BY <4>1 DEF Component, NoName
      <4> HIDE DEF p
      <4> QED
        BY <4>2 DEF Base
    <3>6. healthHandler(secrets) = 200
      <4>1. IsFiniteSet(DOMAIN secrets)
        <5> DEFINE base == [q \in Found(files, Mount) |-> Base(q)]
        <5>1. IsFiniteSet(Found(files, Mount))
          BY FilesAreFinite, FS_Subset DEF Found
        <5>2. IsFiniteSet({base[q] : q \in Found(files, Mount)})
          <6> DEFINE F == Found(files, Mount)
          <6>1. IsFiniteSet(F) /\ DOMAIN base = F /\ base = [q \in F |-> base[q]]
            BY <5>1
          <6> HIDE DEF F, base
          <6>2. IsFiniteSet({base[q] : q \in F})
            BY <6>1, ImageIsFinite
          <6> QED
            BY <6>2 DEF F
        <5>3. DOMAIN secrets = {base[q] : q \in Found(files, Mount)}
          BY <2>1 DEF loadSecrets
        <5> QED
          BY <5>2, <5>3
      <4>2. Cardinality(DOMAIN secrets) # 0
        BY <3>4, <4>1, FS_EmptySet
      <4> QED
        BY <2>2, <4>2 DEF healthHandler, countLoadedSecrets
    <3> HIDE DEF p, b
    <3>7. b \in secretsListHandler(secrets) \cap rootHandler(secrets)
      BY <3>4 DEF secretsListHandler, rootHandler
    <3>8. /\ secretGetHandler(secrets, b) = [status |-> 200, loaded |-> TRUE]
          /\ verifyHandler(secrets, b) = [status |-> 200, content |-> files[p]]
      BY <3>4, <3>5 DEF secretGetHandler, verifyHandler
    <3> QED
      BY <3>6, <3>7, <3>8 DEF p, b
  <2> QED
    BY <2>3, <2>4 DEF AppServesEverySecret
<1> QED
  BY <1>1, PodInvariance, PTL

-----------------------------------------------------------------------------
(* The directory of an output path.  Proofs by induction take the least    *)
(* counterexample: NatLessThanWellFounded says that there is one.          *)

LEMMA LeastNumber ==
    ASSUME NEW T, T \subseteq Nat, T # {}
    PROVE  \E n \in T : \A m \in T : n <= m
<1> DEFINE R == OpToRel(<, Nat)
<1>1. IsWellFoundedOn(R, Nat)
  BY NatLessThanWellFounded
<1> HIDE DEF R
<1>2. PICK x \in T : \A y \in T : ~(<<y, x>> \in R)
  BY <1>1, WFMin
<1>3. ASSUME NEW y \in T
      PROVE  x <= y
  <2>1. x \in Nat /\ y \in Nat
    OBVIOUS
  <2>2. y < x => <<y, x>> \in R
    BY <2>1 DEF R, OpToRel
  <2> QED
    BY <1>2, <2>1, <2>2
<1> QED
  BY <1>3

LEMMA InductionOnSet ==
    ASSUME NEW S, 0 \in S, \A n \in Nat : n \in S => n + 1 \in S
    PROVE  Nat \subseteq S
<1> DEFINE T == Nat \ S
<1> SUFFICES ASSUME T # {} PROVE FALSE
  OBVIOUS
<1>1. PICK n \in T : \A m \in T : n <= m
  BY LeastNumber
<1>2. n # 0 /\ n - 1 \in Nat
  BY <1>1
<1>3. n - 1 \in S
  BY <1>1, <1>2
<1> QED
  BY <1>1, <1>2, <1>3

\* The function that PathLength defines by recursion: f[i] is the number of
\* characters of the first i components.
IsUpTo(f, p, n) == f = [i \in 0..n |-> IF i = 0 THEN 0 ELSE f[i-1] + 1 + p[i][2]]

LEMMA UpToSteps ==
    ASSUME NEW p, NEW n \in Nat, NEW f, IsUpTo(f, p, n)
    PROVE  f[0] = 0 /\ \A i \in 1..n : f[i] = f[i-1] + 1 + p[i][2]
BY DEF IsUpTo

LEMMA UpToExists ==
    ASSUME NEW p, NEW n \in Nat
    PROVE  \E f : IsUpTo(f, p, n)
<1> DEFINE S == {k \in Nat : \E f : IsUpTo(f, p, k)}
<1>1. 0 \in S
  <2>1. IsUpTo([i \in 0..0 |-> 0], p, 0)
    BY DEF IsUpTo
  <2> QED
    BY <2>1
<1>2. ASSUME NEW k \in Nat, k \in S
      PROVE  k + 1 \in S
  <2>1. PICK f : IsUpTo(f, p, k)
    BY <1>2
  <2> DEFINE g == [i \in 0..(k + 1) |-> IF i <= k THEN f[i] ELSE f[k] + 1 + p[k + 1][2]]
  <2>2. f[0] = 0 /\ \A i \in 1..k : f[i] = f[i-1] + 1 + p[i][2]
    BY <2>1, UpToSteps
  <2>3. ASSUME NEW i \in 0..(k + 1)
        PROVE  g[i] = IF i = 0 THEN 0 ELSE g[i-1] + 1 + p[i][2]
    <3>1. CASE i = 0
      BY <2>2, <3>1
    <3>2. CASE i \in 1..k
      BY <2>2, <3>2
    <3>3. CASE i = k + 1
      BY <3>3
    <3> QED
      BY <3>1, <3>2, <3>3
  <2>4. IsUpTo(g, p, k + 1)
    BY <2>3 DEF IsUpTo
  <2> QED
    BY <2>4
<1> HIDE DEF S
<1>3. n \in S
  BY <1>1, <1>2, InductionOnSet
<1> QED
  BY <1>3 DEF S

\* It depends on the components it counts, and on no others.
LEMMA UpToAgrees ==
    ASSUME NEW p, NEW q, NEW m \in Nat, NEW n \in Nat, m <= n,
           NEW f, NEW g, IsUpTo(f, p, m), IsUpTo(g, q, n), \A i \in 1..m : p[i] = q[i]
    PROVE  \A i \in 0..m : f[i] = g[i]
<1> DEFINE S == {k \in Nat : k <= m => f[k] = g[k]}
<1>1. /\ f[0] = 0 /\ \A i \in 1..m : f[i] = f[i-1] + 1 + p[i][2]
      /\ g[0] = 0 /\ \A i \in 1..n : g[i] = g[i-1] + 1 + q[i][2]
  <2>1. f[0] = 0 /\ \A i \in 1..m : f[i] = f[i-1] + 1 + p[i][2]
    BY UpToSteps
  <2>2. g[0] = 0 /\ \A i \in 1..n : g[i] = g[i-1] + 1 + q[i][2]
    BY UpToSteps
  <2> QED
    BY <2>1, <2>2
<1>2. 0 \in S
  BY <1>1
<1>3. ASSUME NEW k \in Nat, k \in S, k + 1 <= m
      PROVE  f[k + 1] = g[k + 1]
  <2>1. k + 1 \in 1..m /\ k + 1 \in 1..n /\ (k + 1) - 1 = k
    BY <1>3
  <2>2. f[k + 1] = f[k] + 1 + p[k + 1][2] /\ g[k + 1] = g[k] + 1 + q[k + 1][2]
    BY <1>1, <2>1
  <2> QED
    BY <1>3, <2>1, <2>2
<1>4. \A k \in Nat : k \in S => k + 1 \in S
  BY <1>3
<1> HIDE DEF S
<1>5. Nat \subseteq S
  BY <1>2, <1>4, InductionOnSet
<1> QED
  BY <1>5 DEF S

\* It is a number, and grows with every component.
LEMMA UpToGrows ==
    ASSUME NEW p \in Seq(Component), NEW f, IsUpTo(f, p, Len(p))
    PROVE  /\ \A i \in 0..Len(p) : f[i] \in Nat
           /\ \A i \in 0..Len(p), j \in 0..Len(p) : i < j => f[i] < f[j]
<1>1. /\ Len(p) \in Nat
      /\ f[0] = 0 /\ \A i \in 1..Len(p) : f[i] = f[i-1] + 1 + p[i][2]
      /\ \A i \in 1..Len(p) : p[i][2] \in Nat
  <2>1. Len(p) \in Nat /\ \A i \in 1..Len(p) : p[i] \in Component
    BY LenProperties, ElementOfSeq
  <2>2. f[0] = 0 /\ \A i \in 1..Len(p) : f[i] = f[i-1] + 1 + p[i][2]
    BY <2>1, UpToSteps
  <2>3. \A c \in Component : c[2] \in Nat
    BY DEF Component
  <2> QED
    BY <2>1, <2>2, <2>3
<1> DEFINE S == {k \in Nat : k <= Len(p) =>
                    f[k] \in Nat /\ \A i \in 0..(k - 1) : f[i] \in Nat /\ f[i] < f[k]}
<1>2. 0 \in S
  BY <1>1
<1>3. ASSUME NEW k \in Nat, k \in S, k + 1 <= Len(p)
      PROVE  f[k + 1] \in Nat /\ \A i \in 0..k : f[i] \in Nat /\ f[i] < f[k + 1]
  <2>1. k + 1 \in 1..Len(p) /\ (k + 1) - 1 = k /\ k <= Len(p)
    BY <1>1, <1>3
  <2>2. f[k + 1] = f[k] + 1 + p[k + 1][2] /\ p[k + 1][2] \in Nat
    BY <1>1, <2>1
  <2>3. f[k] \in Nat /\ \A i \in 0..(k - 1) : f[i] \in Nat /\ f[i] < f[k]
    BY <1>3, <2>1
  <2>4. f[k + 1] \in Nat /\ f[k] < f[k + 1]
    BY <2>2, <2>3
  <2>5. \A i \in 0..k : i = k \/ i \in 0..(k - 1)
    OBVIOUS
  <2> QED
    BY <2>3, <2>4, <2>5
<1>4. \A k \in Nat : k \in S => k + 1 \in S
  BY <1>3
<1> HIDE DEF S
<1>5. Nat \subseteq S
  BY <1>2, <1>4, InductionOnSet
<1>6. \A k \in 0..Len(p) : f[k] \in Nat /\ \A i \in 0..(k - 1) : f[i] < f[k]
  BY <1>1, <1>5 DEF S
<1> QED
  BY <1>1, <1>6

LEMMA PathLengthIs ==
    ASSUME NEW p, Len(p) \in Nat, NEW f, IsUpTo(f, p, Len(p))
    PROVE  PathLength(p) = f[Len(p)]
<1> DEFINE g == CHOOSE h : h = [i \in 0..Len(p) |-> IF i = 0 THEN 0 ELSE h[i-1] + 1 + p[i][2]]
<1>1. g = [i \in 0..Len(p) |-> IF i = 0 THEN 0 ELSE g[i-1] + 1 + p[i][2]]
  BY Zenon DEF IsUpTo
<1>2. PathLength(p) = g[Len(p)]
  BY DEF PathLength
<1> HIDE DEF g
<1>3. IsUpTo(g, p, Len(p))
  BY <1>1 DEF IsUpTo
<1> QED
  BY <1>2, <1>3, UpToAgrees

LEMMA PrefixLength ==
    ASSUME NEW p \in Seq(Component), NEW f, IsUpTo(f, p, Len(p)), NEW i \in 0..Len(p)
    PROVE  PathLength(SubSeq(p, 1, i)) = f[i]
<1> DEFINE q == SubSeq(p, 1, i)
<1>1. Len(p) \in Nat /\ i \in Nat /\ i <= Len(p)
  BY LenProperties
<1>2. Len(q) = i /\ \A j \in 1..i : q[j] = p[j]
  BY <1>1
<1> HIDE DEF q
<1>3. PICK g : IsUpTo(g, q, i)
  BY <1>1, UpToExists
<1>4. PathLength(q) = g[i]
  BY <1>1, <1>2, <1>3, PathLengthIs
<1>5. \A j \in 0..i : g[j] = f[j]
  BY <1>1, <1>2, <1>3, UpToAgrees, SMTT(30)
<1> QED
  BY <1>1, <1>4, <1>5 DEF q

\* As many characters as whole components have give these components.
LEMMA FirstCharsOfPrefix ==
    ASSUME NEW p \in Seq(Component), NEW k \in 0..Len(p)
    PROVE  FirstChars(p, PathLength(SubSeq(p, 1, k))) = SubSeq(p, 1, k)
<1> DEFINE n == PathLength(SubSeq(p, 1, k))
           Whole(i) == /\ PathLength(SubSeq(p, 1, i)) <= n
                       /\ i < Len(p) => PathLength(SubSeq(p, 1, i + 1)) > n
           whole == CHOOSE i \in 0..Len(p) : Whole(i)
<1>1. Len(p) \in Nat
  BY LenProperties
<1>2. PICK f : IsUpTo(f, p, Len(p))
  BY <1>1, UpToExists
<1>3. \A i \in 0..Len(p) : PathLength(SubSeq(p, 1, i)) = f[i]
  BY <1>2, PrefixLength
<1>4. /\ \A i \in 0..Len(p) : f[i] \in Nat
      /\ \A i \in 0..Len(p), j \in 0..Len(p) : i < j => f[i] < f[j]
  BY <1>2, UpToGrows
<1>5. n = f[k] /\ n \in Nat
  BY <1>3, <1>4
<1> HIDE DEF n
<1>6. Whole(k)
  BY <1>1, <1>3, <1>4, <1>5
<1>7. ASSUME NEW i \in 0..Len(p), Whole(i)
      PROVE  i = k
  <2>1. ~(k < i)
    BY <1>1, <1>3, <1>4, <1>5, <1>7
  <2>2. ~(i < k)
    <3>1. SUFFICES ASSUME i < k PROVE FALSE
      OBVIOUS
    <3>2. i + 1 \in 0..Len(p) /\ i < Len(p) /\ (i + 1 = k \/ i + 1 < k)
      BY <1>1, <3>1
    <3>3. f[i + 1] > n /\ f[i + 1] \in Nat
      BY <1>3, <1>4, <1>7, <3>2
    <3>4. f[i + 1] <= f[k]
      BY <1>4, <3>2
    <3> QED
      BY <1>4, <1>5, <3>3, <3>4
  <2> QED
    BY <1>1, <2>1, <2>2
<1>8. whole = k
  BY <1>6, <1>7
<1>9. n - PathLength(SubSeq(p, 1, whole)) = 0
  <2> HIDE DEF whole
  <2>1. PathLength(SubSeq(p, 1, whole)) = n
    BY <1>3, <1>5, <1>8
  <2> QED
    BY <1>5, <2>1
<1>10. FirstChars(p, n) = SubSeq(p, 1, k) \o <<>>
  <2>1. FirstChars(p, n) =
            LET rest == n - PathLength(SubSeq(p, 1, whole))
            IN  SubSeq(p, 1, whole) \o
                (IF rest <= 1 THEN <<>> ELSE <<<<p[whole + 1][1], rest - 1>>>>)
    BY DEF FirstChars
  <2> HIDE DEF whole
  <2> QED
    BY <1>8, <1>9, <2>1
<1>11. SubSeq(p, 1, k) \in Seq(Component)
  BY <1>1
<1> QED
  BY <1>10, <1>11 DEF n

LEMMA OneMore ==
    ASSUME NEW d \in Seq(Component), NEW a \in Seq(Component), Len(a) = 1
    PROVE  Len(d) \in Nat /\ Len(d \o a) = Len(d) + 1 /\ (d \o a)[Len(d) + 1] = a[1]
<1> DEFINE p == d \o a
<1>1. /\ Len(d) \in Nat
      /\ Len(p) = Len(d) + Len(a)
      /\ \A i \in 1..(Len(d) + Len(a)) :
            p[i] = IF i <= Len(d) THEN d[i] ELSE a[i - Len(d)]
  BY LenProperties, ConcatProperties
<1>2. /\ Len(d) + 1 \in 1..(Len(d) + Len(a)) /\ ~(Len(d) + 1 <= Len(d))
      /\ (Len(d) + 1) - Len(d) = 1
  BY <1>1
<1> HIDE DEF p
<1>3. Len(p) = Len(d) + 1 /\ p[Len(d) + 1] = a[1]
  BY <1>1, <1>2
<1> QED
  BY <1>1, <1>3 DEF p

\* The directory of a default path, of a secret with a plain name, is the one
\* the path was made of (main.go:100).
LEMMA DirOfDefaultPath ==
    ASSUME NEW d \in Seq(Component), NEW name \in Seq(Component), Len(name) = 1
    PROVE  DirOf(d \o name, name) = {d}
<1> DEFINE p == d \o name
<1>1. /\ p \in Seq(Component) /\ Len(d) \in Nat /\ Len(p) = Len(d) + 1
      /\ p[Len(d) + 1] = name[1] /\ SubSeq(p, 1, Len(d)) = d
  <2>1. p \in Seq(Component) /\ Len(d) \in Nat
    BY LenProperties, ConcatProperties
  <2>2. Len(p) = Len(d) + 1 /\ p[Len(d) + 1] = name[1]
    BY OneMore
  <2>3. SubSeq(p, 1, Len(d)) = d
    OBVIOUS
  <2> QED
    BY <2>1, <2>2, <2>3
<1> HIDE DEF p
<1>2. PICK f : IsUpTo(f, p, Len(p))
  <2>1. Len(p) \in Nat
    BY <1>1
  <2> QED
    BY <2>1, UpToExists
<1>3. PathLength(p) = f[Len(d) + 1] /\ PathLength(d) = f[Len(d)]
  <2>1. Len(p) \in Nat /\ Len(d) \in 0..Len(p)
    BY <1>1
  <2>2. PathLength(p) = f[Len(p)]
    BY <2>1, <1>2, PathLengthIs
  <2>3. PathLength(SubSeq(p, 1, Len(d))) = f[Len(d)]
    BY <1>1, <1>2, <2>1, PrefixLength
  <2> QED
    BY <1>1, <2>2, <2>3
<1>4. f[Len(d) + 1] = f[Len(d)] + 1 + name[1][2]
  BY <1>1, <1>2, UpToSteps
<1>5. PathLength(name) = 1 + name[1][2]
  <2>1. PICK g : IsUpTo(g, name, 1)
    BY UpToExists
  <2>2. g[0] = 0 /\ g[1] = g[0] + 1 + name[1][2]
    BY <2>1, UpToSteps
  <2>3. PathLength(name) = g[1]
    <3>1. Len(name) \in Nat /\ IsUpTo(g, name, Len(name))
      BY <2>1
    <3> QED
      BY <3>1, PathLengthIs
  <2>4. name[1][2] \in Nat
    <3>1. name[1] \in Component
      BY ElementOfSeq
    <3> QED
      BY <3>1 DEF Component
  <2> QED
    BY <2>2, <2>3, <2>4
<1>6. name[1][2] \in Nat /\ f[Len(d)] \in Nat
  <2>1. name[1] \in Component
    BY ElementOfSeq
  <2>2. name[1][2] \in Nat
    BY <2>1 DEF Component
  <2>3. f[Len(d)] \in Nat
    BY <1>1, <1>2, UpToGrows
  <2> QED
    BY <2>2, <2>3
<1>7. ~(PathLength(p) < PathLength(name)) /\ PathLength(p) - PathLength(name) = PathLength(d)
  <2> DEFINE x == f[Len(d)]
             y == name[1][2]
  <2>1. x \in Nat /\ y \in Nat
    BY <1>6
  <2>2. PathLength(p) = x + 1 + y /\ PathLength(d) = x /\ PathLength(name) = 1 + y
    BY <1>3, <1>4, <1>5
  <2> HIDE DEF x, y
  <2>3. x + 1 + y >= 1 + y /\ (x + 1 + y) - (1 + y) = x
    BY <2>1
  <2>4. ~(x + 1 + y < 1 + y)
    BY <2>1
  <2> QED
    BY <2>2, <2>3, <2>4
<1>8. FirstChars(p, PathLength(d)) = d
  <2>1. Len(d) \in 0..Len(p)
    BY <1>1
  <2>2. FirstChars(p, PathLength(SubSeq(p, 1, Len(d)))) = SubSeq(p, 1, Len(d))
    BY <1>1, <2>1, FirstCharsOfPrefix
  <2> QED
    BY <1>1, <2>2
<1> QED
  BY <1>7, <1>8 DEF DirOf, p

\* Plain names, each once, and their default paths.
PlainNames ==
    LET all == SecretMappings(env)
    IN  /\ \A i \in DOMAIN all : Len(all[i].name) = 1 /\ all[i].path = Mount \o all[i].name
        /\ \A i, j \in DOMAIN all : i # j => all[i].name # all[j].name

MadeFor(q, n) == \E i \in 1..n : Config.secrets[i].path = q

\* With plain names, the first run finds on the volume what it made itself.
FirstRunOK ==
    /\ sidecar = "starting" => todo = 0
    /\ PlainNames /\ firstRun =>
          /\ dirs \subseteq StartDirs \cup Prefixes(Mount)
          /\ sidecar \in {"starting", "fetch", "write"} =>
                \A q \in DOMAIN files : MadeFor(q, todo - 1)
          /\ sidecar = "fill" => \A q \in DOMAIN files : MadeFor(q, todo)
          /\ sidecar = "exited" /\ todo > 0 => code \notin {2, 5}

\* A name of one component behind the mount.
LEMMA DefaultPath ==
    ASSUME NEW d \in Seq(Component), NEW a \in Seq(Component), Len(a) = 1
    PROVE  /\ Len(d) \in Nat /\ Len(d \o a) = Len(d) + 1
           /\ SubSeq(d \o a, 1, Len(d)) = d
           /\ \A b \in Seq(Component) : Len(b) = 1 /\ d \o a = d \o b => a = b
<1>1. Len(d) \in Nat /\ Len(d \o a) = Len(d) + 1 /\ (d \o a)[Len(d) + 1] = a[1]
  BY OneMore
<1>2. SubSeq(d \o a, 1, Len(d)) = d
  OBVIOUS
<1>3. ASSUME NEW b \in Seq(Component), Len(b) = 1, d \o a = d \o b
      PROVE  a = b
  <2>1. (d \o b)[Len(d) + 1] = b[1]
    BY <1>3, OneMore
  <2>2. a[1] = b[1]
    BY <1>1, <1>3, <2>1
  <2> QED
    BY <1>3, <2>2, SeqEqual
<1> QED
  BY <1>1, <1>2, <1>3

\* In the first run a plain name's file can be made, in the mount itself.
LEMMA DefaultOpens ==
    ASSUME PodInv, FirstRunOK, PlainNames, firstRun, sidecar = "write"
    PROVE  /\ DirOf(Current.path, Current.name) = {Mount}
           /\ ~MkdirAllFails(Mount)
           /\ ~OpenFails(Current.path, dirs \cup Prefixes(Mount))
<1> DEFINE p == Current.path
           n == Current.name
<1>1. /\ cfg # {} /\ todo \in 1..Len(Config.secrets) /\ Current = Config.secrets[todo]
      /\ n \in Seq(Component)
      /\ Config.secrets = SecretMappings(env)
      /\ DOMAIN Config.secrets = 1..Len(Config.secrets) /\ Len(Config.secrets) \in Nat
  BY AtFetch, ConfigOK, LenProperties, PodAssumption DEF PodInv, AtWork
<1>2. Mount \in Seq(Component)
  BY PodAssumption DEF PodInv, TypeOK, Mount
<1>3. p = Mount \o n /\ Len(n) = 1
  BY <1>1 DEF PlainNames
<1>4. Mount \in dirs
  BY DEF PodInv, VolumeOK, StartDirs
<1>5. DirOf(p, n) = {Mount}
  BY <1>1, <1>2, <1>3, DirOfDefaultPath
<1>6. /\ Len(Mount) \in Nat /\ Len(p) = Len(Mount) + 1 /\ SubSeq(p, 1, Len(Mount)) = Mount
      /\ \A b \in Seq(Component) : Len(b) = 1 /\ p = Mount \o b => n = b
  BY <1>1, <1>2, <1>3, DefaultPath
<1>7. p \notin DOMAIN files
  <2> SUFFICES ASSUME p \in DOMAIN files PROVE FALSE
    OBVIOUS
  <2>1. PICK i \in 1..(todo - 1) : Config.secrets[i].path = p
    BY DEF FirstRunOK, MadeFor
  <2>2. i \in DOMAIN Config.secrets /\ i # todo
    BY <1>1, <2>1
  <2> DEFINE b == Config.secrets[i].name
  <2>3. b \in Seq(Component)
    BY <1>1, <2>2, SecretOK, PodAssumption DEF PodInv
  <2>4. Len(b) = 1 /\ p = Mount \o b /\ b # n
    BY <1>1, <2>1, <2>2 DEF PlainNames
  <2> QED
    BY <1>6, <2>3, <2>4
<1>8. \A q \in dirs \cup Prefixes(Mount) : Len(q) <= Len(Mount)
  <2>1. \A q \in dirs \cup Prefixes(Mount) : q \in StartDirs \cup Prefixes(Mount)
    BY DEF FirstRunOK
  <2>2. \A q \in Prefixes(Mount) : Len(q) <= Len(Mount)
    BY <1>2, <1>6 DEF Prefixes
  <2>3. \A q \in StartDirs : Len(q) <= Len(Mount)
    BY <1>2, <1>6 DEF StartDirs
  <2> QED
    BY <2>1, <2>2, <2>3
<1>9. p \notin dirs \cup Prefixes(Mount)
  BY <1>6, <1>8
<1>10. SubSeq(p, 1, Len(p) - 1) = Mount
  BY <1>6
<1> HIDE DEF p, n
<1>11. Writable(p)
  <2>1. Len(Mount) \in 0..Len(p) /\ Mount = SubSeq(p, 1, Len(Mount))
    BY <1>6
  <2> QED
    BY <2>1 DEF Writable, Prefixes
<1>12. ~OpenFails(p, dirs \cup Prefixes(Mount))
  BY <1>4, <1>7, <1>9, <1>10, <1>11 DEF OpenFails
<1>13. ~MkdirAllFails(Mount)
  BY <1>4 DEF MkdirAllFails
<1> QED
  BY <1>5, <1>12, <1>13 DEF p, n

LEMMA FirstRunInit == Init => FirstRunOK
BY DEF Init, FirstRunOK, NoFiles, StartDirs

\* The parts of FirstRunOK that only look at the deployment.
LEMMA SamePlainNames ==
    ASSUME UNCHANGED deployment
    PROVE  /\ PlainNames' <=> PlainNames
           /\ StartDirs' = StartDirs /\ Prefixes(Mount)' = Prefixes(Mount)
           /\ \A q, n : MadeFor(q, n)' <=> MadeFor(q, n)
<1>1. Mount' = Mount /\ Config' = Config /\ SecretMappings(env)' = SecretMappings(env)
      /\ StartDirs' = StartDirs
  BY SameConfig DEF deployment
<1> QED
  BY <1>1 DEF PlainNames, MadeFor

LEMMA FirstRunStep == PodInv /\ FirstRunOK /\ [Next]_vars => FirstRunOK'
<1> SUFFICES ASSUME PodInv, FirstRunOK, [Next]_vars PROVE FirstRunOK'
  OBVIOUS
<1>1. UNCHANGED deployment
  BY DEF Next, vars, StoreSecret, StoreShare, DeleteShare, ServerRestarts, ConfigError,
     TokenReadError, Begins, Settles, FetchError, CombineError, Combines, WriteError, Panics, Creates, Fills, SidecarKilled, SidecarRestarts,
     SandboxRestarts, PodReplaced, StartsAgain, AppStarts, AppExits
<1>2. /\ PlainNames' <=> PlainNames
      /\ StartDirs' = StartDirs /\ Prefixes(Mount)' = Prefixes(Mount)
      /\ \A q, n : MadeFor(q, n)' <=> MadeFor(q, n)
  BY <1>1, SamePlainNames
<1>3. CASE UNCHANGED <<sidecarVars, volumeVars, firstRun>>
  BY <1>2, <1>3 DEF FirstRunOK, sidecarVars, volumeVars
<1>4. CASE \/ ConfigError \/ TokenReadError \/ FetchError \/ SidecarKilled
           \/ CombineError
  <2>1. /\ sidecar' = "exited" /\ (code' \in {1, 3, 4, 137} \/ (code' = 2 /\ sidecar = "starting"))
        /\ todo' = todo /\ dirs' = dirs /\ firstRun' = firstRun
    BY <1>4 DEF ConfigError, TokenReadError, FetchError, SidecarKilled, CombineError, Exits,
       volumeVars, runVars
  <2> QED
    BY <1>2, <2>1 DEF FirstRunOK
<1>5. CASE WriteError \/ Panics
  <2>1. sidecar = "write" /\ sidecar' = "exited" /\ firstRun' = firstRun
    BY <1>5 DEF WriteError, Panics, Exits, runVars
  <2>2. ~(PlainNames /\ firstRun)
    BY <1>5, <2>1, DefaultOpens DEF WriteError, Panics
  <2> QED
    BY <1>2, <2>1, <2>2 DEF FirstRunOK
<1>6. CASE Begins
  BY <1>2, <1>6 DEF Begins, FirstRunOK, MadeFor, volumeVars, runVars
<1>7. CASE Combines \/ \E e \in DOMAIN env.SHARE_SERVER_ENDPOINTS : Settles(e)
  <2>1. /\ sidecar = "fetch" /\ sidecar' \in {"fetch", "write"} /\ todo' = todo
        /\ dirs' = dirs /\ files' = files /\ firstRun' = firstRun
    BY <1>7 DEF Combines, Settles, volumeVars, runVars
  <2> QED
    BY <1>2, <2>1 DEF FirstRunOK
<1>8. CASE Creates
  <2>1. /\ sidecar = "write" /\ sidecar' = "fill" /\ todo' = todo /\ firstRun' = firstRun
        /\ DOMAIN files' = DOMAIN files \cup {Current.path}
        /\ \E d \in DirOf(Current.path, Current.name) : dirs' = dirs \cup Prefixes(d)
    BY <1>8 DEF Creates, runVars
  <2>2. ASSUME PlainNames, firstRun
        PROVE  dirs' \subseteq StartDirs \cup Prefixes(Mount)
    BY <2>1, <2>2, DefaultOpens DEF FirstRunOK
  <2>3. /\ todo \in 1..Len(Config.secrets) /\ Len(Config.secrets) \in Nat
        /\ Current.path = Config.secrets[todo].path
    BY <2>1, AtFetch, ConfigOK DEF PodInv, AtWork
  <2>4. ASSUME PlainNames, firstRun, NEW q \in DOMAIN files'
        PROVE  MadeFor(q, todo)
    <3>1. CASE q = Current.path
      BY <2>3, <3>1 DEF MadeFor
    <3>2. CASE q \in DOMAIN files
      BY <2>1, <2>3, <2>4, <3>2 DEF FirstRunOK, MadeFor
    <3> QED
      BY <2>1, <2>4, <3>1, <3>2
  <2> QED
    BY <1>2, <2>1, <2>2, <2>4 DEF FirstRunOK
<1>9. CASE Fills
  <2>1. /\ sidecar = "fill" /\ DOMAIN files' = DOMAIN files /\ dirs' = dirs /\ firstRun' = firstRun
        /\ \/ sidecar' = "exited" /\ code' = 0
           \/ sidecar' = "fetch" /\ todo' = todo + 1
    BY <1>9 DEF Fills, Exits, runVars
  <2>2. todo \in Nat /\ (todo + 1) - 1 = todo
    BY PodAssumption, LenProperties DEF PodInv, TypeOK
  <2> QED
    BY <1>2, <2>1, <2>2 DEF FirstRunOK
<1>10. CASE SidecarRestarts \/ SandboxRestarts
  BY <1>2, <1>10 DEF SidecarRestarts, SandboxRestarts, StartsAgain, FirstRunOK
<1>11. CASE PodReplaced
  BY <1>2, <1>11 DEF PodReplaced, FirstRunOK, NoFiles
<1> QED
  BY <1>3, <1>4, <1>5, <1>6, <1>7, <1>8, <1>9, <1>10, <1>11
  DEF Next, vars, StoreSecret, StoreShare, DeleteShare, ServerRestarts, AppStarts, AppExits, sidecarVars, volumeVars, runVars

\* On a new volume plain names with default paths are written, however many
\* there are and however long (sidecar main.go:100-112).
THEOREM DefaultPathsCanBeWritten == Spec => []DefaultPathsAreWritten
<1>1. FirstRunOK => DefaultPathsAreWritten
  BY DEF FirstRunOK, PlainNames, DefaultPathsAreWritten
<1>2. Spec => []FirstRunOK
  BY FirstRunInit, FirstRunStep, PodInvariance, PTL DEF Spec
<1> QED
  BY <1>1, <1>2, PTL

-----------------------------------------------------------------------------
(* What is left to do for the sidecar.  RunsEnd itself needs fairness for    *)
(* its steps; that there are only so many is shown here.                     *)

Endpoints == Len(env.SHARE_SERVER_ENDPOINTS)
ForEach   == Endpoints + 3

\* The steps a run has before it, at most: one for each endpoint and three more for each
\* secret.
RunLeft ==
    LET n == Len(SecretMappings(env))
    IN  IF sidecar = "starting" THEN ForEach * n + 1
        ELSE IF sidecar = "exited" THEN 0
        ELSE ForEach * (n - todo)
             + (IF sidecar = "fetch" THEN 3 + (Endpoints - Cardinality(DOMAIN fetched))
                ELSE IF sidecar = "write" THEN 2 ELSE 1)

\* A step of the sidecar makes them fewer, and nothing makes them more but the start
\* of another run.
RunForward ==
    /\ SidecarStep => RunLeft' < RunLeft
    /\ RunLeft' <= RunLeft \/ sidecar' = "starting"

\* The numbers in it.
RunNumbers ==
    LET n == Len(SecretMappings(env))
    IN  /\ n \in Nat /\ Endpoints \in Nat /\ ForEach \in Nat
        /\ IsFiniteSet(DOMAIN fetched)
        /\ Cardinality(DOMAIN fetched) \in 0..Endpoints
        /\ AtWork => todo \in 1..n
        /\ sidecar \in {"starting", "fetch", "write", "fill", "exited"}

LEMMA RunLeftIs ==
    ASSUME PodInv
    PROVE  RunNumbers
<1>1. SecretMappings(env) \in Seq([name : Names, path : Seq(Component)])
      /\ env.SHARE_SERVER_ENDPOINTS \in Seq(Servers)
  BY PodAssumption DEF PodInv, TypeOK
<1>2. /\ Len(SecretMappings(env)) \in Nat /\ Endpoints \in Nat
      /\ DOMAIN env.SHARE_SERVER_ENDPOINTS = 1..Endpoints
  BY <1>1, LenProperties DEF Endpoints
<1>3. AtWork => todo \in 1..Len(SecretMappings(env))
  BY ConfigOK DEF PodInv, WorkOK
<1>4. IsFiniteSet(1..Endpoints) /\ Cardinality(1..Endpoints) = Endpoints
  BY <1>2, FS_Interval
<1>5. DOMAIN fetched \subseteq 1..Endpoints
  BY <1>2 DEF PodInv, TypeOK
<1>6. /\ IsFiniteSet(DOMAIN fetched) /\ Cardinality(DOMAIN fetched) \in Nat
      /\ Cardinality(DOMAIN fetched) <= Endpoints
  BY <1>4, <1>5, FS_Subset, FS_CardinalityType
<1> QED
  BY <1>2, <1>3, <1>6 DEF RunNumbers, ForEach, PodInv, TypeOK

\* What is left for the secrets after the t-th.
LEMMA LeftAfter ==
    ASSUME NEW w \in Nat, NEW n \in Nat, NEW t \in 0..n
    PROVE  /\ w * (n - t) \in Nat
           /\ t < n => w * (n - (t + 1)) = w * (n - t) - w
<1>1. n - t \in Nat
  OBVIOUS
<1>2. w * (n - t) \in Nat
  BY <1>1
<1>3. ASSUME t < n PROVE w * (n - (t + 1)) = w * (n - t) - w
  <2>1. n - (t + 1) = (n - t) - 1
    OBVIOUS
  <2>2. w * ((n - t) - 1) = w * (n - t) - w
    BY <1>1
  <2> QED
    BY <2>1, <2>2
<1> QED
  BY <1>2, <1>3

LEMMA RunLeftNat ==
    ASSUME RunNumbers
    PROVE  RunLeft \in Nat
<1> DEFINE n == Len(SecretMappings(env))
           f == Cardinality(DOMAIN fetched)
<1>1. /\ n \in Nat /\ Endpoints \in Nat /\ ForEach \in Nat /\ f \in 0..Endpoints
      /\ AtWork => todo \in 1..n
      /\ sidecar \in {"starting", "fetch", "write", "fill", "exited"}
  BY DEF RunNumbers
<1>2. ForEach * n \in Nat
  BY <1>1
<1>3. AtWork => ForEach * (n - todo) \in Nat
  BY <1>1, LeftAfter
<1> HIDE DEF n, f
<1>4. 3 + (Endpoints - f) \in Nat
  BY <1>1
<1> QED
  BY <1>1, <1>2, <1>3, <1>4 DEF RunLeft, AtWork, n, f

LEMMA SidecarForward ==
    ASSUME RunNumbers, RunNumbers', SidecarStep
    PROVE  RunLeft' < RunLeft
<1> DEFINE n == Len(SecretMappings(env))
           f == Cardinality(DOMAIN fetched)
<1>1. /\ RunLeft \in Nat /\ n \in Nat /\ Endpoints \in Nat /\ ForEach = Endpoints + 3
      /\ f \in 0..Endpoints /\ IsFiniteSet(DOMAIN fetched)
      /\ AtWork => todo \in 1..n
  BY RunLeftNat DEF ForEach, RunNumbers
<1>2. env' = env /\ n' = n /\ Endpoints' = Endpoints /\ ForEach' = ForEach
  BY DEF SidecarStep, ConfigError, TokenReadError, Begins, Settles, FetchError, CombineError,
     Combines, WriteError, Panics, Creates, Fills, deployment, Endpoints, ForEach
<1>3. f' \in 0..Endpoints
  BY <1>2 DEF RunNumbers
<1>4. /\ sidecar = "starting" => RunLeft = ForEach * n + 1
      /\ sidecar = "fetch" => RunLeft = ForEach * (n - todo) + (3 + (Endpoints - f))
      /\ sidecar = "write" => RunLeft = ForEach * (n - todo) + 2
      /\ sidecar = "fill" => RunLeft = ForEach * (n - todo) + 1
  BY DEF RunLeft
<1>5. /\ sidecar' = "fetch" => RunLeft' = ForEach * (n - todo') + (3 + (Endpoints - f'))
      /\ sidecar' = "write" => RunLeft' = ForEach * (n - todo') + 2
      /\ sidecar' = "fill" => RunLeft' = ForEach * (n - todo') + 1
      /\ sidecar' = "exited" => RunLeft' = 0
  BY <1>2 DEF RunLeft
<1>6. \/ sidecar \in {"starting", "fetch", "write", "fill"} /\ sidecar' = "exited"
      \/ sidecar = "starting" /\ sidecar' = "fetch" /\ todo' = 1
      \/ sidecar = "fetch" /\ sidecar' = "fetch" /\ todo' = todo /\ f' = f + 1
      \/ sidecar = "fetch" /\ sidecar' = "write" /\ todo' = todo
      \/ sidecar = "write" /\ sidecar' = "fill" /\ todo' = todo
      \/ sidecar = "fill" /\ sidecar' = "fetch" /\ todo' = todo + 1
  <2>1. CASE ConfigError \/ TokenReadError \/ FetchError \/ CombineError \/ WriteError \/ Panics
    BY <2>1 DEF ConfigError, TokenReadError, FetchError, CombineError, WriteError, Panics, Exits
  <2>2. CASE Begins
    BY <2>2 DEF Begins
  <2>3. CASE Combines
    BY <2>3 DEF Combines
  <2>4. CASE Creates
    BY <2>4 DEF Creates
  <2>5. CASE Fills
    BY <2>5 DEF Fills, Exits
  <2>6. CASE \E e \in DOMAIN env.SHARE_SERVER_ENDPOINTS : Settles(e)
    <3>1. PICK e : Settles(e)
      BY <2>6
    <3>2. /\ e \notin DOMAIN fetched /\ DOMAIN fetched' = DOMAIN fetched \cup {e}
          /\ sidecar = "fetch" /\ sidecar' = "fetch" /\ todo' = todo
      BY <3>1 DEF Settles
    <3>3. Cardinality(DOMAIN fetched \cup {e}) = Cardinality(DOMAIN fetched) + 1
      BY <1>1, <3>2, FS_AddElement
    <3> QED
      BY <3>2, <3>3
  <2> QED
    BY <2>1, <2>2, <2>3, <2>4, <2>5, <2>6 DEF SidecarStep
<1> HIDE DEF n, f
<1>7. /\ sidecar \in {"fetch", "write", "fill"} => todo \in 1..n
      /\ sidecar' = "fetch" => todo' \in 1..n
  <2>1. AtWork' => todo' \in 1..n
    BY <1>2 DEF RunNumbers, n
  <2> QED
    BY <1>1, <2>1 DEF AtWork
<1>8. ForEach \in Nat
  BY <1>1
<1>9. CASE sidecar \in {"starting", "fetch", "write", "fill"} /\ sidecar' = "exited"
  <2>1. RunLeft > 0
    <3>1. CASE sidecar = "starting"
      <4>1. ForEach * n \in Nat
        BY <1>1, <1>8
      <4> QED
        BY <1>4, <3>1, <4>1
    <3>2. CASE sidecar \in {"fetch", "write", "fill"}
      <4>1. ForEach * (n - todo) \in Nat
        BY <1>1, <1>7, <1>8, <3>2, LeftAfter
      <4> DEFINE left == ForEach * (n - todo)
      <4> HIDE DEF left
      <4> QED
        BY <1>1, <1>4, <3>2, <4>1 DEF left
    <3> QED
      BY <1>9, <3>1, <3>2
  <2> QED
    BY <1>5, <1>9, <2>1
<1>10. CASE sidecar = "starting" /\ sidecar' = "fetch" /\ todo' = 1
  <2>1. n - 0 = n /\ 0 < n /\ 0 \in 0..n
    BY <1>1, <1>7, <1>10
  <2>2. ForEach * (n - 1) = ForEach * n - ForEach /\ ForEach * n \in Nat
    BY <1>1, <1>8, <2>1, LeftAfter
  <2> DEFINE all == ForEach * n
             rest == ForEach * (n - 1)
  <2> HIDE DEF all, rest
  <2>3. rest = all - ForEach /\ all \in Nat
    BY <2>2 DEF all, rest
  <2>4. RunLeft = all + 1 /\ RunLeft' = rest + (3 + (Endpoints - f'))
    BY <1>4, <1>5, <1>10 DEF all, rest
  <2>5. f' \in Nat /\ f' <= Endpoints /\ Endpoints \in Nat
    BY <1>1, <1>3
  <2>6. rest + (3 + (Endpoints - f')) = all - f'
    BY <1>1, <2>3, <2>5
  <2> QED
    BY <2>3, <2>4, <2>5, <2>6
<1>11. CASE sidecar = "fill" /\ sidecar' = "fetch" /\ todo' = todo + 1
  <2>1. todo \in 0..n /\ todo < n
    BY <1>1, <1>7, <1>11
  <2>2. ForEach * (n - (todo + 1)) = ForEach * (n - todo) - ForEach /\ ForEach * (n - todo) \in Nat
    BY <1>1, <1>8, <2>1, LeftAfter
  <2> DEFINE left == ForEach * (n - todo)
             rest == ForEach * (n - (todo + 1))
  <2> HIDE DEF left, rest
  <2>3. rest = left - ForEach /\ left \in Nat
    BY <2>2 DEF left, rest
  <2>4. RunLeft = left + 1 /\ RunLeft' = rest + (3 + (Endpoints - f'))
    BY <1>4, <1>5, <1>11 DEF left, rest
  <2>5. f' \in Nat /\ f' <= Endpoints /\ Endpoints \in Nat
    BY <1>1, <1>3
  <2>6. rest + (3 + (Endpoints - f')) = left - f'
    BY <1>1, <2>3, <2>5
  <2> QED
    BY <2>3, <2>4, <2>5, <2>6
<1>12. CASE \/ sidecar = "fetch" /\ sidecar' = "fetch" /\ todo' = todo /\ f' = f + 1
            \/ sidecar = "fetch" /\ sidecar' = "write" /\ todo' = todo
            \/ sidecar = "write" /\ sidecar' = "fill" /\ todo' = todo
  <2> DEFINE left == ForEach * (n - todo)
  <2>1. left \in Nat
    BY <1>1, <1>7, <1>8, <1>12, LeftAfter
  <2> HIDE DEF left
  <2>2. /\ sidecar = "fetch" => RunLeft = left + (3 + (Endpoints - f))
        /\ sidecar = "write" => RunLeft = left + 2
        /\ sidecar' = "fetch" => RunLeft' = left + (3 + (Endpoints - f'))
        /\ sidecar' = "write" => RunLeft' = left + 2
        /\ sidecar' = "fill" => RunLeft' = left + 1
    BY <1>4, <1>5, <1>12 DEF left
  <2> QED
    BY <1>1, <1>3, <1>12, <2>1, <2>2
<1> QED
  BY <1>6, <1>9, <1>10, <1>11, <1>12

LEMMA StepRunForward ==
    RunNumbers /\ RunNumbers' /\ (RunLeft \in Nat)' /\ [Next]_vars => [RunForward]_vars
<1> SUFFICES ASSUME RunNumbers, RunNumbers', RunLeft' \in Nat, Next PROVE RunForward
  OBVIOUS
<1>1. RunLeft \in Nat /\ RunLeft' \in Nat
  BY RunLeftNat
<1>2. CASE SidecarStep
  BY <1>1, <1>2, SidecarForward DEF RunForward
<1>3. CASE ~SidecarStep
  <2>1. \/ sidecar' = "starting" \/ sidecar' = "exited"
        \/ sidecar' = sidecar /\ todo' = todo /\ fetched' = fetched /\ env' = env
    BY <1>3 DEF Next, SidecarStep, StoreSecret, StoreShare, DeleteShare, ServerRestarts,
       SidecarKilled, Exits, SidecarRestarts, SandboxRestarts, PodReplaced, StartsAgain, AppStarts,
       AppExits, sidecarVars, deployment
  <2>2. sidecar' = "exited" => RunLeft' = 0
    BY DEF RunLeft
  <2>3. sidecar' = sidecar /\ todo' = todo /\ fetched' = fetched /\ env' = env => RunLeft' = RunLeft
    BY DEF RunLeft, ForEach, Endpoints
  <2>4. RunLeft' <= RunLeft \/ sidecar' = "starting"
    BY <1>1, <2>1, <2>2, <2>3
  <2> QED
    BY <1>3, <2>4 DEF RunForward
<1> QED
  BY <1>2, <1>3

\* A run of the sidecar takes at most one step for each endpoint and three more for each
\* of its secrets, and one to begin: each step leaves fewer of them, and only another run
\* begins anew (sidecar main.go:23-121).
THEOREM RunsAreBounded == Spec => [][RunForward]_vars
<1>1. PodInv => RunNumbers /\ RunLeft \in Nat
  BY RunLeftIs, RunLeftNat
<1> QED
  BY <1>1, StepRunForward, PodInvariance, PTL DEF Spec
=============================================================================
