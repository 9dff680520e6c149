-------------------------------- MODULE Pod ---------------------------------
(***************************************************************************)
(* The life of a pod: the sidecar (cmd/sidecar) as its init container,     *)
(* which Kubernetes runs until it exits with 0, the volume it writes the   *)
(* secrets to, and the demo application, which starts after it.            *)
(*                                                                         *)
(* The volume is an emptyDir: it stays when a container is restarted, and  *)
(* is gone with the pod.  The sidecar is not root, and creates its files   *)
(* with mode 0400.                                                         *)
(*                                                                         *)
(* FetchShares is taken at the level of QuorumFetch: an endpoint settles   *)
(* once, on what its server holds at that moment or on its last error.     *)
(* Of the manager there is what it leaves on the servers: a StoreSecret    *)
(* goes from one to the next, and may stop after any of them.              *)
(***************************************************************************)
EXTENDS SidecarConfig, DemoApp

CONSTANTS
    Envs,         \* environments the pod may be deployed with
    Names,        \* the names of secrets
    N,            \* share servers, in the manager's order; also their endpoints
    Thresholds,   \* the k of StoreSecret requests that Split accepts
    MaxStores,    \* bound: StoreSecret calls, of all secrets together
    Garbage,      \* bytes reconstructed from shares that do not determine them
    Faults        \* which of "fetch", "token", "kill", "server", "delete", "sandbox"
                  \* happen

\* Of a component there is at least one character; strconv.Atoi gives THRESHOLD.
Component == STRING \X (Nat \ {0})

Servers == 1..N

ASSUME PodAssumption ==
    /\ N \in Nat /\ MaxStores \in Nat
    /\ Thresholds \subseteq 2..N
    /\ Garbage \notin Nat
    /\ Names \subseteq Seq(Component)
    /\ \A e \in Envs :
          /\ e.SECRETS_DIR \in Seq(Component)
          /\ SecretMappings(e) \in Seq([name : Names, path : Seq(Component)])
          /\ e.SHARE_SERVER_ENDPOINTS \in Seq(Servers)
          /\ e.THRESHOLD \in Int

VARIABLES
    env,       \* the sidecar's environment
    cfg,       \* what LoadSidecarConfig makes of it, the same in every run
    calls,     \* calls[c]: a StoreSecret call, and the server whose share is next
    holds,     \* holds[s][n]: the call whose share of n server s holds, or 0
    sidecar,   \* "starting", "fetch", "write", "fill", "exited"
    todo,      \* the secret it is at; 0 before the first
    fetched,   \* fetched[e]: what endpoint e came to: the call of its share, or 0
    value,     \* what Combine gave: the data of a call, or other bytes
    code,      \* its exit code
    dirs,      \* directories there are
    files,     \* files[path]: [name, data], data 0 as long as it is empty
    app,       \* "none" or "running"
    secrets,   \* the application's map
    firstRun,  \* history: the sidecar runs for the first time in this pod
    during     \* history, during[n]: what servers have held of n since the run of
               \* the sidecar began, and until it ended; 0 for nothing

deployment  == <<env, cfg>>
storeVars   == <<calls, holds>>
volumeVars  == <<dirs, files>>
sidecarVars == <<sidecar, todo, fetched, value, code>>
appVars     == <<app, secrets>>
runVars     == <<firstRun, during>>
vars == <<deployment, storeVars, sidecarVars, volumeVars, appVars, runVars>>

Config     == CHOOSE c \in cfg : TRUE
Current    == Config.secrets[todo]
Holding(n) == {holds[s][n] : s \in Servers}

\* The container's own directories: of these only "/" and the mount matter.
Mount      == env.SECRETS_DIR
StartDirs  == {<<>>, Mount}
NoFiles    == [p \in {} |-> 0]
NoResults  == [e \in {} |-> 0]

TypeOK ==
    /\ env \in Envs /\ cfg = LoadSidecarConfig(env)
    /\ calls \in Seq([name : Names, k : Thresholds, next : 1..(N+1)])
    /\ Len(calls) <= MaxStores
    /\ holds \in [Servers -> [Names -> 0..MaxStores]]
    /\ sidecar \in {"starting", "fetch", "write", "fill", "exited"}
    /\ todo \in 0..Len(SecretMappings(env))
    /\ DOMAIN fetched \subseteq DOMAIN env.SHARE_SERVER_ENDPOINTS
    /\ \A e \in DOMAIN fetched : fetched[e] \in 0..MaxStores
    /\ value \in 0..MaxStores \cup {Garbage}
    /\ code \in {0, 1, 2, 3, 4, 5, 137}
    /\ \A p \in DOMAIN files :
          files[p] \in [name : Names, data : 0..MaxStores \cup {Garbage}]
    /\ app \in {"none", "running"}
    /\ firstRun \in BOOLEAN
    /\ during \in [Names -> SUBSET (0..MaxStores)]

Init ==
    /\ env \in Envs
    /\ cfg = LoadSidecarConfig(env)
    /\ calls = <<>> /\ holds = [s \in Servers |-> [n \in Names |-> 0]]
    /\ sidecar = "starting" /\ todo = 0 /\ fetched = NoResults /\ value = 0 /\ code = 0
    /\ dirs = StartDirs /\ files = NoFiles
    /\ app = "none" /\ secrets = NoFiles
    /\ firstRun = TRUE /\ during = [n \in Names |-> Holding(n)]

-----------------------------------------------------------------------------
(* The servers.  What becomes of them is noted as long as the sidecar runs. *)

NotesHeld ==
    during' = IF sidecar = "exited" THEN during
              ELSE [n \in Names |-> during[n] \cup Holding(n)']

\* A call begins: the secret is split.
StoreSecret(n, k) ==
    /\ Len(calls) < MaxStores
    /\ calls' = Append(calls, [name |-> n, k |-> k, next |-> 1])
    /\ UNCHANGED <<deployment, holds, sidecarVars, volumeVars, appVars, runVars>>

\* One StoreShare of it is served.  A call that returns at an error is one that has
\* no further step, and one whose request is served late has its last step then.
StoreShare(c) ==
    /\ calls[c].next \in Servers
    /\ holds' = [holds EXCEPT ![calls[c].next][calls[c].name] = c]
    /\ calls' = [calls EXCEPT ![c].next = @ + 1]
    /\ NotesHeld
    /\ UNCHANGED <<deployment, sidecarVars, volumeVars, appVars, firstRun>>

\* A DeleteShare of a DeleteSecret, which goes on after errors: any server may be
\* missed, or be served late.
DeleteShare(s, n) ==
    /\ "delete" \in Faults
    /\ holds' = [holds EXCEPT ![s][n] = 0]
    /\ NotesHeld
    /\ UNCHANGED <<deployment, calls, sidecarVars, volumeVars, appVars, firstRun>>

ServerRestarts(s) ==
    /\ "server" \in Faults
    /\ holds' = [holds EXCEPT ![s] = [n \in Names |-> 0]]
    /\ NotesHeld
    /\ UNCHANGED <<deployment, calls, sidecarVars, volumeVars, appVars, firstRun>>

-----------------------------------------------------------------------------
(* The sidecar.                                                            *)

Exits(c) == sidecar' = "exited" /\ code' = c

ConfigError ==
    /\ sidecar = "starting"
    /\ cfg = {}
    /\ Exits(1)
    /\ UNCHANGED <<deployment, storeVars, todo, fetched, value, volumeVars, appVars, runVars>>

TokenReadError ==
    /\ sidecar = "starting"
    /\ cfg # {}
    /\ "token" \in Faults
    /\ Exits(2)
    /\ UNCHANGED <<deployment, storeVars, todo, fetched, value, volumeVars, appVars, runVars>>

Begins ==
    /\ sidecar = "starting"
    /\ cfg # {}
    /\ sidecar' = "fetch" /\ todo' = 1
    /\ UNCHANGED <<deployment, storeVars, fetched, value, code, volumeVars, appVars, runVars>>

\* Mutant: the goroutines share the loop variable, and all fetch from the last one.
LastEndpoint(e) == Config.endpoints[Len(Config.endpoints)]

\* The server of the e-th goroutine.
Endpoint(e) == Config.endpoints[e]

\* What fetching from it comes to: the share the server holds at that moment, or the
\* error of its last attempt.
Settles(e) ==
    /\ sidecar = "fetch"
    /\ e \notin DOMAIN fetched
    /\ \E c \in {holds[Endpoint(e)][Current.name]} \cup (IF "fetch" \in Faults THEN {0} ELSE {}) :
          fetched' = [f \in DOMAIN fetched \cup {e} |-> IF f = e THEN c ELSE fetched[f]]
    /\ UNCHANGED <<deployment, storeVars, sidecar, todo, value, code, volumeVars, appVars, runVars>>

AllSettled == DOMAIN fetched = DOMAIN Config.endpoints
Successes  == {e \in DOMAIN fetched : fetched[e] # 0}

FetchError ==
    /\ sidecar = "fetch"
    /\ AllSettled
    /\ Cardinality(Successes) < Config.threshold
    /\ Exits(3)
    /\ fetched' = NoResults
    /\ UNCHANGED <<deployment, storeVars, todo, value, volumeVars, appVars, runVars>>

\* What Combine makes of the shares of G.  The same share twice, from a server that is
\* listed twice, is refused.  Shares of several splits are refused when their lengths
\* differ or x coordinates happen to be equal, and otherwise give other bytes; so do
\* fewer shares of one split than it was made for.  0 stands for the error.
CombineResults(G) ==
    IF \E e, f \in G : e # f /\ Endpoint(e) = Endpoint(f) /\ fetched[e] = fetched[f]
      THEN {0}
    ELSE IF \E e, f \in G : fetched[e] # fetched[f]
      THEN {0, Garbage}
    ELSE {IF Cardinality(G) >= calls[fetched[e]].k THEN fetched[e] ELSE Garbage : e \in G}

\* FetchShares returns Threshold of the shares, whichever came first.
Returned == {G \in SUBSET Successes : Cardinality(G) = Config.threshold}

CombineError ==
    /\ sidecar = "fetch"
    /\ AllSettled
    /\ \E G \in Returned : 0 \in CombineResults(G)
    /\ Exits(4)
    /\ fetched' = NoResults
    /\ UNCHANGED <<deployment, storeVars, todo, value, volumeVars, appVars, runVars>>

Combines ==
    /\ sidecar = "fetch"
    /\ AllSettled
    /\ \E G \in Returned : value' \in CombineResults(G) \ {0}
    /\ sidecar' = "write"
    /\ fetched' = NoResults
    /\ UNCHANGED <<deployment, storeVars, todo, code, volumeVars, appVars, runVars>>

-----------------------------------------------------------------------------
(* Files.  All but the mount is writable for root only.                    *)

Prefixes(p)  == {SubSeq(p, 1, i) : i \in 0..Len(p)}
Writable(p)  == Mount \in Prefixes(p)

MkdirAllFails(d) == d \notin dirs /\ (~Writable(d) \/ Prefixes(d) \cap DOMAIN files # {})

\* For writing, a file of mode 0400 opens for nobody but root.
OpenFails(p, existing) ==
    \/ p \in DOMAIN files
    \/ p \in existing
    \/ SubSeq(p, 1, Len(p) - 1) \notin existing
    \/ ~Writable(p)

\* Mutant: a file that cannot be opened is tried again, from the fetch on.
WriteErrorRetried ==
    /\ sidecar = "write"
    /\ \E d \in DirOf(Current.path, Current.name) :
          /\ MkdirAllFails(d) \/ OpenFails(Current.path, dirs \cup Prefixes(d))
          /\ dirs' = IF MkdirAllFails(d) THEN dirs ELSE dirs \cup Prefixes(d)
    /\ sidecar' = "fetch"
    /\ UNCHANGED <<deployment, storeVars, todo, fetched, value, code, files, appVars, runVars>>

WriteError ==
    /\ sidecar = "write"
    /\ \E d \in DirOf(Current.path, Current.name) :
          /\ MkdirAllFails(d) \/ OpenFails(Current.path, dirs \cup Prefixes(d))
          /\ dirs' = IF MkdirAllFails(d) THEN dirs ELSE dirs \cup Prefixes(d)
    /\ Exits(5)
    /\ UNCHANGED <<deployment, storeVars, todo, fetched, value, files, appVars, runVars>>

\* The slice of main.go:100 is out of range: Go exits with 2.
Panics ==
    /\ sidecar = "write"
    /\ DirOf(Current.path, Current.name) = {}
    /\ Exits(2)
    /\ UNCHANGED <<deployment, storeVars, todo, fetched, value, volumeVars, appVars, runVars>>

\* Mutant: a file that is there is left as it is.
CreatesUnlessThere ==
    /\ sidecar = "write"
    /\ \E d \in DirOf(Current.path, Current.name) :
          /\ ~MkdirAllFails(d)
          /\ dirs' = dirs \cup Prefixes(d)
          /\ IF Current.path \in DOMAIN files
               THEN /\ value' = files[Current.path].data /\ UNCHANGED files
               ELSE /\ ~OpenFails(Current.path, dirs \cup Prefixes(d))
                    /\ files' = [p \in DOMAIN files \cup {Current.path} |->
                          IF p = Current.path THEN [name |-> Current.name, data |-> 0]
                          ELSE files[p]]
                    /\ UNCHANGED value
    /\ sidecar' = "fill"
    /\ UNCHANGED <<deployment, storeVars, todo, fetched, code, appVars, runVars>>

\* MkdirAll, and the first half of WriteFile: the file is there, and is empty.
Creates ==
    /\ sidecar = "write"
    /\ \E d \in DirOf(Current.path, Current.name) :
          /\ ~MkdirAllFails(d)
          /\ ~OpenFails(Current.path, dirs \cup Prefixes(d))
          /\ dirs' = dirs \cup Prefixes(d)
    /\ files' = [p \in DOMAIN files \cup {Current.path} |->
                    IF p = Current.path THEN [name |-> Current.name, data |-> 0]
                    ELSE files[p]]
    /\ sidecar' = "fill"
    /\ UNCHANGED <<deployment, storeVars, todo, fetched, value, code, appVars, runVars>>

\* Mutant: the loop goes on once more.
FillsPastLast ==
    /\ sidecar = "fill"
    /\ files' = [files EXCEPT ![Current.path].data = value]
    /\ todo' = todo + 1
    /\ IF todo > Len(Config.secrets)
         THEN Exits(0)
         ELSE sidecar' = "fetch" /\ UNCHANGED code
    /\ UNCHANGED <<deployment, storeVars, fetched, value, dirs, appVars, runVars>>

\* Its second half; then the next secret, or the end.
Fills ==
    /\ sidecar = "fill"
    /\ files' = [files EXCEPT ![Current.path].data = value]
    /\ IF todo = Len(Config.secrets)
         THEN Exits(0) /\ UNCHANGED todo
         ELSE sidecar' = "fetch" /\ todo' = todo + 1 /\ UNCHANGED code
    /\ UNCHANGED <<deployment, storeVars, fetched, value, dirs, appVars, runVars>>

SidecarStep ==
    \/ ConfigError \/ TokenReadError \/ Begins
    \/ \E e \in DOMAIN env.SHARE_SERVER_ENDPOINTS : Settles(e)
    \/ FetchError \/ CombineError \/ Combines
    \/ WriteError \/ Panics \/ Creates \/ Fills

SidecarKilled ==
    /\ "kill" \in Faults
    /\ sidecar # "exited"
    /\ Exits(137)
    /\ fetched' = NoResults
    /\ UNCHANGED <<deployment, storeVars, todo, value, volumeVars, appVars, runVars>>

-----------------------------------------------------------------------------
(* Kubernetes.                                                             *)

StartsAgain ==
    /\ sidecar' = "starting" /\ todo' = 0 /\ fetched' = NoResults /\ value' = 0 /\ code' = 0
    /\ firstRun' = FALSE
    /\ during' = [n \in Names |-> Holding(n)]
    /\ UNCHANGED <<deployment, storeVars, volumeVars>>

SidecarRestarts ==
    /\ sidecar = "exited" /\ code # 0
    /\ StartsAgain
    /\ UNCHANGED appVars

\* The pod's sandbox is made anew: all containers run again, on the same volume.
SandboxRestarts ==
    /\ "sandbox" \in Faults
    /\ sidecar = "exited" /\ code = 0
    /\ StartsAgain
    /\ app' = "none" /\ secrets' = NoFiles

\* The pod is deleted, and the Deployment makes another.
PodReplaced ==
    /\ sidecar' = "starting" /\ todo' = 0 /\ fetched' = NoResults /\ value' = 0 /\ code' = 0
    /\ dirs' = StartDirs /\ files' = NoFiles
    /\ app' = "none" /\ secrets' = NoFiles
    /\ firstRun' = TRUE
    /\ during' = [n \in Names |-> Holding(n)]
    /\ UNCHANGED <<deployment, storeVars>>

AppStarts ==
    /\ app = "none"
    /\ sidecar = "exited" /\ code = 0
    /\ app' = "running"
    /\ secrets' \in loadSecrets(files, Mount)
    /\ UNCHANGED <<deployment, storeVars, sidecarVars, volumeVars, runVars>>

\* It crashes, or its probe fails: healthHandler answers 503.
AppExits ==
    /\ app = "running"
    /\ app' = "none" /\ secrets' = NoFiles
    /\ UNCHANGED <<deployment, storeVars, sidecarVars, volumeVars, runVars>>

Next ==
    \/ \E n \in Names, k \in Thresholds : StoreSecret(n, k)
    \/ \E c \in DOMAIN calls : StoreShare(c)
    \/ \E s \in Servers, n \in Names : DeleteShare(s, n)
    \/ \E s \in Servers : ServerRestarts(s)
    \/ ConfigError \/ TokenReadError \/ Begins
    \/ \E e \in DOMAIN env.SHARE_SERVER_ENDPOINTS : Settles(e)
    \/ FetchError \/ CombineError \/ Combines
    \/ WriteError \/ Panics \/ Creates \/ Fills
    \/ SidecarKilled
    \/ SidecarRestarts \/ SandboxRestarts \/ PodReplaced
    \/ AppStarts \/ AppExits

Spec == Init /\ [][Next]_vars

\* Each endpoint settles (ShareFetcher!Terminates), and the rest of the sidecar waits
\* for nothing.
FairSpec == Spec /\ WF_vars(SidecarStep)

-----------------------------------------------------------------------------
(* Properties.                                                             *)

\* The calls whose shares of n a run of the sidecar can have met.
MetBy(n)  == during[n] \ {0}
Mixed(n)  == \E c, d \in MetBy(n) : c # d
TooFew(n) == \E c \in MetBy(n) : calls[c].k > Config.threshold

\* Whatever runs before have left on the volume: when the application runs, it has the
\* files of all its secrets and no others, all complete, and all with what a server
\* held during the sidecar's last run; with other bytes only if servers held shares of
\* several calls in that run, or of one made for more shares than the pod takes
\* (main.go:60-120).
AppHasTheSecretsOfTheLastRun ==
    app = "running" =>
        /\ DOMAIN files = {Config.secrets[i].path : i \in DOMAIN Config.secrets}
        /\ \A i \in DOMAIN Config.secrets :
              LET n == Config.secrets[i].name
                  f == files[Config.secrets[i].path]
              IN  /\ f.name = n
                  /\ f.data \in MetBy(n) \cup {Garbage}
                  /\ f.data = Garbage => Mixed(n) \/ TooFew(n)

\* A secret written to a path of its own base name, which is not hidden, is one
\* the application answers for, with the right content, and it never reports
\* that only some of its files could be loaded (demo-app main.go:82-278).
AppServesEverySecret ==
    app = "running" =>
        /\ \A i \in DOMAIN Config.secrets :
              LET p == Config.secrets[i].path
              IN  /\ ~Hidden(p)
                  /\ \A j \in DOMAIN Config.secrets :
                        j # i => Base(Config.secrets[j].path) # Base(p)
                  => /\ healthHandler(secrets) = 200
                     /\ Base(p) \in secretsListHandler(secrets) \cap rootHandler(secrets)
                     /\ secretGetHandler(secrets, Base(p)) = [status |-> 200, loaded |-> TRUE]
                     /\ verifyHandler(secrets, Base(p)) = [status |-> 200, content |-> files[p]]
        /\ statusHandler(secrets) # "some"

\* On a new volume, secrets with plain names and default paths are written: the
\* directory cut off the path is the one the file goes to (main.go:100-112).
DefaultPathsAreWritten ==
    LET all == SecretMappings(env)
    IN  /\ firstRun /\ sidecar = "exited" /\ todo > 0
        /\ \A i \in DOMAIN all : Len(all[i].name) = 1 /\ all[i].path = Mount \o all[i].name
        /\ \A i, j \in DOMAIN all : i # j => all[i].name # all[j].name
        => code \notin {2, 5}

\* Combine never refuses the shares of one split, however many and whenever they were
\* fetched: a reconstruction error means that the pod lists a server twice, or that
\* servers held shares of several calls during this run (main.go:86-90, fetcher.go:70).
RefusalsAreExplained ==
    sidecar = "exited" /\ code = 4 =>
        \/ \E i, j \in DOMAIN Config.endpoints : i # j /\ Config.endpoints[i] = Config.endpoints[j]
        \/ Mixed(Current.name)

\* A run of the sidecar comes to its end, with an exit code, unless its pods are
\* replaced over and over: no error is tried again forever (main.go:60-121).
RunsEnd == []<><<PodReplaced>>_vars \/ (sidecar # "exited" ~> sidecar = "exited")

-----------------------------------------------------------------------------
\* "Will crash until secrets stored" (QUICKSTART.md:103): a run during which every
\* server holds a share of each of its secrets, of one call that its threshold is enough
\* for, succeeds.  Refuted: it cannot open the files of a run before.
CrashesOnlyUntilStored ==
    /\ sidecar = "exited"
    /\ \A i \in DOMAIN Config.secrets :
          LET n == Config.secrets[i].name
          IN  /\ ~Mixed(n) /\ ~TooFew(n)
              /\ 0 \notin during[n]
    => code = 0
=============================================================================
