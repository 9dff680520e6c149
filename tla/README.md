# Hyena: a verification project in TLA+

Hyena keeps Kubernetes secrets as Shamir shares: a secret is split into N shares
of which any K reconstruct it, each share lives in the memory of one share
server, and a sidecar (an init container) collects K of them and writes the
secret for the application. This directory models the system's own logic,
checks it with TLC on small instances, and proves the main results with TLAPS
for every instance.

Paths such as `main.go:69` are relative to the repository; without a directory
they name the file of the component under discussion.

## 1. Inventory

| component | state | operations | talks to |
|---|---|---|---|
| share server (`cmd/share-server`) | `shares`: name -> share, in memory, under one RWMutex | StoreShare, DeleteShare, GetShare, HealthCheck; start, graceful stop | answers gRPC calls of manager and sidecars |
| secret manager (`cmd/secret-manager`) | endpoint list, `defaultN`, `defaultK`; nothing of the secrets | StoreSecret (split, then StoreShare to each server in order), DeleteSecret (DeleteShare to each), ListSecrets (always empty) | HTTP in, one gRPC call at a time out |
| share fetcher (`pkg/client`) | a buffered channel of results, one goroutine per endpoint | FetchShares, its attempts, timeouts and pauses | GetShare of every server, in parallel |
| sidecar (`cmd/sidecar`) | the files it has written | load configuration, read token, fetch, combine and write each secret, exit code | fetcher, Shamir, the pod's emptyDir |
| secret sharing (`pkg/shamir`) | none | GF(256) arithmetic, Split, Combine | called by manager, sidecar, split-secret |
| sidecar configuration (`pkg/config/sidecar.go`) | none | LoadSidecarConfig, parsing of SECRETS, LoadTLSConfig | environment |
| server configuration (`pkg/config/server.go`) | none | LoadServerConfig | environment |
| authentication (`pkg/auth`, `pkg/transport/interceptors.go`) | the allowed callers | ValidateToken, ParseServiceAccountIdentity, the interceptor's decision | in front of the share server's handlers |
| TLS set-up (`pkg/transport/tls.go`) | none | reading of certificate files | gRPC |
| demo application (`examples/demo-app`) | the secrets read when it started | health, status, verify | files of the sidecar |
| tools (`cmd/split-secret`, `cmd/hash-secret`) | none | wrappers of Split and of a hash | command line |
| generated gRPC code (`proto`) | none | - | - |

What is hard in it, and what has to be right (each hazard is listed in
`PROJECT.json` with its line and the properties that cover it):

- **Manager and servers.** Every HTTP request is a goroutine of its own; nothing
  serialises two StoreSecret or DeleteSecret calls on one name. A call writes
  server after server without rollback, so failures, overlaps and deadlines leave
  mixtures of splits behind. A StoreShare whose caller has given up is still
  served. A restarted server is empty. *Correct* means: shares of one server never
  get to another, a successful store is on all servers and survives N-K of them, a
  delete is not undone by older calls, every call ends.
- **Fetcher.** The channel is read after `g.Wait()`, so its capacity decides
  between an answer and a deadlock; retries, pauses and the caller's cancellation
  race. *Correct* means: exactly K shares of distinct servers or an error, an error
  only when K shares are out of reach, in bounded time.
- **Pods.** A pod reads while calls are under way, with a threshold of its own.
  Combine cannot see that shares do not belong together. *Correct* means: what is
  read is what was stored, or the pod fails; a deleted secret is not read.
- **Handlers of one server.** Every request is a goroutine; one map and one RWMutex.
  A waiting writer keeps readers out, GracefulStop waits for everyone at work, a
  SIGTERM may come before `signal.Notify` and `Serve` may begin after the stop.
  *Correct* means: no access beside a write, every answer true of a moment between
  request and answer, a stop that comes to its end.
- **Who gets through.** Identities are split at colons and joined again, callers are
  trimmed, three methods skip the check, manager and sidecar do not agree on TLS.
  *Correct* means: GetShare is answered for the callers listed, name by name, and no
  others. The chart promises more (section 3).
- **Secret sharing.** Arithmetic in bytes, degrees and counts in bytes, x coordinates
  drawn at random. *Correct* means: any K parts, in any order, give the secret; one
  part says nothing; no panic at any size.
- **The sidecar's volume.** Secrets are written one by one, each file is created and
  then filled, with mode 0400 and not as root, on a volume that outlives the
  container. *Correct* means: when the application runs it has all its secrets,
  complete, and of what the servers held in the run it waited for; a run ends.
- **Demo application.** It reads the files once, under their base names. *Correct*
  means: it answers for every secret of the pod with its content.

## 2. Modules

    ShareMap <--- SecretManager <--- Hyena <--- MCHyena
                  SecretManager <--- MCSecretManager, SecretManager_proofs
                                     Hyena, SecretManager_proofs <--- Hyena_proofs
    ShareMap <.. ShareServer <--- MCShareServer, ShareServer_proofs
                 Access <--- ShareServer
    QuorumFetch <.. ShareFetcher <--- MCShareFetcher, ShareFetcher_proofs
    SidecarConfig, DemoApp <--- Pod <--- MCPod, Pod_proofs
    Shamir <--- MCShamir, Field_proofs <--- Poly_proofs <--- Shamir_proofs
    (<--- EXTENDS, <.. implements, INSTANCE ... WITH)

The modules meet at abstractions that one of them is shown to implement: the servers
of Hyena are ShareMap, which ShareServer implements; its pods fetch as QuorumFetch,
which ShareFetcher implements; that K shares of a split, and no fewer, give the secret
is what is checked and proved of the bytes in Shamir.

**ShareMap** is the abstract share server: `shares[s][n]`, `up[s]`, the three
handlers as atomic steps (each holds `s.mu`), and the process, which loses the map
when it exits. A share is `[split |-> o, idx |-> i]`, number i of the split made by
call o: its bytes are left out, what is kept is which split it is of and whether
two shares are the same one.

**SecretManager** adds the manager. A call `o` is an HTTP request:

| TLA+ | code |
|---|---|
| `job[o]`, `status[o]`, `cur[o]` | the request, the handler's progress and answer, the loop variable `i` |
| `rpc[o][s]` | the RPC to server s: out, run by the handler, or lost |
| `StoreSecret`, `DeleteSecret` | the start of `StoreSecret` (main.go:30) and `DeleteSecret` (main.go:120): defaults, Split, first RPC, or `StoreSecretRejected` when Split returns an error |
| `ServeStore`, `ServeDelete` | the share server's handlers, at any time after the RPC was sent, the caller's deadline included |
| `RpcDropped` | the request never reaches a handler |
| `RpcReturns` | the answer arrives: next server, or success after the last |
| `StoreFails` | any error of the current RPC: StoreSecret returns it at once (main.go:73-95), nothing is rolled back |
| `DeleteWarns` | any error: DeleteSecret logs it and goes on (main.go:128-149) |
| `ServerExits`, `ServerStarts` | the process; its map is lost |
| `ManagerRestarts` | a redeployment, with calls in progress and maybe another DEFAULT_K |

Because an error may be reported whether or not the handler ran, lost requests,
lost answers, timeouts and answers after the timeout are all behaviours of the
model. `undisturbed` and `crashed` are history variables for the properties; no
action's guard reads them.

**QuorumFetch** is what fetching promises: every endpoint settles once on a share
or on failure, then K shares are answered if there are as many, an error if not.
**ShareFetcher** is the code: `main` for the body of FetchShares, `pc`, `attempt`,
`result`, `clock` per goroutine, `chan` for `shareChan`. The loop over the closed channel
is `Receive`, one share of `shares` at a time, until `ReturnsShares` at the threshold or
`ReturnsError` at the end of the channel; `BackoffEnds` and `BackoffCancelled` are the two branches of
the select. `clock[e]` counts only the time of RPCs and pauses.

**Hyena** composes manager, servers and pods. A pod is the sidecar of one secret:
`wants[p]` its SECRETS entry and THRESHOLD, `outcome[p]` and `part[p]` what
FetchShares has at each server, `secret[p]` the file. FetchShares appears at the level
of QuorumFetch (each server settles at a moment of its own, on what it holds then),
which the run `fetcher` shows the code implements. `CombineResults` is what Combine
makes of a set of shares: an error, the data, or other bytes (`Garbage`) when the
shares do not determine them.

**ShareServer** is one server from the inside. `main` and `serve` are where `main()`
and the goroutine of `Serve` are, `pc[r]` where the goroutine of request r is,
`readers` and `writer` the RWMutex.

| TLA+ | code |
|---|---|
| `Listens`, `ServeBegins`, `NotifiesSignals`, `GracefulStop`, `ProcessStops` | main.go:107-165, in order; `StartupFails` is each `log.Fatalf` on the way |
| `ProcessKilled` | SIGKILL at any time, SIGTERM before `signal.Notify` |
| `Arrives` | the connection (TLS of both sides) and a new goroutine |
| `Intercepts` | `Unary` (interceptors.go:36), with `Decision` of module Access |
| `RLock`, `LockAnnounces`, `LockAcquires` | `s.mu.RLock()`, and `s.mu.Lock()` in its two steps: new readers are kept out, then those inside are waited for |
| `GetShare`, `StoreShare`, `DeleteShare`, `HealthCheck` | the rest of each handler, with the deferred unlock |

`held[r]` is history: what the map has held under the name of request r since it
arrived. `CallsTakeEffect` compares answers with it.

**Access** has no state: `LoadShareServerConfig`, `LoadServerTLSConfig`, the sidecar's
`LoadTLSConfig`, `ParseServiceAccountIdentity`, `ValidateToken` and the interceptor's
`Decision` as operators. An identity is the sequence of its pieces between colons,
because splitting and joining at colons is where it could go wrong.

**Shamir** has the code's arithmetic with every byte a number in 0..255 and every loop
a function of its index (`Loop` is given what each turn makes of each byte, and takes the
turns in blocks, as TLC's stack is too small for a recursion 255 deep); `% 256` is where Go's bytes wrap. A behaviour is one call
of `div`, or one of `Split` and then one of `Combine`. The reference it is compared with
(`FieldProduct`) multiplies sets of exponents, without the code's shifts.

**SidecarConfig** and **DemoApp** are operators again: what the sidecar makes of its
environment, and what the application loads and answers. A path is a sequence of
components with their lengths, because the sidecar finds the directory by cutting
characters off (main.go:100).

**Pod** runs them, over all secrets of the pod:

| TLA+ | code |
|---|---|
| `ConfigError`, `TokenReadError`, `Begins` | the sidecar's main.go:23-58 |
| `Settles(e)` | the goroutine of endpoint e: the share its server holds at that moment, or the error of its last attempt (fetcher.go:116-188) |
| `FetchError`, `CombineError`, `Combines` | fewer than Threshold shares; any Threshold of them, and what Combine makes of these (sidecar main.go:76-94) |
| `WriteError`, `Panics`, `Creates`, `Fills` | main.go:96-121; `Creates` and `Fills` are the two halves of `os.WriteFile` |
| `StoreSecret`, `StoreShare` | a call of the manager, and one turn of its loop: it may stop after any server, and nothing is rolled back (secret-manager main.go:30-99) |
| `DeleteShare`, `ServerRestarts` | one turn of a DeleteSecret, at any server; a server that forgets |
| `SidecarKilled`, `SidecarRestarts`, `SandboxRestarts`, `PodReplaced`, `AppStarts`, `AppExits` | Kubernetes |

`holds[s][n]` is the call whose share of n server s has, `files` the emptyDir, which outlives
containers and goes with the pod. What Combine gives (`CombineResults`) is the same as in
Hyena: an error, the data of a call, or `Garbage`. `during[n]` is history: what the servers have
held of n while this run of the sidecar went on.

## 3. Runs

All bounds are the constants of the cfg files; no variable is cut off by a state
constraint. Names, values, calls and pods are model values.

| run | instance | what it shows |
|---|---|---|
| `manager` | 3 servers, 2 calls, 1 name, K=2; 2.4M states | what two overlapping calls, failed or successful, leave on servers that crash: `AckedStoreReachedAllServers`, `SurvivesServerFailures`, `DeletedWhereServed`, `HalfKeepsASplit`, `AckedStoreIsFinal` |
| `fetcher` | 3 goroutines, K in {2,4}, MAX_RETRIES in {-1,2}, a caller that cancels; 0.4M states | `SendNeverBlocks`, `ReturnsThresholdShares`, `ErrorMeansExhausted`, `ReturnsInTime`, `Terminates`, and `ImplementsQuorumFetch` |
| `system` | 3 servers, 1 call, 1 pod, both thresholds in {2,3,4}; 2.1M states | `ReadsWhatWasStored` and `OneStoreNeverGarbage` for every pair of thresholds, with redeployments |
| `system_calls` | 2 servers, 2 calls, 1 pod; 1.6M states | `DeletedIsUnreadable` with a second call before, during or after; `HyenaIInv`, the inductive invariant of the system, which holds that of the manager, `IInv`, and `ReadsWhatWasStored` |
| `live` | 2 servers, 2 calls, 2 names; 0.5M states | `SharesInPlace`: overlapping calls on one name or on two mix up neither servers nor names; `EveryCallEnds`, whatever is lost and whoever stays down |
| `server` | 1 server, 3 requests, 2 names, 8 configurations, 10 tokens, 4 client transports; 0.3M states | `MapAccessIsExclusive`, `CallsTakeEffect`, `ImplementsShareMap`, `StopEnds`; `GetShareIsForAllowedCallers` |
| `shamir` | div for all divisors; splits of 1 and 2 bytes in sizes 1 to 4 with every selection of up to 4 parts, and 254 to 256 parts and thresholds | `DivisionUndoesMultiplication`, `DistinctPartsAreAccepted`, `AnyThresholdPartsRecover`, `OnePartTellsNothing`, `NeverPanics` |
| `pod` | 2 secrets, 2 servers, 2 StoreSecret calls, 11 environments, all faults; 0.2M states | `AppHasTheSecretsOfTheLastRun`, `AppServesEverySecret`, `DefaultPathsAreWritten`, `RefusalsAreExplained`, `RunsEnd` |

Why these bounds are enough to be of use: with 3 servers and K=2 one share is
dispensable, so a crash can be survived or not, half of the servers is not all of
them, and a call has a first, a middle and a last server. Two calls are what every
property relates; a third one adds interleavings of pairs. K=4 > N exercises
both rejections. MAX_RETRIES=2 has two pauses of different length; -1 is the value
nothing rejects. Three requests on one server are a writer inside, one announced and
a reader, or two readers and a writer. The environments of `pod` hold the chart's default
and each case of the parser and of output paths that behaves in a way of its own: a
blank entry, a name in a subdirectory, a hidden file, two files of one base name, one
path twice, a path outside the mount and shorter than its name, a server listed twice,
and what is rejected. Two calls tell an old secret from a new one, or are of two secrets, and a fetch
can have shares of both. That a call's threshold is above the one of the pod cannot happen with
two servers: there `AppHasTheSecretsOfTheLastRun` rests on its theorem, and `system` on its
three servers has every pair of thresholds. `div` is linear in
its first argument, so the powers of 2 stand for all dividends. `OnePartTellsNothing` is for
threshold 2: every byte value must have a coefficient that gives the same part. The
theorems of section 5 have no bounds.

Each passing property comes with a mutant in `PROJECT.json`: a plausible bug,
written next to the definition it changes (its comment begins with `Mutant:`),
under which TLC finds the property violated.

### Where the documents and the code differ

Four runs check a sentence of the repository and are refuted by the code:

| run | sentence | what happens |
|---|---|---|
| `delete_everywhere` | "DeleteSecret removes a secret from all share servers" (cmd/secret-manager/main.go:119) | it answers success with shares left on the servers it could not reach |
| `mismatch` | "Shares from different secret splits" end in "Failed to reconstruct secret" (charts/hyena/README.md:452-458) | two overlapping stores leave a mix of shares; Combine returns bytes, the application starts with them |
| `recovery` | "System recovered once enough servers became available" (docs/demo.md:168) | a server that restarted has lost its shares, so the pod fails although all servers answer |
| `pod_restart` | "Will crash until secrets stored" (QUICKSTART.md:103) | a sidecar that wrote one secret and failed on the next leaves a file of mode 0400; every later run in that pod exits 5 when it opens it, although all secrets are stored by then |

More sentences differ from the code in a way that needs no run:

- "gRPC with TLS support (optional)" (README.md:132; also docs/threat-model.md:128-131,
  charts/hyena/values.yaml:22-26): the manager dials without TLS always (secret-manager
  main.go:73), so a server that uses it turns every StoreShare of the manager away. Anybody
  else who connects with TLS may store there, as StoreShare needs no token.
- `"*:*" # Allow all (dev only!)` (charts/hyena/README.md:170): callers are compared literally
  (interceptors.go:74). It is the identity of one account, which no account has: all are denied.
- "Validates `iss`, `sub`, `exp`, `nbf` claims" (charts/hyena/README.md:379): only `sub` is looked
  at (validator.go:28-79), and an expired token gets shares.
- "Threshold mismatch" as a cause of "Failed to reconstruct secret"
  (charts/hyena/README.md:452-460): a pod with THRESHOLD 2 that reads a split made for 3 gets
  bytes from Combine, and its application starts with them, as in `mismatch`.
- "Limited by slowest of K servers" (docs/architecture.md:208): FetchShares waits for all N
  goroutines (fetcher.go:83).
- "Exponential backoff" (docs/architecture.md:200): the pauses are 1s, 2s, 3s (fetcher.go:124).

`GetShareIsForAllowedCallers` therefore says what the code does, and not what the chart says of it:
the callers listed literally, whatever else is in the token. Run `server` has a list with `*:*`
and a token that has expired.

## 4. Fairness

- `SecretManager!Fairness`: a waiting call gets an answer or an error. Every RPC
  runs under the 30s context of its request (main.go:243, 280), so gRPC returns in
  any case. The action under WF contains the error branches, which are always
  enabled while a call waits; nothing is assumed of servers or network.
- `ShareFetcher!Fairness`: the runtime schedules a runnable goroutine, an attempt ends
  by answer, error or `context.WithTimeout` (fetcher.go:147), a pause by its timer.
- `ShareServer!Fairness`: the goroutine of each request runs on, and main returns from
  GracefulStop when no request is left. None for arrivals, signals, or the start of
  `Serve`. A writer that waits gets the lock by weak fairness, because it has announced
  itself and no new reader gets in.
- `Pod!FairSpec`: the sidecar's next step is taken; it waits for nothing but FetchShares,
  which ends (`ShareFetcher!Terminates`). None for Kubernetes: that a container is
  restarted, or the application started, is never assumed. `RunsEnd` leaves out only
  behaviours that replace the pod without end.

## 5. Proofs

All proofs are for any number of servers, endpoints, requests, names, values, thresholds,
pods and concurrent calls. What they assume of the constants:

- `ShareMapAssumption`, `ShareServerAssumption`: N is a natural number, `NoShare` is no share.
- `ThresholdsAssumption`: thresholds are integers. `SecretsAssumption`: wrong bytes and "no
  secret" are told apart from stored values.
- `FetcherAssumption`: a threshold is at least 1 (the sidecar refuses one below 2,
  sidecar.go:125), the number of endpoints and the timeout are natural numbers. Retry
  limits are any integers, as nothing checks them.
- `EnvsAssumption`: `ALLOWED_CALLERS` is a list of identities. `SendsAssumption`: requests are
  of the service's four methods (share.proto:8-20) and about names, tokens have a form, a
  subject and a time, and a StoreShare has a share. Anybody who connects may send any of them.
- `PodAssumption`: paths are sequences of components of at least one character, endpoints
  are servers, `THRESHOLD` is a number, `Names` has the names the deployment asks for, the
  thresholds of StoreSecret calls are those Split accepts, and wrong bytes are told apart from
  those of a call.
- `ShamirAssumption`: secrets are byte sequences, sizes are pairs of integers, what `div`
  divides are bytes (`uint8`), and what `mathrand.Perm(255)` returns is a permutation of
  0..254.

`SecretManager_proofs`:

| theorem | statement |
|---|---|
| `TypeCorrect` | `Spec => []TypeOK` |
| `Invariance` | `Spec => []IInv` |
| `SharesAreInPlace` | a server only holds the share of its position, of a split made for the name |
| `AckedStoresReachAll` | a successful StoreSecret was served by all servers |
| `DeletedStaysDeleted` | what an undisturbed DeleteSecret reached stays deleted |
| `FaultTolerance` | a secret keeps K shares while at most N-K servers have restarted, for every N and K |
| `HalfKept` | after two stores of a name, one of them successful, half of the servers hold one of the two splits |
| `AckedStoresAreFinal` | the action property: no late share of a call that has answered success |

None of the safety properties is inductive by itself. That a call which answered
success was served everywhere needs that a StoreSecret was served by every server
*before* its position, and that nothing is out *beyond* it (`CallInOrder`). That the
shares of an undisturbed call stay needs that no other call on its name can still
reach a server, and what each served server holds now: the share, or nothing after a
restart (`UndisturbedCall`). `IInv` is the conjunction of the types, `CallsInOrder`,
`SharesInPlace` and `UndisturbedCalls`. Each part has a step lemma, one case per
action; the cases that share an argument (begin a call, advance it, serve an RPC) are
lemmas: `OrderBegin`, `OrderAdvance`, `OrderServed`, `InPlaceKept`, `UndisturbedKept`,
`UndisturbedBegin`, `UndisturbedServed`. `FaultTolerance` adds the counting: the servers
outside `crashed[o]` are among the holders, and `FS_Difference` gives their number.
`HalfKept` needs a second invariant on top of `IInv`: `StoredIsThere`, that a server which
served a store holds *some* share of the name unless it exited or the name was deleted. With
`SharesInPlace` that share is of one of the two calls, so the holders of the two splits
cover all servers, and one of the two sets has at least half of them.

`Hyena_proofs`:

| theorem | statement |
|---|---|
| `SystemImplementsManager` | `HyenaSpec => Spec`: pods leave manager and servers alone |
| `SystemInvariance` | `HyenaSpec => []HyenaIInv` |
| `HyenaTypeCorrect` | `HyenaSpec => []HyenaTypeOK` |
| `PodsReadWhatWasStored` | a pod gets what was stored, or more than N-K servers restarted or were out of reach |
| `OneStoreIsNeverGarbage` | a name stored once, under its readers' threshold, never gives wrong bytes |
| `DeletedSecretsAreUnreadable` | a secret deleted on more than N-K servers is not read any more |

`SystemImplementsManager` carries `IInv` over. On top of it `HyenaIInv` says where the
shares a pod holds come from (`PartsExplained`) and what it got of an undisturbed call
that had answered before it started (`FetchedOf`): of a StoreSecret its share unless the
server restarted, of a DeleteSecret none. A pod reads at several moments, so this has to
survive every step of manager and servers in between: `CallsKept` says what they keep of
a call that has begun, and `UntouchedExplained` is that a pod which does nothing keeps
its explanation. At the end `CombineRight` and `TooFewExplained` turn it into the result
of the read, again by counting servers (`OthersOf`).

`ShareServer_proofs`, for any number of requests, names, splits and configurations:

| theorem | statement |
|---|---|
| `ServerInvariance` | `Spec => []ServerInv` |
| `ServerTypeCorrect` | `Spec => []TypeOK` |
| `AccessIsExclusive` | no handler is in the map while another one writes it |
| `EveryCallTakesEffect` | what a request is answered was true of the map between its arrival and its answer |
| `ServerImplementsShareMap` | `Spec => ImplementsShareMap`: the refinement |

`MapAccessIsExclusive` says nothing of a writer that has announced itself, and so is not
inductive: `LockOrder` says that such a writer is the one in `writer`, that a reader inside
is in `readers`, and that a writer inside is alone. `CallsTakeEffect` is about answered
requests; `HeldNoted` carries it through the time before, when what the map holds
now is in `held[r]` of every request at work. For the refinement, a store or a delete
must happen while the process is there: `NoProcessNoWork`, which is inductive on top of
the types. `StepImplements` then maps every step to one of ShareMap (`DiesAbstract`,
`StartsAbstract`, `WritesAbstract`) or to none (`Unseen`).

| theorem | statement |
|---|---|
| `OnlyAllowedCallersGetShares` | GetShare is answered for the callers on the list, with a token of theirs, and for no others |

It rests on `AccessInv` and needs nothing of the lock. `DecisionStands` carries the
interceptor's decision from the moment it is made to the answer, through waiting for
the lock; `ServesConfigured` says that the configuration it is made with has been loaded, which
a request that arrives relies on. The rest is about operators: `SubjectParts` and
`IdentityParts` say when cutting a subject or a caller at its colons gives back the same
pieces, `DecisionForCallers` puts them together.

`ShareFetcher_proofs`, for any number of endpoints, retry limit, timeout and threshold:

| theorem | statement |
|---|---|
| `Typing` | `Spec => []TypeOK` |
| `NeverBlocks` | the channel has room for what is sent: no goroutine and `g.Wait()` wait for each other |
| `ExactlyThreshold` | success is K shares of K distinct endpoints that answered |
| `NoEarlyError` | an error means that more endpoints than can be missed have failed, each after its last attempt |
| `BoundedTime` | a goroutine takes at most its attempts' timeouts and the pauses between |
| `FetchImplementsQuorum` | `Spec => ImplementsQuorumFetch`: the refinement |

The heart of `FetcherInv` is `OnceInChannel`: the result of an ended goroutine is in the
channel or was received from it, once, and a result in either place belongs to an ended
goroutine. An injective sequence is as long as its set of elements (`DistinctCount`), so
the channel with the goroutine about to send holds at most E results, which is
`NeverBlocks`, and K received shares are of K endpoints. `Collected` ties what was received to
the answer, `FailuresExhausted` says that a failed endpoint was not given up before its last
attempt unless the caller cancelled. `Clocks` is a separate invariant: the bound at each place
of the loop, with the sum of the pauses written out (`Spent`). For the refinement a goroutine's
result must be settled by exactly one step (`ResultsSettle`), and the answer QuorumFetch gives,
by counting shares, must be the one the loop over the channel arrives at.

`Pod_proofs`, for any environment, number of secrets and servers, and any faults:

| theorem | statement |
|---|---|
| `PodInvariance` | `Spec => []PodInv` |
| `PodTypeCorrect` | `Spec => []TypeOK` |
| `AppHasItsSecrets` | a running application has all its secrets, complete, of what servers held in the sidecar's last run; wrong bytes only if that was of several calls, or of one made for more shares |
| `AppAnswersForItsSecrets` | it answers for each with its content, if base names differ and are not hidden |
| `RefusalsHaveACause` | Combine refuses only when an endpoint is listed twice, or servers held shares of several calls in this run |
| `DefaultPathsCanBeWritten` | on a new volume, plain names at default paths never end in exit code 2 or 5 |

That the application has its secrets is a promise about the end of a run; `FilesOK` says how
far the run is: what precedes `todo` is complete (`Complete`), with what servers held *during
this run* or with other bytes for one of the two reasons (`Explained`), and the file being
filled is empty. Explanations only grow while a run lasts (`StillExplained`), and what
Combine makes of shares the run has met has one (`CombinedOK`). A step that writes a file
must not undo another one's: two entries of one path would, and they are why a file has mode
0400 and cannot be opened again (`VolumeOK`, `Writable`). `AppOK` says that an application has
loaded what is on the volume now, as nothing is written while it runs. `StoreOK` is about the
servers: what they hold is of a call there was, and until the run ends it is in `during`.

`DefaultPathsCanBeWritten` adds `FirstRunOK`: in its first run the sidecar finds only files
it made itself, of names before the current one, so no path is taken. It also has to
show that cutting the name's length off the path gives the mount (`DirOfDefaultPath`), which is
about the recursive functions `PathLength` and `FirstChars`. Their recursion equations are
facts to be proved: a function that satisfies them up to n exists and is unique
(`UpToExists`, `UpToAgrees`), by induction on n. The induction rule of the library takes
a predicate and cannot be used here; `InductionOnSet` states it for a *set* of numbers,
from the least number outside the set (`LeastNumber`).

`Field_proofs`, `Poly_proofs` and `Shamir_proofs`, for any secret, size, permutation, random
bytes and choice of parts:

| theorem | statement |
|---|---|
| `BytesAreTheField` | `add`, `mult` and `inverse` are a field on 0..255, and `mult` is the product of polynomials over GF(2) modulo x^8 + x^4 + x^3 + x + 1 |
| `DivisionIsOfTheField` | what `div` returns, multiplied by the divisor in that field, is the dividend |
| `InterpolationRecovers` | interpolating at 0 enough values of a polynomial gives its first coefficient |
| `NothingPanics` | neither Split nor Combine panics |
| `DifferentPartsAccepted` | two or more parts of one split are accepted, in any order, unless one is there twice |
| `ThresholdPartsRecover` | K or more different parts, in any order, give the secret back |
| `OnePartFitsEverySecret` | with a threshold of 2, one part fits every secret |
| `FewerPartsAreNoHelp` | for every threshold, fewer parts fit every secret, and with one part missing each secret is made by exactly one filling of random bytes |

*The field.* TLC evaluates products; the provers have to find reasons. A byte is the sum of
its bits (`SameBits`, from the eight unrolled steps of `add`), so two functions that are
additive and agree on the powers of 2 agree on all bytes. `mult` is additive in each
argument, as every turn of its loop is, and multiplying by 2 is one turn; this gives
commutativity and associativity from the products of the eight powers. `inverse`
computes a^254 by squaring: squaring is additive (Frobenius), hence it need only be known
at the powers of 2 that squaring eight times is the identity (`EighthSquareFixes`). Then
a * inverse(a) is its own square and, for a other than 0, not 0: it is 1, the only such byte
(`OwnSquare`). `FieldProduct`, the definition by sets of
exponents, is additive too, because the parity of a number of pairs is (`OddSymDiff`), and
so is reduction; it agrees with `mult` at the powers (`FieldProductIsMult`).

*Polynomials.* What a loop of the code computes is a sequence of turns (`IsLoop`, `LoopIs`
takes the blocks apart). A map of bytes is in space P[k] when it is made from a map in
P[k-1] by x -> c + x * f(x), one turn of Horner's rule (`EvaluateInSpace`). A map in P[k] with k
different roots is 0 everywhere (`RootsMakeZero`), because a root can be divided off
(`RootFactor`): an induction over the spaces, with a set in the place of the formula
(`InductionInSet`). `interpolateAt` is in such a space, as a sum of products of terms linear in
x (`SumInSpace`), and agrees with the polynomial at all samples, so also at 0
(`InterpolationRecovers`). It also shows that through K points there is a polynomial with
K coefficients (`ThroughPoints`); no other one has these values, as the coefficients can be
told from them one by one (`OnlyOneThrough`). Hence `FewerPartsAreNoHelp`: m < K parts and
the value v at 0 are at most K points, and the code draws every coefficient but the first
freely. The theorem states `FewerPartsTellNothing`, which no run checks: TLC would have
to try all fillings for all secrets. What it says of likelihood rests on `rand.Read` giving
every filling with equal chance.

*Split and Combine.* `ShamirInv` says that parts are good (`GoodParts`: an x of its own for every
part, never 0, and one length) and are the values of polynomials with K coefficients that
start with the secret's bytes (`OfPolynomials`). The first rests on `XsDiffer`: a permutation
draws no number twice, since a function onto a set as large as its domain is injective,
and adding 1 below 255 does not wrap.

Every safety property, action property and refinement that a passing run checks is
stated by a theorem. Liveness (`EveryCallEnds`, `Terminates`, `StopEnds`,
`RunsEnd`) needs ENABLED, which is out of the provers' reach, and is checked only. What these
properties rest on besides fairness is proved, for every value of the constants, in the
last section of each proof module: that there are only so many steps and, for the fetcher and
the server, that there is always one.

| theorem | statement |
|---|---|
| `ShareFetcher_proofs`: `EveryStepCounts` | each step brings FetchShares, a goroutine or the caller nearer to its end, and none away from it |
| `ShareFetcher_proofs`: `NeverStuck` | until FetchShares has returned, it or a goroutine has something to do |
| `ShareServer_proofs`: `NoHandlerDeadlock` | of the requests at work, one can go on, whoever has `s.mu` and whoever waits for it |
| `ShareServer_proofs`: `StoppingIsBounded` | a stopping server accepts nothing, and each step takes a request on |
| `SecretManager_proofs`: `CallsAreBounded` | a call sends at most N RPCs |
| `Pod_proofs`: `RunsAreBounded` | a run of the sidecar takes at most one step for each endpoint and 3 more, for each secret, and one to begin |

The bounds are measures (`GoLeft`, `Place`, `CallLeft`, `RunLeft`) that no step makes larger.
`CanGoOn` writes out the guards of the next steps, in the place of ENABLED. In
`NoHandlerDeadlock` the one that can go on is a reader inside, or else the writer that has
announced itself, or else anybody: `WorkInv` says that who has `s.mu` is at work. It
also says that Serve is over when the server stops.

A leaf that takes the provers more than a second or so names its backend and a longer
limit (`SMTT(30)`, `ZenonT(30)`), so that the proofs also go through on a slower machine.

## 6. What is abstracted

- Bytes, outside of Shamir. A share is its split and number, a secret a model value. x
  coordinates are drawn at random by each split; two shares of *different* splits may or
  may not have equal ones, which `CombineResults` leaves open.
- Randomness. In Shamir what `rand.Read` fills in is one of three byte sequences and
  what `mathrand.Perm` returns one of three permutations, which put the largest and the
  smallest x in front. Nothing is said of how likely a value is.
- Authentication and TLS in the protocol modules: a refused call is one more error.
  In Access, base64 and JSON are the form of a token, and the certificates of a
  server are private, public or unreadable.
- HTTP decoding and wording of answers. `ListSecrets` and the health handlers have no
  state.
- Mutual exclusion inside a server, in the protocol modules: each handler is one
  step, which `ServerImplementsShareMap` justifies.
- Hyena has one secret per pod and whole calls of the manager, RPC by RPC; Pod has the loop
  over several secrets and of the calls what they leave on the servers. There a DeleteSecret
  is its DeleteShares, in any order and any number. Both take FetchShares at the level of
  QuorumFetch.
- Who stores. StoreShare and DeleteShare need no token (interceptors.go:43-48), and
  ShareServer lets anybody send them; in SecretManager, Hyena and Pod only the manager does,
  and their properties are about deployments where this is so.
- The volume of Pod: all directories but the mount are writable for root only, the
  sidecar is not root (`USER` in cmd/sidecar/Dockerfile:28), and a file of mode 0400
  cannot be opened for writing. Links, sizes and a full disk are left out.
- Numbers of the environment come parsed.
- `SHARE_SERVER_ENDPOINTS` of the manager: its value is not used, the endpoints are
  computed from DEFAULT_N (main.go:168-179), hence N is one constant for all.

### Not modelled

- Code that nothing calls: the stream interceptor (the service has no streaming method),
  `ValidateTokenFromFile`, `LoadClientTLSConfig`, the client's `HealthCheck`.
- `cmd/split-secret` and `cmd/hash-secret`: sequential wrappers of Split and of a hash.
- `proto`: generated code.
- Templates of the chart, scripts and CI.
