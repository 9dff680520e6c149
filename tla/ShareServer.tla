---------------------------- MODULE ShareServer -----------------------------
(***************************************************************************)
(* One share server (cmd/share-server): its process from start to stop,    *)
(* and the requests it serves, each in a goroutine of its own that takes   *)
(* the interceptor's decision, then s.mu, then touches the map.            *)
(*                                                                         *)
(* A request is the record of its method, the secret's name, the share of  *)
(* a StoreShare, the values of its authorization header, and the transport *)
(* credentials of its sender.                                              *)
(***************************************************************************)
EXTENDS Access, FiniteSets

CONSTANTS
    Envs,      \* environments the process may be deployed with
    Requests,  \* gRPC requests, each sent once
    Sends,     \* Sends[r]: what request r may be
    Names,     \* secret names
    Splits,    \* splits whose shares are stored here
    NoShare    \* the map has no entry

Share == [split : Splits, idx : {1}]

ASSUME ShareServerAssumption == NoShare \notin Share

ASSUME EnvsAssumption ==
    \A e \in Envs : e.callers \in Seq([id : Seq(STRING), blanks : BOOLEAN])

\* The methods of the service.  StoreShare and DeleteShare need no token, so who
\* connects may call them: besides the manager anybody else.
ASSUME SendsAssumption ==
    \A r \in Requests : \A m \in Sends[r] :
        /\ m.method \in {"GetShare", "StoreShare", "DeleteShare", "HealthCheck"}
        /\ m.name \in Names
        /\ m.tokens \in Seq([form : STRING, sub : Seq(STRING), expired : BOOLEAN])
        /\ m.method = "StoreShare" => m.share \in Share

VARIABLES
    env,       \* the environment of the process
    main,      \* where main is; "down" when there is no process
    serve,     \* grpcServer.Serve: "no", or "yes" while it accepts
    map,       \* s.shares
    readers,   \* requests that hold s.mu for reading
    writer,    \* the requests, one at most, that called s.mu.Lock and have not unlocked
    pc,        \* pc[r]: where request r is
    req,       \* req[r]: the request
    answer,    \* answer[r]: what its sender is told
    got,       \* got[r]: the share in the answer, if there is one
    held       \* history, held[r]: what the map has held of its name so far

serverVars == <<env, main, serve>>
muVars     == <<readers, writer>>
vars       == <<serverVars, map, muVars, pc, req, answer, got, held>>

\* Mutant: the map is declared, but not made.
EmptyNil == NoShare

Empty   == [n \in Names |-> NoShare]
Started == CHOOSE c \in Config(env) : TRUE
Nothing == [method |-> "none", name |-> CHOOSE n \in Names : TRUE]

\* Requests a handler or the interceptor is at work on.
Open == {r \in Requests : pc[r] \in {"accepted", "handler", "locking", "locked"}}

TypeOK ==
    /\ env \in Envs
    /\ main \in {"loading", "listening", "waiting", "stopping", "down"}
    /\ serve \in {"no", "yes"}
    /\ map \in [Names -> Share \cup {NoShare}]
    /\ readers \in SUBSET Requests /\ writer \in SUBSET Requests
    /\ pc \in [Requests ->
          {"unsent", "accepted", "handler", "locking", "locked", "answered", "lost"}]
    /\ \A r \in Requests : IF pc[r] = "unsent" THEN req[r] = Nothing ELSE req[r] \in Sends[r]
    /\ answer \in [Requests -> {"none", "share", "not found", "success", "not connected",
                               "Unauthenticated", "PermissionDenied"}]
    /\ got \in [Requests -> Share \cup {NoShare}]

Init ==
    /\ env \in Envs
    /\ main = "loading" /\ serve = "no"
    /\ map = Empty
    /\ readers = {} /\ writer = {}
    /\ pc = [r \in Requests |-> "unsent"]
    /\ req = [r \in Requests |-> Nothing]
    /\ answer = [r \in Requests |-> "none"]
    /\ got = [r \in Requests |-> NoShare]
    /\ held = [r \in Requests |-> {}]

-----------------------------------------------------------------------------
(* The process.                                                            *)

\* The process is gone, and with it the map and every request it was at work on.
Dies ==
    /\ main' = "down" /\ serve' = "no"
    /\ map' = Empty
    /\ readers' = {} /\ writer' = {}
    /\ pc' = [r \in Requests |-> IF r \in Open THEN "lost" ELSE pc[r]]
    /\ UNCHANGED <<env, req, answer, got, held>>

ProcessStarts ==
    /\ main = "down"
    /\ main' = "loading"
    /\ UNCHANGED <<env, serve, map, muVars, pc, req, answer, got, held>>

\* main is listening and has started the goroutine of Serve.
Listens ==
    /\ main = "loading"
    /\ Config(env) # {}
    /\ main' = "listening"
    /\ UNCHANGED <<env, serve, map, muVars, pc, req, answer, got, held>>

\* log.Fatalf: no configuration, no TLS files, or the port is taken.
StartupFails == main = "loading" /\ Dies

ServeBegins ==
    /\ main \in {"listening", "waiting"}
    /\ serve = "no"
    /\ serve' = "yes"
    /\ UNCHANGED <<env, main, map, muVars, pc, req, answer, got, held>>

NotifiesSignals ==
    /\ main = "listening"
    /\ main' = "waiting"
    /\ UNCHANGED <<env, serve, map, muVars, pc, req, answer, got, held>>

\* From here on no request is accepted; those at work go on.
GracefulStop ==
    /\ main = "waiting"
    /\ main' = "stopping"
    /\ serve' = "no"
    /\ UNCHANGED <<env, map, muVars, pc, req, answer, got, held>>

\* GracefulStop returns, and main with it; or Serve, if it only begins now,
\* returns ErrServerStopped and the process ends by log.Fatalf.
ProcessStops == main = "stopping" /\ Open = {} /\ Dies

\* SIGKILL, out of memory, or a SIGTERM before main asked to be notified.
ProcessKilled == main # "down" /\ Dies

-----------------------------------------------------------------------------
(* A request.                                                              *)

Arrives(r, m) ==
    /\ pc[r] = "unsent" /\ serve = "yes"
    /\ req' = [req EXCEPT ![r] = m]
    /\ IF Connects(m.transport, Started.transport)
         THEN /\ pc' = [pc EXCEPT ![r] = "accepted"]
              /\ held' = [held EXCEPT ![r] = {map[m.name]}]
              /\ UNCHANGED answer
         ELSE /\ pc' = [pc EXCEPT ![r] = "answered"]
              /\ answer' = [answer EXCEPT ![r] = "not connected"]
              /\ UNCHANGED held
    /\ UNCHANGED <<serverVars, map, muVars, got>>

Intercepts(r) ==
    LET decision == Decision(Started, req[r].method, req[r].tokens)
    IN  /\ pc[r] = "accepted"
        /\ IF decision = "handler"
             THEN pc' = [pc EXCEPT ![r] = "handler"] /\ UNCHANGED answer
             ELSE /\ pc' = [pc EXCEPT ![r] = "answered"]
                  /\ answer' = [answer EXCEPT ![r] = decision]
        /\ UNCHANGED <<serverVars, map, muVars, req, got, held>>

\* Mutant: StoreShare takes the lock for reading.
ReadsOnlyExceptDelete(r) == req[r].method # "DeleteShare"

ReadsOnly(r) == req[r].method = "GetShare"

\* s.mu.RLock: a reader waits for the writer, the waiting one included.
RLock(r) ==
    /\ pc[r] = "handler" /\ req[r].method # "HealthCheck"
    /\ ReadsOnly(r)
    /\ writer = {}
    /\ readers' = readers \cup {r}
    /\ pc' = [pc EXCEPT ![r] = "locked"]
    /\ UNCHANGED <<serverVars, map, writer, req, answer, got, held>>

\* s.mu.Lock: one writer at a time, which first keeps new readers out and then
\* waits for those that are in.
LockAnnounces(r) ==
    /\ pc[r] = "handler" /\ req[r].method # "HealthCheck"
    /\ ~ReadsOnly(r)
    /\ writer = {}
    /\ writer' = {r}
    /\ pc' = [pc EXCEPT ![r] = "locking"]
    /\ UNCHANGED <<serverVars, map, readers, req, answer, got, held>>

LockAcquires(r) ==
    /\ pc[r] = "locking"
    /\ readers = {}
    /\ pc' = [pc EXCEPT ![r] = "locked"]
    /\ UNCHANGED <<serverVars, map, muVars, req, answer, got, held>>

\* The deferred unlock, and the answer.
Returns(r, a) ==
    /\ pc' = [pc EXCEPT ![r] = "answered"]
    /\ answer' = [answer EXCEPT ![r] = a]
    /\ readers' = readers \ {r}
    /\ writer' = writer \ {r}
    /\ UNCHANGED <<serverVars, req>>

Handles(r, method) == pc[r] = "locked" /\ req[r].method = method

Finds(n) == IF map[n] = NoShare THEN "not found" ELSE "share"

\* Mutant: the unlock is not deferred, and the path of the error has none.
GetShareLeaks(r) ==
    /\ Handles(r, "GetShare")
    /\ pc' = [pc EXCEPT ![r] = "answered"]
    /\ answer' = [answer EXCEPT ![r] = Finds(req[r].name)]
    /\ got' = [got EXCEPT ![r] = map[req[r].name]]
    /\ readers' = IF map[req[r].name] = NoShare THEN readers ELSE readers \ {r}
    /\ UNCHANGED <<serverVars, writer, req, map, held>>

GetShare(r) ==
    /\ Handles(r, "GetShare")
    /\ Returns(r, Finds(req[r].name))
    /\ got' = [got EXCEPT ![r] = map[req[r].name]]
    /\ UNCHANGED <<map, held>>

Holds(n, sh) ==
    /\ map' = [map EXCEPT ![n] = sh]
    /\ held' = [q \in Requests |->
           IF q \in Open /\ req[q].name = n THEN held[q] \cup {sh} ELSE held[q]]

\* Mutant: a share that is there is kept.
StoreShareOnce(r) ==
    /\ Handles(r, "StoreShare")
    /\ Holds(req[r].name, IF map[req[r].name] = NoShare THEN req[r].share ELSE map[req[r].name])
    /\ Returns(r, "success")
    /\ UNCHANGED got

StoreShare(r) ==
    /\ Handles(r, "StoreShare")
    /\ Holds(req[r].name, req[r].share)
    /\ Returns(r, "success")
    /\ UNCHANGED got

\* Mutant: the whole map goes.
DeleteShareAll(r) ==
    /\ Handles(r, "DeleteShare")
    /\ map' = Empty
    /\ held' = [q \in Requests |-> IF q \in Open THEN held[q] \cup {NoShare} ELSE held[q]]
    /\ Returns(r, "success")
    /\ UNCHANGED got

DeleteShare(r) ==
    /\ Handles(r, "DeleteShare")
    /\ Holds(req[r].name, NoShare)
    /\ Returns(r, "success")
    /\ UNCHANGED got

HealthCheck(r) ==
    /\ pc[r] = "handler" /\ req[r].method = "HealthCheck"
    /\ Returns(r, "success")
    /\ UNCHANGED <<map, got, held>>

Handler(r) ==
    \/ Intercepts(r)
    \/ RLock(r) \/ LockAnnounces(r) \/ LockAcquires(r)
    \/ GetShare(r) \/ StoreShare(r) \/ DeleteShare(r) \/ HealthCheck(r)

Next ==
    \/ ProcessStarts \/ Listens \/ StartupFails
    \/ ServeBegins \/ NotifiesSignals
    \/ GracefulStop \/ ProcessStops \/ ProcessKilled
    \/ \E r \in Requests :
          \/ \E m \in Sends[r] : Arrives(r, m)
          \/ Intercepts(r)
          \/ RLock(r) \/ LockAnnounces(r) \/ LockAcquires(r)
          \/ GetShare(r) \/ StoreShare(r) \/ DeleteShare(r) \/ HealthCheck(r)

Spec == Init /\ [][Next]_vars

\* The runtime runs the goroutines of the requests, and main.
Fairness ==
    /\ \A r \in Requests : WF_vars(Handler(r))
    /\ WF_vars(ProcessStops)

FairSpec == Spec /\ Fairness

-----------------------------------------------------------------------------
(* Properties.                                                             *)

\* The map is never written while another handler is in it: what s.mu is for
\* (main.go:31-80).  Go ends the process on a map written concurrently.
MapAccessIsExclusive ==
    \A r, q \in Requests :
        pc[r] = "locked" /\ pc[q] = "locked" /\ r # q =>
            req[r].method = "GetShare" /\ req[q].method = "GetShare"

\* A request takes effect between its arrival and its answer, whatever the
\* others do meanwhile.  At a moment in between the map held the share that
\* GetShare returns, or none if it found none; the share that StoreShare says it
\* stored; and no share, once DeleteShare says so (main.go:31-80).
CallsTakeEffect ==
    \A r \in Requests : pc[r] = "answered" =>
        /\ answer[r] \in {"share", "not found"} => got[r] \in held[r]
        /\ answer[r] = "success" /\ req[r].method = "StoreShare" => req[r].share \in held[r]
        /\ answer[r] = "success" /\ req[r].method = "DeleteShare" => NoShare \in held[r]

\* The callers of ALLOWED_CALLERS, and no others, get an answer of GetShare: a
\* token does for a caller if its subject is the caller's identity behind
\* system:serviceaccount, piece by piece (server.go:47-50, claims.go:22-54,
\* interceptors.go:36-88).  So *:* in the list is one account's identity, and allows
\* nobody, and a token does after it has expired: charts/hyena/README.md:170 and 379
\* say otherwise.
IsTokenOf(caller, tokens) ==
    /\ Len(caller) >= 2 /\ caller[1] # "" /\ Tail(caller) # <<"">>
    /\ tokens # <<>>
    /\ tokens[1].form = "JSON"
    /\ tokens[1].sub = <<"system", "serviceaccount">> \o caller

GetShareIsForAllowedCallers ==
    \A r \in Requests :
        /\ pc[r] = "answered" /\ answer[r] # "not connected"
        /\ req[r].method = "GetShare"
        => ( answer[r] \in {"share", "not found"} <=>
                /\ env.DEV_MODE \in {"", "true", "1", "yes"}
                /\ \E i \in DOMAIN env.callers : IsTokenOf(env.callers[i].id, req[r].tokens) )

\* The map of the server is the one ShareMap promises, across all of its life.
Abstract == INSTANCE ShareMap WITH
                N <- 1, Ops <- Splits,
                shares <- [s \in {1} |-> map], up <- [s \in {1} |-> main # "down"]

ImplementsShareMap == Abstract!MapSpec

\* A server that has been asked to stop does stop: every request in work gets
\* its lock, its answer and ends (main.go:163-165).
StopEnds == main = "stopping" ~> main = "down"
=============================================================================
