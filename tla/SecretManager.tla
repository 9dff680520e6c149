--------------------------- MODULE SecretManager ----------------------------
(***************************************************************************)
(* The secret manager (cmd/secret-manager) writing to the share servers.   *)
(*                                                                         *)
(* /store and /delete run one goroutine per HTTP request, so any number of *)
(* StoreSecret and DeleteSecret calls interleave.  Each walks the endpoint *)
(* list in order and waits for one RPC at a time.  An RPC may reach its    *)
(* server late, even after the caller's 30s deadline gave it up: the       *)
(* handler never looks at its context.  Its answer may be lost, the server *)
(* may be down or restart empty, and the manager may be redeployed with    *)
(* calls in progress and another default threshold.                        *)
(***************************************************************************)
EXTENDS ShareMap

CONSTANTS
    Values,       \* non-empty secret data
    Thresholds,   \* the values DEFAULT_K is deployed with
    NoJob

ASSUME ThresholdsAssumption == Thresholds \subseteq Int

VARIABLES
    defaultK,     \* s.defaultK of the running manager
    job,          \* job[o]: the request call o serves
    status,       \* status[o]: how far call o is, and what it answered
    cur,          \* cur[o]: position of call o in the endpoint list
    rpc,          \* rpc[o][s]: the RPC of call o to server s
    (* History variables: no action reads them.                            *)
    undisturbed,  \* undisturbed[o]: see Begin
    crashed       \* crashed[o]: servers whose process exited since o began

callVars == <<defaultK, job, status, cur, rpc>>
histVars == <<undisturbed, crashed>>
vars == <<mapVars, callVars, histVars>>

Job == [kind : {"store"}, name : Names, data : Values, k : Thresholds]
       \cup [kind : {"delete"}, name : Names]

\* "error" also stands for no answer at all: the manager exited.
Status == {"idle", "wait", "ok", "error"}
Rpc    == {"none", "sent", "served", "lost"}

TypeOK ==
    /\ MapTypeOK
    /\ defaultK \in Thresholds
    /\ job \in [Ops -> Job \cup {NoJob}]
    /\ status \in [Ops -> Status]
    /\ cur \in [Ops -> 1..(N + 1)]
    /\ rpc \in [Ops -> [Servers -> Rpc]]
    /\ undisturbed \in [Ops -> BOOLEAN]
    /\ crashed \in [Ops -> SUBSET Servers]

Init ==
    /\ MapInit
    /\ defaultK \in Thresholds
    /\ job = [o \in Ops |-> NoJob]
    /\ status = [o \in Ops |-> "idle"]
    /\ cur = [o \in Ops |-> 1]
    /\ rpc = [o \in Ops |-> [s \in Servers |-> "none"]]
    /\ undisturbed = [o \in Ops |-> FALSE]
    /\ crashed = [o \in Ops |-> {}]

-----------------------------------------------------------------------------
OnName(o, n)  == status[o] # "idle" /\ job[o].name = n
IsStore(o)    == status[o] # "idle" /\ job[o].kind = "store"
IsDelete(o)   == status[o] # "idle" /\ job[o].kind = "delete"

\* Mutant: shares[i] taken with the loop's index off by one.
ShareForOffByOne(o, s) == [split |-> o, idx |-> IF s = 1 THEN 1 ELSE s - 1]

\* The loop sends shares[i] to endpoint i.
ShareFor(o, s) == [split |-> o, idx |-> s]

\* Call o can still change what some server holds.
Active(o) == status[o] = "wait" \/ \E s \in Servers : rpc[o][s] = "sent"

\* The checks of StoreSecret (n is len(endpoints), so only k can fail) and of
\* shamir.Split.
SplitAccepts(k) == k <= N /\ N <= 255 /\ k >= 2

\* The loop over the endpoints: call server s, or answer success after the last.
Call(o, s) ==
    /\ cur' = [cur EXCEPT ![o] = s]
    /\ status' = [status EXCEPT ![o] = IF s \in Servers THEN "wait" ELSE "ok"]
    /\ rpc' = IF s \in Servers THEN [rpc EXCEPT ![o][s] = "sent"] ELSE rpc

\* A call is undisturbed while it is the last one begun on its name and no
\* earlier one could still change a server when it began.
Begin(o, j) ==
    /\ status[o] = "idle"
    /\ job' = [job EXCEPT ![o] = j]
    /\ undisturbed' = [p \in Ops |->
           IF p = o THEN \A q \in Ops : OnName(q, j.name) => ~Active(q)
                    ELSE undisturbed[p] /\ ~OnName(p, j.name)]
    /\ UNCHANGED <<mapVars, defaultK, crashed>>

\* Split gives the shares, and the loop begins.
StoreSecretSplits(o, n, v) ==
    /\ Begin(o, [kind |-> "store", name |-> n, data |-> v, k |-> defaultK])
    /\ Call(o, 1)

\* A threshold Split rejects: no server is called.
StoreSecretRejected(o, n, v) ==
    /\ status[o] = "idle"
    /\ job' = [job EXCEPT ![o] =
                  [kind |-> "store", name |-> n, data |-> v, k |-> defaultK]]
    /\ status' = [status EXCEPT ![o] = "error"]
    /\ UNCHANGED <<mapVars, defaultK, cur, rpc, histVars>>

StoreSecret(o, n, v) ==
    IF SplitAccepts(defaultK)
      THEN StoreSecretSplits(o, n, v)
      ELSE StoreSecretRejected(o, n, v)

DeleteSecret(o, n) ==
    /\ Begin(o, [kind |-> "delete", name |-> n])
    /\ Call(o, 1)

-----------------------------------------------------------------------------
(* The servers' side of an RPC.                                            *)

Served(o, s) ==
    /\ rpc[o][s] = "sent"
    /\ rpc' = [rpc EXCEPT ![o][s] = "served"]
    /\ UNCHANGED <<defaultK, job, status, cur, histVars>>

ServeStore(o, s) ==
    /\ IsStore(o)
    /\ Served(o, s)
    /\ StoreShare(s, job[o].name, ShareFor(o, s))

\* Mutant: the server answers without removing the share.
ServeDeleteNothing(o, s) ==
    /\ IsDelete(o)
    /\ Served(o, s)
    /\ up[s]
    /\ UNCHANGED mapVars

ServeDelete(o, s) ==
    /\ IsDelete(o)
    /\ Served(o, s)
    /\ DeleteShare(s, job[o].name)

\* The request never reaches a handler: connection refused, stream cancelled,
\* server gone.  A request not dropped may still be served by the next process
\* of a server that restarts: the channel connects anew for it.
RpcDropped(o, s) ==
    /\ rpc[o][s] = "sent"
    /\ rpc' = [rpc EXCEPT ![o][s] = "lost"]
    /\ UNCHANGED <<mapVars, defaultK, job, status, cur, histVars>>

-----------------------------------------------------------------------------
(* The manager's side of an RPC.                                           *)

\* Mutant: the call goes on when the request is out, without its answer.
RpcReturnsAtOnce(o) ==
    /\ status[o] = "wait"
    /\ rpc[o][cur[o]] \in {"sent", "served"}
    /\ Call(o, cur[o] + 1)
    /\ UNCHANGED <<mapVars, defaultK, job, histVars>>

\* The answer of the current server arrives; both handlers answer Success.
RpcReturns(o) ==
    /\ status[o] = "wait"
    /\ rpc[o][cur[o]] = "served"
    /\ Call(o, cur[o] + 1)
    /\ UNCHANGED <<mapVars, defaultK, job, histVars>>

\* Mutant: StoreSecret logs an error and goes on, as DeleteSecret does.
StoreWarns(o) ==
    /\ IsStore(o)
    /\ status[o] = "wait"
    /\ Call(o, cur[o] + 1)
    /\ UNCHANGED <<mapVars, defaultK, job, histVars>>

\* Mutant: no deadline on the request's context.
StoreFailsOnRefusal(o) ==
    /\ IsStore(o)
    /\ status[o] = "wait"
    /\ rpc[o][cur[o]] = "lost"
    /\ status' = [status EXCEPT ![o] = "error"]
    /\ UNCHANGED <<mapVars, defaultK, job, cur, rpc, histVars>>

\* An error (unavailable, deadline, lost answer) ends StoreSecret at once and
\* undoes nothing on the servers before.
StoreFails(o) ==
    /\ IsStore(o)
    /\ status[o] = "wait"
    /\ status' = [status EXCEPT ![o] = "error"]
    /\ UNCHANGED <<mapVars, defaultK, job, cur, rpc, histVars>>

\* An error is only logged by DeleteSecret, which goes on to the next server.
DeleteWarns(o) ==
    /\ IsDelete(o)
    /\ status[o] = "wait"
    /\ Call(o, cur[o] + 1)
    /\ UNCHANGED <<mapVars, defaultK, job, histVars>>

-----------------------------------------------------------------------------
(* Processes come and go.                                                  *)

ServerExits(s) ==
    /\ ProcessExits(s)
    /\ crashed' = [o \in Ops |-> IF status[o] = "idle"
                                 THEN crashed[o] ELSE crashed[o] \cup {s}]
    /\ UNCHANGED <<callVars, undisturbed>>

ServerStarts(s) ==
    /\ ProcessStarts(s)
    /\ UNCHANGED <<callVars, histVars>>

\* The manager's pod is replaced, possibly with another DEFAULT_K; it drains
\* nothing, and what its calls have sent is still out.
ManagerRestarts(k) ==
    /\ defaultK' = k
    /\ status' = [o \in Ops |-> IF status[o] = "wait" THEN "error" ELSE status[o]]
    /\ UNCHANGED <<mapVars, job, cur, rpc, histVars>>

-----------------------------------------------------------------------------
CallEnds(o) == RpcReturns(o) \/ StoreFails(o) \/ DeleteWarns(o)

Next ==
    \/ \E o \in Ops, n \in Names :
          \/ \E v \in Values : StoreSecret(o, n, v)
          \/ DeleteSecret(o, n)
    \/ \E o \in Ops, s \in Servers :
          ServeStore(o, s) \/ ServeDelete(o, s) \/ RpcDropped(o, s)
    \/ \E o \in Ops : CallEnds(o)
    \/ \E s \in Servers : ServerExits(s) \/ ServerStarts(s)
    \/ \E k \in Thresholds : ManagerRestarts(k)

Spec == Init /\ [][Next]_vars

\* Every RPC of the manager runs under the 30s context of its HTTP request,
\* so a waiting call always gets an answer or an error.  Nothing is assumed
\* of the servers.
Fairness == \A o \in Ops : WF_vars(CallEnds(o))

FairSpec == Spec /\ Fairness

-----------------------------------------------------------------------------
(* Properties.                                                             *)

Acked(o) == IsStore(o) /\ status[o] = "ok"

\* The servers that hold the share of split o they were sent.
Holders(o) == {s \in Servers : shares[s][job[o].name] = ShareFor(o, s)}

\* A server only ever holds, for a name, the share with its own position in
\* the endpoint list, out of a split made for that name and stored by a served
\* StoreShare: calls on the same name or on others do not mix up servers or
\* names.  Two servers therefore never hold the same share, which Combine would
\* refuse (StoreSecret, main.go:69-91).
SharesInPlace ==
    \A s \in Servers, n \in Names : shares[s][n] # NoShare =>
        LET o == shares[s][n].split
        IN  /\ shares[s][n].idx = s
            /\ IsStore(o)
            /\ job[o].name = n
            /\ rpc[o][s] = "served"

\* StoreSecret answers success only when every server has run StoreShare for
\* it; each error on the way returns early (main.go:74-95).
AckedStoreReachedAllServers ==
    \A o \in Ops : Acked(o) => \A s \in Servers : rpc[o][s] = "served"

\* "Survives N-K server failures" (charts/hyena/README.md:15): after a
\* successful StoreSecret no other call interfered with, at least K servers
\* hold its shares as long as at most N-K server processes exited since the
\* call began, the exits before the answer included.
SurvivesServerFailures ==
    \A o \in Ops :
        Acked(o) /\ undisturbed[o] /\ Cardinality(crashed[o]) <= N - job[o].k
            => Cardinality(Holders(o)) >= job[o].k

\* What a DeleteSecret no other call interfered with did reach stays deleted:
\* no late StoreShare puts a share back (main.go:128-149).
DeletedWhereServed ==
    \A o \in Ops : IsDelete(o) /\ undisturbed[o] =>
        \A s \in Servers : rpc[o][s] = "served" =>
            shares[s][job[o].name] = NoShare

\* Two StoreSecret calls on one name, one of them successful, and no
\* DeleteSecret or server exit: whatever their order or overlap, and even if
\* the other one failed half way, one of the two splits is left on half of
\* the servers (main.go:69-95).  With K <= ceil(N/2), as in the default 3 of 5,
\* its shares are enough for Combine, but nothing tells a sidecar which shares
\* belong together: what it reads may still be a mix of both.
HalfKeepsASplit ==
    \A o, p \in Ops :
        /\ Acked(o) /\ IsStore(p)
        /\ \A q \in Ops : OnName(q, job[o].name) <=> q \in {o, p}
        /\ crashed[o] \cup crashed[p] = {}
        => \E q \in {o, p} : 2 * Cardinality(Holders(q)) >= N

\* Once StoreSecret has answered success, no server takes a share of its split
\* any more: the answer is not overtaken by the call's own late effects.
AckedStoreIsFinal ==
    [][\A o \in Ops : Acked(o) =>
          \A s \in Servers, n \in Names :
              shares'[s][n] = ShareFor(o, s) => shares[s][n] = ShareFor(o, s)]_vars

\* Every StoreSecret and DeleteSecret the manager runs ends, whatever the
\* servers and the network do (the 30s contexts, main.go:243 and 280).
EveryCallEnds ==
    \A o \in Ops : (status[o] = "wait") ~> (status[o] # "wait")

-----------------------------------------------------------------------------
(* The inductive invariant.                                                *)

\* A call goes down the endpoint list: it has sent nothing beyond its
\* position, and a StoreSecret was served by every server before it.
CallInOrder(o) ==
    /\ \A s \in Servers :
          (status[o] = "idle" \/ s > cur[o]) => rpc[o][s] = "none"
    /\ status[o] = "idle" => cur[o] = 1
    /\ status[o] # "idle" => job[o] \in Job
    /\ status[o] = "wait" => cur[o] \in Servers
    /\ IsStore(o) => \A s \in Servers : s < cur[o] => rpc[o][s] = "served"
    /\ Acked(o) => cur[o] = N + 1

CallsInOrder == \A o \in Ops : CallInOrder(o)

\* No other call on the name of an undisturbed one can change a server, so what
\* the servers it reached hold is its own doing, or they have restarted.
UndisturbedCall(o) ==
    undisturbed[o] =>
        /\ status[o] # "idle"
        /\ \A q \in Ops \ {o} : OnName(q, job[o].name) => ~Active(q)
        /\ \A s \in Servers : rpc[o][s] = "served" =>
              \/ IsStore(o) /\ shares[s][job[o].name] = ShareFor(o, s)
              \/ IsStore(o) /\ s \in crashed[o] /\ shares[s][job[o].name] = NoShare
              \/ IsDelete(o) /\ shares[s][job[o].name] = NoShare

UndisturbedCalls == \A o \in Ops : UndisturbedCall(o)

\* The three together, with SharesInPlace: what a step of any call, server or
\* manager preserves (main.go:69-99 and 128-149 of the secret manager).
IInv == TypeOK /\ CallsInOrder /\ SharesInPlace /\ UndisturbedCalls

-----------------------------------------------------------------------------
\* "DeleteSecret removes a secret from all share servers" (main.go:119), and
\* it answers success.  Refuted: an error from a server is only logged.
DeletedEverywhere ==
    \A o \in Ops : IsDelete(o) /\ status[o] = "ok" /\ undisturbed[o] =>
        \A s \in Servers : shares[s][job[o].name] = NoShare
=============================================================================
