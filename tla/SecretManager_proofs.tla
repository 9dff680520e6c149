------------------------ MODULE SecretManager_proofs ------------------------
(***************************************************************************)
(* Proofs about SecretManager, for any number of servers, names, values,   *)
(* thresholds and concurrent calls.                                        *)
(***************************************************************************)
EXTENDS SecretManager, TLAPS, FiniteSetTheorems

\* The assumptions under the one name the steps below cite.
LEMMA Constants == N \in Nat /\ NoShare \notin Share /\ Thresholds \subseteq Int
BY ShareMapAssumption, ThresholdsAssumption

-----------------------------------------------------------------------------
(* Types.                                                                  *)

\* Begin and Call keep the types of what they change.
LEMMA BeginTyped ==
    ASSUME TypeOK, NEW o \in Ops, NEW j \in Job, Begin(o, j)
    PROVE  /\ job' \in [Ops -> Job \cup {NoJob}]
           /\ undisturbed' \in [Ops -> BOOLEAN]
           /\ crashed' \in [Ops -> SUBSET Servers]
           /\ MapTypeOK'
           /\ defaultK' \in Thresholds
<1>1. job' \in [Ops -> Job \cup {NoJob}]
  BY DEF TypeOK, Begin
<1>2. undisturbed' \in [Ops -> BOOLEAN]
  <2>1. \A p \in Ops :
            (IF p = o THEN \A q \in Ops : OnName(q, j.name) => ~Active(q)
                      ELSE undisturbed[p] /\ ~OnName(p, j.name)) \in BOOLEAN
    BY Zenon DEF TypeOK
  <2> QED  BY <2>1, Zenon DEF Begin
<1> QED
  BY <1>1, <1>2 DEF TypeOK, Begin, MapTypeOK, mapVars

LEMMA CallTyped ==
    ASSUME TypeOK, NEW o \in Ops, NEW s \in 1..(N + 1), Call(o, s)
    PROVE  /\ cur' \in [Ops -> 1..(N + 1)]
           /\ status' \in [Ops -> Status]
           /\ rpc' \in [Ops -> [Servers -> Rpc]]
BY Constants DEF TypeOK, Call, Status, Rpc, Servers

\* A call that waits is at a server: without it RpcReturns need not be typed.
TypeInv == TypeOK /\ \A o \in Ops : status[o] = "wait" => cur[o] \in Servers

LEMMA TypeInvInit == Init => TypeInv
BY Constants DEF Init, TypeInv, TypeOK, MapInit, MapTypeOK, Empty, Status, Rpc, Servers

\* The next position of a waiting call.
LEMMA NextPosition ==
    ASSUME TypeInv, NEW o \in Ops, status[o] = "wait"
    PROVE  cur[o] + 1 \in 1..(N + 1)
BY Constants DEF TypeInv, TypeOK, Servers

\* What Call does to the waiting calls.
LEMMA CallWaits ==
    ASSUME TypeInv, NEW o \in Ops, NEW s \in 1..(N + 1), Call(o, s)
    PROVE  \A p \in Ops : status'[p] = "wait" => cur'[p] \in Servers
BY DEF TypeInv, TypeOK, Call

LEMMA TypeInvStep == TypeInv /\ [Next]_vars => TypeInv'
<1> SUFFICES ASSUME TypeInv, [Next]_vars PROVE TypeInv'
  OBVIOUS
<1> USE Constants
<1>0. TypeOK
  BY DEF TypeInv
<1>1. ASSUME NEW o \in Ops, NEW n \in Names, NEW v \in Values,
             StoreSecretSplits(o, n, v)
      PROVE  TypeInv'
  <2>1. [kind |-> "store", name |-> n, data |-> v, k |-> defaultK] \in Job
    BY <1>0 DEF TypeOK, Job
  <2>2. 1 \in 1..(N + 1)
    OBVIOUS
  <2> QED
    BY <1>0, <1>1, <2>1, <2>2, BeginTyped, CallTyped, CallWaits
    DEF StoreSecretSplits, TypeOK, TypeInv
<1>2. ASSUME NEW o \in Ops, NEW n \in Names, NEW v \in Values,
             StoreSecretRejected(o, n, v)
      PROVE  TypeInv'
  <2>1. [kind |-> "store", name |-> n, data |-> v, k |-> defaultK] \in Job
    BY <1>0 DEF TypeOK, Job
  <2> QED
    BY <1>2, <2>1
    DEF StoreSecretRejected, TypeInv, TypeOK, MapTypeOK, mapVars, histVars, Status
<1>3. ASSUME NEW o \in Ops, NEW n \in Names, DeleteSecret(o, n)
      PROVE  TypeInv'
  <2>1. [kind |-> "delete", name |-> n] \in Job
    BY DEF Job
  <2>2. 1 \in 1..(N + 1)
    OBVIOUS
  <2> QED
    BY <1>0, <1>3, <2>1, <2>2, BeginTyped, CallTyped, CallWaits
    DEF DeleteSecret, TypeOK, TypeInv
<1>4. ASSUME NEW o \in Ops, NEW s \in Servers, ServeStore(o, s)
      PROVE  TypeInv'
  <2>1. ShareFor(o, s) \in Share
    BY DEF ShareFor, Share
  <2> QED
    BY <1>4, <2>1
    DEF ServeStore, Served, StoreShare, TypeInv, TypeOK, MapTypeOK, histVars, Rpc
<1>5. ASSUME NEW o \in Ops, NEW s \in Servers, ServeDelete(o, s)
      PROVE  TypeInv'
  BY <1>5
  DEF ServeDelete, Served, DeleteShare, TypeInv, TypeOK, MapTypeOK, histVars, Rpc
<1>6. ASSUME NEW o \in Ops, NEW s \in Servers, RpcDropped(o, s)
      PROVE  TypeInv'
  BY <1>6 DEF RpcDropped, TypeInv, TypeOK, MapTypeOK, mapVars, histVars, Rpc
<1>7. ASSUME NEW o \in Ops, RpcReturns(o)
      PROVE  TypeInv'
  <2>1. cur[o] + 1 \in 1..(N + 1)
    BY <1>7, NextPosition DEF RpcReturns
  <2> QED
    BY <1>0, <1>7, <2>1, CallTyped, CallWaits
    DEF RpcReturns, TypeInv, TypeOK, MapTypeOK, mapVars, histVars
<1>8. ASSUME NEW o \in Ops, StoreFails(o)
      PROVE  TypeInv'
  BY <1>8 DEF StoreFails, TypeInv, TypeOK, MapTypeOK, mapVars, histVars, Status
<1>9. ASSUME NEW o \in Ops, DeleteWarns(o)
      PROVE  TypeInv'
  <2>1. cur[o] + 1 \in 1..(N + 1)
    BY <1>9, NextPosition DEF DeleteWarns
  <2> QED
    BY <1>0, <1>9, <2>1, CallTyped, CallWaits
    DEF DeleteWarns, TypeInv, TypeOK, MapTypeOK, mapVars, histVars
<1>10. ASSUME NEW s \in Servers, ServerExits(s)
       PROVE  TypeInv'
  <2>1. Empty \in [Names -> Share \cup {NoShare}]
    BY DEF Empty
  <2> QED
    BY <1>10, <2>1
    DEF ServerExits, ProcessExits, TypeInv, TypeOK, MapTypeOK, callVars
<1>11. ASSUME NEW s \in Servers, ServerStarts(s)
       PROVE  TypeInv'
  BY <1>11
  DEF ServerStarts, ProcessStarts, TypeInv, TypeOK, MapTypeOK, callVars, histVars
<1>12. ASSUME NEW k \in Thresholds, ManagerRestarts(k)
       PROVE  TypeInv'
  BY <1>12 DEF ManagerRestarts, TypeInv, TypeOK, MapTypeOK, mapVars, histVars, Status
<1>13. CASE UNCHANGED vars
  BY <1>13 DEF vars, mapVars, callVars, histVars, TypeInv, TypeOK, MapTypeOK
<1> QED
  BY <1>1, <1>2, <1>3, <1>4, <1>5, <1>6, <1>7, <1>8, <1>9, <1>10, <1>11, <1>12,
     <1>13
  DEF Next, CallEnds, StoreSecret

\* Every state of the specification has the declared types: no call walks off
\* the endpoint list, no server holds what is not a share (SecretManager's
\* StoreSecret and DeleteSecret loops, main.go:69-99 and 128-149).
THEOREM TypeCorrect == Spec => []TypeOK
<1>1. Spec => []TypeInv
  BY TypeInvInit, TypeInvStep, PTL DEF Spec
<1>2. TypeInv => TypeOK
  BY DEF TypeInv
<1> QED
  BY <1>1, <1>2, PTL

-----------------------------------------------------------------------------
(* Calls go down the endpoint list.                                        *)

LEMMA InitIInv == Init => IInv
BY Constants, TypeInvInit
DEF Init, IInv, TypeInv, CallsInOrder, CallInOrder, SharesInPlace,
    UndisturbedCalls, UndisturbedCall, MapInit, Empty, IsStore, Acked

\* A call starts.
LEMMA OrderBegin ==
    ASSUME TypeInv, CallsInOrder, NEW o \in Ops, NEW j \in Job, Begin(o, j), Call(o, 1)
    PROVE  CallsInOrder'
<1> SUFFICES ASSUME NEW p \in Ops PROVE CallInOrder(p)'
  BY DEF CallsInOrder
<1>1. CallInOrder(p)
  BY DEF CallsInOrder
<1>2. CASE p = o
  BY <1>1, <1>2, Constants
  DEF CallInOrder, TypeInv, TypeOK, Begin, Call, IsStore, Acked, Servers
<1>3. CASE p # o
  BY <1>1, <1>3, Constants
  DEF CallInOrder, TypeInv, TypeOK, Begin, Call, IsStore, Acked
<1> QED
  BY <1>2, <1>3

\* A call goes on to the next server, a StoreSecret only after an answer.
LEMMA OrderAdvance ==
    ASSUME TypeInv, CallsInOrder, NEW o \in Ops,
           status[o] = "wait", Call(o, cur[o] + 1), job' = job,
           IsStore(o) => rpc[o][cur[o]] = "served"
    PROVE  CallsInOrder'
<1> SUFFICES ASSUME NEW p \in Ops PROVE CallInOrder(p)'
  BY DEF CallsInOrder
<1>1. CallInOrder(p)
  BY DEF CallsInOrder
<1>2. CASE p = o
  BY <1>1, <1>2, Constants
  DEF CallInOrder, TypeInv, TypeOK, Call, IsStore, Acked, Servers
<1>3. CASE p # o
  BY <1>1, <1>3, Constants
  DEF CallInOrder, TypeInv, TypeOK, Call, IsStore, Acked
<1> QED
  BY <1>2, <1>3

\* An RPC that is out is served or lost.
LEMMA OrderServed ==
    ASSUME TypeInv, CallsInOrder, NEW o \in Ops, NEW s \in Servers,
           NEW r \in {"served", "lost"},
           rpc[o][s] = "sent", rpc' = [rpc EXCEPT ![o][s] = r],
           UNCHANGED <<job, status, cur>>
    PROVE  CallsInOrder'
BY Constants
DEF CallsInOrder, CallInOrder, TypeInv, TypeOK, IsStore, Acked, Servers

LEMMA OrderStep == TypeInv /\ CallsInOrder /\ [Next]_vars => CallsInOrder'
<1> SUFFICES ASSUME TypeInv, CallsInOrder, [Next]_vars PROVE CallsInOrder'
  OBVIOUS
<1>1. ASSUME NEW o \in Ops, NEW n \in Names, NEW v \in Values,
             StoreSecretSplits(o, n, v)
      PROVE  CallsInOrder'
  <2>1. [kind |-> "store", name |-> n, data |-> v, k |-> defaultK] \in Job
    BY DEF TypeInv, TypeOK, Job
  <2> QED
    BY <1>1, <2>1, OrderBegin DEF StoreSecretSplits
<1>2. ASSUME NEW o \in Ops, NEW n \in Names, NEW v \in Values,
             StoreSecretRejected(o, n, v)
      PROVE  CallsInOrder'
  <2>1. [kind |-> "store", name |-> n, data |-> v, k |-> defaultK] \in Job
    BY DEF TypeInv, TypeOK, Job
  <2> QED
    BY <1>2, <2>1, Constants
    DEF CallsInOrder, CallInOrder, StoreSecretRejected, TypeInv, TypeOK, IsStore,
        Acked, Servers
<1>3. ASSUME NEW o \in Ops, NEW n \in Names, DeleteSecret(o, n)
      PROVE  CallsInOrder'
  <2>1. [kind |-> "delete", name |-> n] \in Job
    BY DEF Job
  <2> QED
    BY <1>3, <2>1, OrderBegin DEF DeleteSecret
<1>4. ASSUME NEW o \in Ops, NEW s \in Servers,
             ServeStore(o, s) \/ ServeDelete(o, s) \/ RpcDropped(o, s)
      PROVE  CallsInOrder'
  BY <1>4, OrderServed DEF ServeStore, ServeDelete, RpcDropped, Served
<1>5. ASSUME NEW o \in Ops, RpcReturns(o) \/ DeleteWarns(o)
      PROVE  CallsInOrder'
  BY <1>5, OrderAdvance DEF RpcReturns, DeleteWarns, IsDelete, IsStore
<1>6. ASSUME NEW o \in Ops, StoreFails(o)
      PROVE  CallsInOrder'
  BY <1>6 DEF CallsInOrder, CallInOrder, StoreFails, TypeInv, TypeOK, IsStore, Acked
<1>7. ASSUME NEW k \in Thresholds, ManagerRestarts(k)
      PROVE  CallsInOrder'
  BY <1>7
  DEF CallsInOrder, CallInOrder, ManagerRestarts, TypeInv, TypeOK, IsStore, Acked
<1>8. ASSUME UNCHANGED <<job, status, cur, rpc>>
      PROVE  CallsInOrder'
  BY <1>8 DEF CallsInOrder, CallInOrder, IsStore, Acked
<1> QED
  BY <1>1, <1>2, <1>3, <1>4, <1>5, <1>6, <1>7, <1>8
  DEF Next, CallEnds, StoreSecret, ServerExits, ServerStarts, vars, callVars

-----------------------------------------------------------------------------
(* Shares are in place.                                                    *)

\* What a server holds stays explained as long as it changes to no other share
\* and calls under way keep their request and what was served.
LEMMA InPlaceKept ==
    ASSUME SharesInPlace,
           \A s \in Servers, n \in Names :
               shares'[s][n] = NoShare \/ shares'[s][n] = shares[s][n],
           \A o \in Ops : status[o] # "idle" =>
               /\ status'[o] # "idle" /\ job'[o] = job[o]
               /\ \A s \in Servers : rpc[o][s] = "served" => rpc'[o][s] = "served",
           TypeInv
    PROVE  SharesInPlace'
<1> SUFFICES ASSUME NEW s \in Servers, NEW n \in Names, shares'[s][n] # NoShare
             PROVE  LET o == shares'[s][n].split
                    IN  /\ shares'[s][n].idx = s
                        /\ status'[o] # "idle" /\ job'[o].kind = "store"
                        /\ job'[o].name = n
                        /\ rpc'[o][s] = "served"
  BY DEF SharesInPlace, IsStore
<1> DEFINE o == shares[s][n].split
<1>1. shares'[s][n] = shares[s][n] /\ shares[s][n] # NoShare
  OBVIOUS
<1>2. shares[s][n].idx = s /\ IsStore(o) /\ job[o].name = n /\ rpc[o][s] = "served"
  BY <1>1 DEF SharesInPlace
<1>3. o \in Ops
  BY <1>1 DEF TypeInv, TypeOK, MapTypeOK, Share
<1>4. /\ status'[o] # "idle" /\ job'[o] = job[o]
      /\ rpc'[o][s] = "served"
  BY <1>2, <1>3 DEF IsStore
<1> QED
  BY <1>1, <1>2, <1>4 DEF IsStore

\* The steps that neither start a call nor store a share.
LEMMA InPlaceBegin ==
    ASSUME TypeInv, SharesInPlace, NEW o \in Ops, status[o] = "idle",
           NEW j, job' = [job EXCEPT ![o] = j],
           \E st \in Status \ {"idle"} : status' = [status EXCEPT ![o] = st],
           rpc' = rpc \/ (\E s \in Servers : rpc' = [rpc EXCEPT ![o][s] = "sent"]),
           shares' = shares
    PROVE  SharesInPlace'
<1>1. \A p \in Ops : status[p] # "idle" =>
          /\ status'[p] # "idle" /\ job'[p] = job[p]
          /\ \A s \in Servers : rpc[p][s] = "served" => rpc'[p][s] = "served"
  BY DEF TypeInv, TypeOK, Status
<1> QED
  BY <1>1, InPlaceKept

LEMMA InPlaceStep ==
    TypeInv /\ CallsInOrder /\ SharesInPlace /\ [Next]_vars => SharesInPlace'
<1> SUFFICES ASSUME TypeInv, CallsInOrder, SharesInPlace, [Next]_vars
             PROVE  SharesInPlace'
  OBVIOUS
<1>1. ASSUME NEW o \in Ops, NEW j, Begin(o, j), Call(o, 1)
      PROVE  SharesInPlace'
  <2>1. /\ status[o] = "idle" /\ job' = [job EXCEPT ![o] = j]
        /\ shares' = shares
    BY <1>1 DEF Begin, mapVars
  <2>2. CASE 1 \in Servers
    <3>1. /\ status' = [status EXCEPT ![o] = "wait"]
          /\ rpc' = [rpc EXCEPT ![o][1] = "sent"]
      BY <1>1, <2>2 DEF Call
    <3> QED
      BY <2>1, <2>2, <3>1, InPlaceBegin DEF Status
  <2>3. CASE 1 \notin Servers
    <3>1. status' = [status EXCEPT ![o] = "ok"] /\ rpc' = rpc
      BY <1>1, <2>3 DEF Call
    <3> QED
      BY <2>1, <3>1, InPlaceBegin DEF Status
  <2> QED
    BY <2>2, <2>3
<1>2. ASSUME NEW o \in Ops, NEW n \in Names, NEW v \in Values,
             StoreSecretRejected(o, n, v)
      PROVE  SharesInPlace'
  <2>1. status' = [status EXCEPT ![o] = "error"] /\ "error" \in Status \ {"idle"}
    BY <1>2 DEF StoreSecretRejected, Status
  <2> QED
    BY <1>2, <2>1, InPlaceBegin DEF StoreSecretRejected, mapVars
<1>3. ASSUME NEW o \in Ops, NEW s \in Servers, ServeStore(o, s)
      PROVE  SharesInPlace'
  <2> SUFFICES ASSUME NEW t \in Servers, NEW m \in Names, shares'[t][m] # NoShare
               PROVE  LET q == shares'[t][m].split
                      IN  /\ shares'[t][m].idx = t
                          /\ status'[q] # "idle" /\ job'[q].kind = "store"
                          /\ job'[q].name = m
                          /\ rpc'[q][t] = "served"
    BY DEF SharesInPlace, IsStore
  <2>1. CASE t = s /\ m = job[o].name
    <3>1. shares'[t][m] = ShareFor(o, s)
      BY <1>3, <2>1 DEF ServeStore, StoreShare, TypeInv, TypeOK, MapTypeOK
    <3>2. /\ rpc'[o][s] = "served" /\ job' = job
          /\ status'[o] # "idle" /\ job[o].kind = "store"
      BY <1>3 DEF ServeStore, Served, IsStore, TypeInv, TypeOK
    <3> QED
      BY <2>1, <3>1, <3>2 DEF ShareFor
  <2>2. CASE ~(t = s /\ m = job[o].name)
    <3>1. shares'[t][m] = shares[t][m]
      BY <1>3, <2>2 DEF ServeStore, StoreShare, TypeInv, TypeOK, MapTypeOK
    <3>2. shares[t][m].split \in Ops
      BY <3>1 DEF TypeInv, TypeOK, MapTypeOK, Share
    <3> DEFINE q == shares[t][m].split
    <3>3. shares[t][m].idx = t /\ IsStore(q) /\ job[q].name = m /\ rpc[q][t] = "served"
      BY <3>1 DEF SharesInPlace
    <3>4. rpc'[q][t] = "served" /\ job' = job /\ status' = status
      BY <1>3, <3>2, <3>3 DEF ServeStore, Served, TypeInv, TypeOK
    <3> QED
      BY <3>1, <3>3, <3>4 DEF IsStore
  <2> QED
    BY <2>1, <2>2
<1>4. ASSUME NEW o \in Ops, NEW s \in Servers, ServeDelete(o, s)
      PROVE  SharesInPlace'
  <2>1. \A t \in Servers, n \in Names :
            shares'[t][n] = NoShare \/ shares'[t][n] = shares[t][n]
    BY <1>4 DEF ServeDelete, DeleteShare, TypeInv, TypeOK, MapTypeOK
  <2>2. \A p \in Ops, t \in Servers :
            rpc[p][t] = "served" => rpc'[p][t] = "served"
    BY <1>4 DEF ServeDelete, Served, TypeInv, TypeOK
  <2> QED
    BY <1>4, <2>1, <2>2, InPlaceKept DEF ServeDelete, Served
<1>5. ASSUME NEW o \in Ops, NEW s \in Servers, RpcDropped(o, s)
      PROVE  SharesInPlace'
  <2>1. \A p \in Ops, t \in Servers :
            rpc[p][t] = "served" => rpc'[p][t] = "served"
    BY <1>5 DEF RpcDropped, TypeInv, TypeOK
  <2> QED
    BY <1>5, <2>1, InPlaceKept DEF RpcDropped, mapVars
<1>6. ASSUME NEW o \in Ops, RpcReturns(o) \/ DeleteWarns(o)
      PROVE  SharesInPlace'
  <2>1. /\ status[o] = "wait" /\ Call(o, cur[o] + 1)
        /\ shares' = shares /\ job' = job
    BY <1>6 DEF RpcReturns, DeleteWarns, mapVars
  <2>2. \A s \in Servers : s > cur[o] => rpc[o][s] = "none"
    BY DEF CallsInOrder, CallInOrder
  <2>3. \A p \in Ops, t \in Servers :
            rpc[p][t] = "served" => rpc'[p][t] = "served"
    BY <2>1, <2>2, Constants DEF Call, TypeInv, TypeOK, Servers
  <2>4. \A p \in Ops : status[p] # "idle" => status'[p] # "idle"
    BY <2>1 DEF Call, TypeInv, TypeOK
  <2> QED
    BY <2>1, <2>3, <2>4, InPlaceKept
<1>7. ASSUME NEW o \in Ops, StoreFails(o)
      PROVE  SharesInPlace'
  <2>1. \A p \in Ops : status[p] # "idle" => status'[p] # "idle"
    BY <1>7 DEF StoreFails, TypeInv, TypeOK
  <2> QED
    BY <1>7, <2>1, InPlaceKept DEF StoreFails, mapVars
<1>8. ASSUME NEW s \in Servers, ServerExits(s)
      PROVE  SharesInPlace'
  <2>1. \A t \in Servers, n \in Names :
            shares'[t][n] = NoShare \/ shares'[t][n] = shares[t][n]
    BY <1>8 DEF ServerExits, ProcessExits, Empty, TypeInv, TypeOK, MapTypeOK
  <2> QED
    BY <1>8, <2>1, InPlaceKept DEF ServerExits, callVars
<1>9. ASSUME NEW s \in Servers, ServerStarts(s)
      PROVE  SharesInPlace'
  BY <1>9, InPlaceKept DEF ServerStarts, ProcessStarts, callVars
<1>10. ASSUME NEW k \in Thresholds, ManagerRestarts(k)
       PROVE  SharesInPlace'
  <2>1. \A p \in Ops : status[p] # "idle" => status'[p] # "idle"
    BY <1>10 DEF ManagerRestarts, TypeInv, TypeOK
  <2> QED
    BY <1>10, <2>1, InPlaceKept DEF ManagerRestarts, mapVars
<1>11. CASE UNCHANGED vars
  BY <1>11, InPlaceKept DEF vars, mapVars, callVars
<1> QED
  BY <1>1, <1>2, <1>3, <1>4, <1>5, <1>6, <1>7, <1>8, <1>9, <1>10, <1>11
  DEF Next, CallEnds, StoreSecret, StoreSecretSplits, DeleteSecret

-----------------------------------------------------------------------------
(* What an undisturbed call did stays done.                                *)

\* A call stays as the invariant says when it stays itself, no other call wakes
\* up on its name, and servers lose what they held of it only by restarting.
LEMMA UndisturbedKept ==
    ASSUME TypeInv, UndisturbedCalls, NEW p \in Ops,
           undisturbed'[p] => undisturbed[p],
           status[p] # "idle" => status'[p] # "idle" /\ job'[p] = job[p],
           \A q \in Ops \ {p} :
               /\ status'[q] # "idle" /\ job'[q].name = job[p].name
               /\ status'[q] = "wait" \/ \E s \in Servers : rpc'[q][s] = "sent"
               => OnName(q, job[p].name) /\ Active(q),
           \A s \in Servers : rpc'[p][s] = "served" => rpc[p][s] = "served",
           crashed[p] \subseteq crashed'[p],
           \A s \in Servers :
               \/ shares'[s][job[p].name] = shares[s][job[p].name]
               \/ /\ shares'[s][job[p].name] = NoShare
                  /\ IsDelete(p) \/ s \in crashed'[p]
    PROVE  UndisturbedCall(p)'
<1> SUFFICES ASSUME undisturbed'[p]
             PROVE  /\ status'[p] # "idle"
                    /\ \A q \in Ops \ {p} : ~ (OnName(q, job[p].name) /\ Active(q))'
                    /\ \A s \in Servers : rpc'[p][s] = "served" =>
                         \/ IsStore(p)' /\ shares'[s][job'[p].name] = ShareFor(p, s)
                         \/ /\ IsStore(p)' /\ s \in crashed'[p]
                            /\ shares'[s][job'[p].name] = NoShare
                         \/ IsDelete(p)' /\ shares'[s][job'[p].name] = NoShare
  BY DEF UndisturbedCall, ShareFor, OnName
<1>1. UndisturbedCall(p)
  BY DEF UndisturbedCalls
<1>2. status[p] # "idle" /\ status'[p] # "idle" /\ job'[p] = job[p]
  BY <1>1 DEF UndisturbedCall
<1>3. ASSUME NEW q \in Ops \ {p}
      PROVE  ~ (OnName(q, job[p].name) /\ Active(q))'
  BY <1>1, <1>2 DEF UndisturbedCall, OnName, Active
<1>4. ASSUME NEW s \in Servers, rpc'[p][s] = "served"
      PROVE  \/ IsStore(p)' /\ shares'[s][job'[p].name] = ShareFor(p, s)
             \/ IsStore(p)' /\ s \in crashed'[p] /\ shares'[s][job'[p].name] = NoShare
             \/ IsDelete(p)' /\ shares'[s][job'[p].name] = NoShare
  <2>1. \/ IsStore(p) /\ shares[s][job[p].name] = ShareFor(p, s)
        \/ IsStore(p) /\ s \in crashed[p] /\ shares[s][job[p].name] = NoShare
        \/ IsDelete(p) /\ shares[s][job[p].name] = NoShare
    BY <1>1, <1>4 DEF UndisturbedCall
  <2>2. (IsStore(p) <=> IsStore(p)') /\ (IsDelete(p) <=> IsDelete(p)')
    BY <1>2 DEF IsStore, IsDelete
  <2> QED
    BY <1>2, <2>1, <2>2
<1> QED
  BY <1>2, <1>3, <1>4

LEMMA UndisturbedBegin ==
    ASSUME TypeInv, CallsInOrder, UndisturbedCalls,
           NEW o \in Ops, NEW j \in Job, Begin(o, j), Call(o, 1)
    PROVE  UndisturbedCalls'
<1> SUFFICES ASSUME NEW p \in Ops PROVE UndisturbedCall(p)'
  BY DEF UndisturbedCalls
<1>1. \A q \in Ops \ {o} : /\ job'[q] = job[q] /\ status'[q] = status[q]
                           /\ rpc'[q] = rpc[q]
  BY DEF Begin, Call, TypeInv, TypeOK
<1>2. job'[o] = j /\ status'[o] # "idle"
  BY DEF Begin, Call, TypeInv, TypeOK
<1>3. CASE p = o
  <2>1. \A s \in Servers : rpc'[o][s] # "served"
    BY DEF CallsInOrder, CallInOrder, Begin, Call, TypeInv, TypeOK
  <2>2. undisturbed'[o] => \A q \in Ops : OnName(q, j.name) => ~Active(q)
    BY DEF Begin
  <2> QED
    BY <1>1, <1>2, <1>3, <2>1, <2>2 DEF UndisturbedCall, OnName, Active
<1>4. CASE p # o
  <2>1. undisturbed'[p] => undisturbed[p] /\ ~OnName(p, j.name)
    BY <1>4 DEF Begin
  <2>2. CASE ~undisturbed'[p]
    BY <2>2 DEF UndisturbedCall
  <2>3. CASE undisturbed'[p]
    <3>1. status[p] # "idle" /\ job[p].name # j.name
      BY <2>1, <2>3 DEF UndisturbedCalls, UndisturbedCall, OnName
    <3>2. shares' = shares /\ crashed' = crashed
      BY DEF Begin, mapVars
    <3>3. \A q \in Ops \ {p} :
               /\ status'[q] # "idle" /\ job'[q].name = job[p].name
               /\ status'[q] = "wait" \/ \E s \in Servers : rpc'[q][s] = "sent"
               => OnName(q, job[p].name) /\ Active(q)
      BY <1>1, <1>2, <3>1 DEF OnName, Active
    <3> QED
      BY <1>1, <1>4, <2>1, <3>1, <3>2, <3>3, UndisturbedKept
  <2> QED
    BY <2>2, <2>3
<1> QED
  BY <1>3, <1>4

\* A served RPC touches no name that another undisturbed call is on.
LEMMA ServedElsewhere ==
    ASSUME UndisturbedCalls, NEW o \in Ops, NEW s \in Servers, status[o] # "idle",
           rpc[o][s] = "sent", NEW p \in Ops \ {o}, undisturbed[p]
    PROVE  job[p].name # job[o].name
BY DEF UndisturbedCalls, UndisturbedCall, OnName, Active

LEMMA UndisturbedServed ==
    ASSUME TypeInv, CallsInOrder, UndisturbedCalls, NEW o \in Ops, NEW s \in Servers,
           ServeStore(o, s) \/ ServeDelete(o, s)
    PROVE  UndisturbedCalls'
<1> SUFFICES ASSUME NEW p \in Ops PROVE UndisturbedCall(p)'
  BY DEF UndisturbedCalls
<1>1. /\ status[o] # "idle" /\ rpc[o][s] = "sent"
      /\ UNCHANGED <<job, status, undisturbed, crashed>>
      /\ rpc' = [rpc EXCEPT ![o][s] = "served"]
  BY DEF ServeStore, ServeDelete, IsStore, IsDelete, Served, histVars
<1>2. \A t \in Servers, n \in Names :
          t # s \/ n # job[o].name => shares'[t][n] = shares[t][n]
  BY DEF ServeStore, ServeDelete, StoreShare, DeleteShare, TypeInv, TypeOK, MapTypeOK
<1>3. CASE ~undisturbed[p]
  BY <1>1, <1>3 DEF UndisturbedCall
<1>4. CASE undisturbed[p] /\ p # o
  <2>1. status[p] # "idle" /\ job[p].name \in Names
    BY <1>4
    DEF UndisturbedCalls, UndisturbedCall, CallsInOrder, CallInOrder, Job
  <2>2. job[p].name # job[o].name
    BY <1>1, <1>4, ServedElsewhere
  <2>3. \A t \in Servers : shares'[t][job[p].name] = shares[t][job[p].name]
    BY <1>2, <2>1, <2>2
  <2>4. \A q \in Ops \ {p} :
               /\ status'[q] # "idle" /\ job'[q].name = job[p].name
               /\ status'[q] = "wait" \/ \E t \in Servers : rpc'[q][t] = "sent"
               => OnName(q, job[p].name) /\ Active(q)
    BY <1>1 DEF OnName, Active, TypeInv, TypeOK
  <2>5. rpc'[p] = rpc[p]
    BY <1>1, <1>4 DEF TypeInv, TypeOK
  <2> QED
    BY <1>1, <2>3, <2>4, <2>5, UndisturbedKept
<1>5. CASE undisturbed[p] /\ p = o
  <2>1. UndisturbedCall(o)
    BY DEF UndisturbedCalls
  <2>2. \A q \in Ops \ {o} : ~ (OnName(q, job[o].name) /\ Active(q))'
    BY <1>1, <1>5, <2>1 DEF UndisturbedCall, OnName, Active, TypeInv, TypeOK
  <2>3. job[o].name \in Names
    BY <1>1 DEF CallsInOrder, CallInOrder, Job
  <2>4. \A t \in Servers \ {s} : /\ rpc'[o][t] = rpc[o][t]
                                 /\ shares'[t][job[o].name] = shares[t][job[o].name]
    BY <1>1, <1>2, <2>3 DEF TypeInv, TypeOK
  <2>5. \/ IsStore(o) /\ shares'[s][job[o].name] = ShareFor(o, s)
        \/ IsDelete(o) /\ shares'[s][job[o].name] = NoShare
    BY <2>3
    DEF ServeStore, ServeDelete, StoreShare, DeleteShare, TypeInv, TypeOK, MapTypeOK
  <2>6. \A t \in Servers : rpc'[o][t] = "served" =>
            \/ IsStore(o) /\ shares'[t][job[o].name] = ShareFor(o, t)
            \/ IsStore(o) /\ t \in crashed'[o] /\ shares'[t][job[o].name] = NoShare
            \/ IsDelete(o) /\ shares'[t][job[o].name] = NoShare
    BY <1>1, <1>5, <2>1, <2>4, <2>5 DEF UndisturbedCall
  <2> QED
    BY <1>1, <1>5, <2>2, <2>6
    DEF UndisturbedCall, IsStore, IsDelete, ShareFor, OnName
<1> QED
  BY <1>3, <1>4, <1>5

\* The other steps only stop calls or empty servers.
LEMMA UndisturbedStep ==
    TypeInv /\ CallsInOrder /\ UndisturbedCalls /\ [Next]_vars => UndisturbedCalls'
<1> SUFFICES ASSUME TypeInv, CallsInOrder, UndisturbedCalls, [Next]_vars
             PROVE  UndisturbedCalls'
  OBVIOUS
<1>1. ASSUME NEW o \in Ops, NEW n \in Names, NEW v \in Values,
             StoreSecretSplits(o, n, v)
      PROVE  UndisturbedCalls'
  <2>1. [kind |-> "store", name |-> n, data |-> v, k |-> defaultK] \in Job
    BY DEF TypeInv, TypeOK, Job
  <2> QED
    BY <1>1, <2>1, UndisturbedBegin DEF StoreSecretSplits
<1>2. ASSUME NEW o \in Ops, NEW n \in Names, NEW v \in Values,
             StoreSecretRejected(o, n, v)
      PROVE  UndisturbedCalls'
  <2> SUFFICES ASSUME NEW p \in Ops PROVE UndisturbedCall(p)'
    BY DEF UndisturbedCalls
  <2>1. /\ status[o] = "idle" /\ status' = [status EXCEPT ![o] = "error"]
        /\ \A q \in Ops \ {o} : job'[q] = job[q]
        /\ UNCHANGED <<shares, rpc, undisturbed, crashed>>
    BY <1>2 DEF StoreSecretRejected, mapVars, histVars, TypeInv, TypeOK
  <2>2. \A s \in Servers : rpc[o][s] = "none"
    BY <2>1 DEF CallsInOrder, CallInOrder
  <2>3. CASE p = o
    BY <2>1, <2>3 DEF UndisturbedCalls, UndisturbedCall
  <2>4. CASE p # o
    <3>1. status[p] # "idle" => status'[p] # "idle" /\ job'[p] = job[p]
      BY <2>1, <2>4 DEF TypeInv, TypeOK
    <3>2. \A q \in Ops \ {p} :
               /\ status'[q] # "idle" /\ job'[q].name = job[p].name
               /\ status'[q] = "wait" \/ \E s \in Servers : rpc'[q][s] = "sent"
               => OnName(q, job[p].name) /\ Active(q)
      BY <2>1, <2>2 DEF OnName, Active, TypeInv, TypeOK
    <3> QED
      BY <2>1, <3>1, <3>2, UndisturbedKept
  <2> QED
    BY <2>3, <2>4
<1>3. ASSUME NEW o \in Ops, NEW n \in Names, DeleteSecret(o, n)
      PROVE  UndisturbedCalls'
  <2>1. [kind |-> "delete", name |-> n] \in Job
    BY DEF Job
  <2> QED
    BY <1>3, <2>1, UndisturbedBegin DEF DeleteSecret
<1>4. ASSUME NEW o \in Ops, NEW s \in Servers, ServeStore(o, s) \/ ServeDelete(o, s)
      PROVE  UndisturbedCalls'
  BY <1>4, UndisturbedServed
<1>5. ASSUME NEW o \in Ops, NEW s \in Servers, RpcDropped(o, s)
      PROVE  UndisturbedCalls'
  <2>1. \A q \in Ops, t \in Servers : rpc'[q][t] # "lost" => rpc'[q][t] = rpc[q][t]
    BY <1>5 DEF RpcDropped, TypeInv, TypeOK
  <2>2. UNCHANGED <<shares, job, status, undisturbed, crashed>>
    BY <1>5 DEF RpcDropped, mapVars, histVars
  <2> SUFFICES ASSUME NEW p \in Ops PROVE UndisturbedCall(p)'
    BY DEF UndisturbedCalls
  <2> QED
    BY <2>1, <2>2, UndisturbedKept DEF OnName, Active
<1>6. ASSUME NEW o \in Ops, RpcReturns(o) \/ DeleteWarns(o)
      PROVE  UndisturbedCalls'
  <2>1. /\ status[o] = "wait" /\ Call(o, cur[o] + 1)
        /\ UNCHANGED <<shares, job, undisturbed, crashed>>
    BY <1>6 DEF RpcReturns, DeleteWarns, mapVars, histVars
  <2>2. \A q \in Ops : /\ status[q] # "idle" => status'[q] # "idle"
                       /\ q # o => status'[q] = status[q] /\ rpc'[q] = rpc[q]
                       /\ \A s \in Servers : rpc'[q][s] = "served" => rpc[q][s] = "served"
    BY <2>1 DEF Call, TypeInv, TypeOK
  <2> SUFFICES ASSUME NEW p \in Ops PROVE UndisturbedCall(p)'
    BY DEF UndisturbedCalls
  <2>3. \A q \in Ops \ {p} :
               /\ status'[q] # "idle" /\ job'[q].name = job[p].name
               /\ status'[q] = "wait" \/ \E s \in Servers : rpc'[q][s] = "sent"
               => OnName(q, job[p].name) /\ Active(q)
    BY <2>1, <2>2 DEF OnName, Active
  <2> QED
    BY <2>1, <2>2, <2>3, UndisturbedKept
<1>7. ASSUME NEW o \in Ops, StoreFails(o)
      PROVE  UndisturbedCalls'
  <2>1. UNCHANGED <<shares, job, rpc, undisturbed, crashed>>
    BY <1>7 DEF StoreFails, mapVars, histVars
  <2>2. \A q \in Ops : \/ status'[q] = status[q]
                       \/ status[q] = "wait" /\ status'[q] = "error"
    BY <1>7 DEF StoreFails, TypeInv, TypeOK
  <2> SUFFICES ASSUME NEW p \in Ops PROVE UndisturbedCall(p)'
    BY DEF UndisturbedCalls
  <2> QED
    BY <2>1, <2>2, UndisturbedKept DEF OnName, Active
<1>8. ASSUME NEW k \in Thresholds, ManagerRestarts(k)
      PROVE  UndisturbedCalls'
  <2>1. UNCHANGED <<shares, job, rpc, undisturbed, crashed>>
    BY <1>8 DEF ManagerRestarts, mapVars, histVars
  <2>2. \A q \in Ops : \/ status'[q] = status[q]
                       \/ status[q] = "wait" /\ status'[q] = "error"
    BY <1>8 DEF ManagerRestarts, TypeInv, TypeOK
  <2> SUFFICES ASSUME NEW p \in Ops PROVE UndisturbedCall(p)'
    BY DEF UndisturbedCalls
  <2> QED
    BY <2>1, <2>2, UndisturbedKept DEF OnName, Active
<1>9. ASSUME NEW s \in Servers, ServerExits(s)
      PROVE  UndisturbedCalls'
  <2>1. UNCHANGED <<job, status, cur, rpc, undisturbed>>
    BY <1>9 DEF ServerExits, callVars
  <2>2. \A p \in Ops : status[p] # "idle" => crashed'[p] = crashed[p] \cup {s}
    BY <1>9 DEF ServerExits, TypeInv, TypeOK
  <2>3. \A t \in Servers, n \in Names :
            IF t = s THEN shares'[t][n] = NoShare ELSE shares'[t][n] = shares[t][n]
    BY <1>9 DEF ServerExits, ProcessExits, Empty, TypeInv, TypeOK, MapTypeOK
  <2> SUFFICES ASSUME NEW p \in Ops PROVE UndisturbedCall(p)'
    BY DEF UndisturbedCalls
  <2>4. CASE ~undisturbed[p]
    BY <2>1, <2>4 DEF UndisturbedCall
  <2>5. CASE undisturbed[p]
    <3>1. status[p] # "idle" /\ job[p].name \in Names
      BY <2>5
      DEF UndisturbedCalls, UndisturbedCall, CallsInOrder, CallInOrder, Job
    <3>2. \A t \in Servers :
               \/ shares'[t][job[p].name] = shares[t][job[p].name]
               \/ shares'[t][job[p].name] = NoShare /\ t \in crashed'[p]
      BY <2>2, <2>3, <3>1
    <3>3. crashed[p] \subseteq crashed'[p]
      BY <2>2, <3>1
    <3> QED
      BY <2>1, <3>2, <3>3, UndisturbedKept DEF OnName, Active
  <2> QED
    BY <2>4, <2>5
<1>10. ASSUME UNCHANGED <<shares, callVars, histVars>>
       PROVE  UndisturbedCalls'
  BY <1>10, UndisturbedKept
  DEF UndisturbedCalls, OnName, Active, callVars, histVars
<1> QED
  BY <1>1, <1>2, <1>3, <1>4, <1>5, <1>6, <1>7, <1>8, <1>9, <1>10
  DEF Next, CallEnds, StoreSecret, ServerStarts, ProcessStarts, vars, mapVars

LEMMA IInvStep == IInv /\ [Next]_vars => IInv'
<1> SUFFICES ASSUME IInv, [Next]_vars PROVE IInv'
  OBVIOUS
<1>1. TypeInv
  BY DEF IInv, TypeInv, CallsInOrder, CallInOrder
<1>2. TypeInv' /\ CallsInOrder' /\ SharesInPlace' /\ UndisturbedCalls'
  BY <1>1, TypeInvStep, OrderStep, InPlaceStep, UndisturbedStep DEF IInv
<1> QED
  BY <1>2 DEF IInv, TypeInv

\* The inductive invariant of the calls and the servers.
THEOREM Invariance == Spec => []IInv
BY InitIInv, IInvStep, PTL DEF Spec

-----------------------------------------------------------------------------
(* What the runs check, for every value of the constants.                  *)

\* A server only holds the share of its own position, of a split that was made
\* for the name and stored on it (StoreSecret, main.go:69-91).
THEOREM SharesAreInPlace == Spec => []SharesInPlace
<1>1. IInv => SharesInPlace
  BY DEF IInv
<1> QED
  BY <1>1, Invariance, PTL

\* A StoreSecret that answered success was served by all servers
\* (main.go:74-95).
THEOREM AckedStoresReachAll == Spec => []AckedStoreReachedAllServers
<1>1. IInv => AckedStoreReachedAllServers
  BY Constants
  DEF IInv, CallsInOrder, CallInOrder, AckedStoreReachedAllServers, Acked, Servers
<1> QED
  BY <1>1, Invariance, PTL

\* What an undisturbed DeleteSecret reached stays deleted (main.go:128-149).
THEOREM DeletedStaysDeleted == Spec => []DeletedWhereServed
<1>1. IInv => DeletedWhereServed
  BY DEF IInv, UndisturbedCalls, UndisturbedCall, DeletedWhereServed, IsStore, IsDelete
<1> QED
  BY <1>1, Invariance, PTL

\* "Survives N-K server failures" (charts/hyena/README.md:15), for every N and K:
\* the servers that did not restart hold the shares of an undisturbed split.
THEOREM FaultTolerance == Spec => []SurvivesServerFailures
<1>1. ASSUME IInv, NEW o \in Ops, Acked(o), undisturbed[o],
             Cardinality(crashed[o]) <= N - job[o].k
      PROVE  Cardinality(Holders(o)) >= job[o].k
  <2>1. IsFiniteSet(Servers) /\ Cardinality(Servers) = N
    BY Constants, FS_Interval DEF Servers
  <2>2. crashed[o] \subseteq Servers /\ job[o].k \in Int
    BY <1>1, Constants DEF IInv, TypeOK, CallsInOrder, CallInOrder, Acked, IsStore, Job
  <2>3. Servers \ crashed[o] \subseteq Holders(o)
    <3>1. \A s \in Servers : rpc[o][s] = "served"
      BY <1>1, Constants DEF IInv, CallsInOrder, CallInOrder, Acked, Servers
    <3> QED
      BY <1>1, <3>1
      DEF IInv, UndisturbedCalls, UndisturbedCall, Acked, IsStore, IsDelete, Holders
  <2>4. Cardinality(Servers \ crashed[o]) = N - Cardinality(crashed[o])
    <3>1. Servers \cap crashed[o] = crashed[o]
      BY <2>2
    <3> QED
      BY <2>1, <3>1, FS_Difference, ZenonT(30)
  <2>5. IsFiniteSet(Holders(o))
    BY <2>1, FS_Subset DEF Holders
  <2>6. Cardinality(Servers \ crashed[o]) <= Cardinality(Holders(o))
    BY <2>3, <2>5, FS_Subset
  <2>7. Cardinality(crashed[o]) \in Nat /\ Cardinality(Holders(o)) \in Nat
    BY <2>1, <2>2, <2>5, FS_Subset, FS_CardinalityType
  <2> QED
    BY <1>1, <2>2, <2>4, <2>6, <2>7, Constants
<1>2. IInv => SurvivesServerFailures
  BY <1>1 DEF SurvivesServerFailures
<1> QED
  BY <1>2, Invariance, PTL

\* After a StoreSecret answered success, no server takes a share of it any more
\* (main.go:88-103).
THEOREM AckedStoresAreFinal == Spec => AckedStoreIsFinal
<1>1. ASSUME IInv, [Next]_vars, NEW o \in Ops, NEW s \in Servers, NEW n \in Names,
             Acked(o), shares'[s][n] = ShareFor(o, s)
      PROVE  shares[s][n] = ShareFor(o, s)
  <2>1. rpc[o][s] = "served"
    BY <1>1, Constants DEF IInv, CallsInOrder, CallInOrder, Acked, Servers
  <2>2. ShareFor(o, s) # NoShare
    BY Constants DEF ShareFor, Share
  <2>3. ASSUME NEW p \in Ops, NEW t \in Servers, ServeStore(p, t)
        PROVE  shares[s][n] = ShareFor(o, s)
    BY <1>1, <2>1, <2>3
    DEF ServeStore, Served, StoreShare, ShareFor, IInv, TypeOK, MapTypeOK
  <2>4. ASSUME NEW p \in Ops, NEW t \in Servers, ServeDelete(p, t)
        PROVE  shares[s][n] = ShareFor(o, s)
    BY <1>1, <2>2, <2>4 DEF ServeDelete, DeleteShare, IInv, TypeOK, MapTypeOK
  <2>5. ASSUME NEW t \in Servers, ServerExits(t)
        PROVE  shares[s][n] = ShareFor(o, s)
    BY <1>1, <2>2, <2>5
    DEF ServerExits, ProcessExits, Empty, IInv, TypeOK, MapTypeOK
  <2>6. CASE UNCHANGED shares
    BY <1>1, <2>6
  <2> QED
    BY <1>1, <2>3, <2>4, <2>5, <2>6
    DEF Next, CallEnds, StoreSecret, StoreSecretSplits, StoreSecretRejected, DeleteSecret,
        Begin, RpcDropped, RpcReturns, StoreFails, DeleteWarns, ServerStarts, ProcessStarts,
        ManagerRestarts, vars, mapVars
<1>2. IInv /\ [Next]_vars =>
          [\A o \in Ops : Acked(o) =>
              \A s \in Servers, n \in Names :
                  shares'[s][n] = ShareFor(o, s) => shares[s][n] = ShareFor(o, s)]_vars
  BY <1>1
<1> QED
  BY <1>2, Invariance, PTL DEF Spec, AckedStoreIsFinal

-----------------------------------------------------------------------------
(* What was stored and not deleted is there.                               *)

\* A server that served a StoreShare holds some share of the name, unless its
\* process exited since, or there has been a DeleteSecret of the name.
StoredIsThere ==
    \A o \in Ops, s \in Servers : IsStore(o) /\ rpc[o][s] = "served" =>
        \/ shares[s][job[o].name] # NoShare
        \/ s \in crashed[o]
        \/ \E q \in Ops : IsDelete(q) /\ job[q].name = job[o].name

\* A call that has begun keeps its request, and the exits since are remembered.
LEMMA CallsPersist ==
    ASSUME TypeInv, [Next]_vars, NEW o \in Ops, status[o] # "idle"
    PROVE  status'[o] # "idle" /\ job'[o] = job[o] /\ crashed[o] \subseteq crashed'[o]
<1> USE DEF TypeInv, TypeOK
<1>1. ASSUME NEW p \in Ops, NEW j, Begin(p, j), Call(p, 1)
      PROVE  status'[o] # "idle" /\ job'[o] = job[o] /\ crashed[o] \subseteq crashed'[o]
  BY <1>1 DEF Begin, Call
<1>2. ASSUME NEW p \in Ops, NEW n \in Names, NEW v \in Values, StoreSecretRejected(p, n, v)
      PROVE  status'[o] # "idle" /\ job'[o] = job[o] /\ crashed[o] \subseteq crashed'[o]
  BY <1>2 DEF StoreSecretRejected, histVars
<1>3. ASSUME NEW p \in Ops, NEW s \in Servers,
             ServeStore(p, s) \/ ServeDelete(p, s) \/ RpcDropped(p, s)
      PROVE  status'[o] # "idle" /\ job'[o] = job[o] /\ crashed[o] \subseteq crashed'[o]
  BY <1>3 DEF ServeStore, ServeDelete, RpcDropped, Served, histVars
<1>4. ASSUME NEW p \in Ops, CallEnds(p)
      PROVE  status'[o] # "idle" /\ job'[o] = job[o] /\ crashed[o] \subseteq crashed'[o]
  <2>1. CASE RpcReturns(p) \/ DeleteWarns(p)
    BY <2>1 DEF RpcReturns, DeleteWarns, Call, histVars
  <2>2. CASE StoreFails(p)
    BY <2>2 DEF StoreFails, histVars
  <2> QED
    BY <1>4, <2>1, <2>2 DEF CallEnds
<1>5. ASSUME NEW s \in Servers, ServerExits(s)
      PROVE  status'[o] # "idle" /\ job'[o] = job[o] /\ crashed[o] \subseteq crashed'[o]
  BY <1>5 DEF ServerExits, callVars
<1>6. ASSUME NEW k \in Thresholds, ManagerRestarts(k)
      PROVE  status'[o] # "idle" /\ job'[o] = job[o] /\ crashed[o] \subseteq crashed'[o]
  BY <1>6 DEF ManagerRestarts, histVars
<1>7. CASE UNCHANGED <<callVars, histVars>>
  BY <1>7 DEF callVars, histVars
<1> QED
  BY <1>1, <1>2, <1>3, <1>4, <1>5, <1>6, <1>7
  DEF Next, StoreSecret, StoreSecretSplits, DeleteSecret, ServerStarts, vars

\* An RPC is served by its handler, and only if its call has begun.
LEMMA ServedByHandler ==
    ASSUME TypeInv, CallsInOrder, [Next]_vars,
           NEW o \in Ops, NEW s \in Servers, rpc'[o][s] = "served"
    PROVE  /\ status[o] # "idle"
           /\ rpc[o][s] = "served" \/ ServeStore(o, s) \/ ServeDelete(o, s)
<1>1. rpc[o][s] = "served" => status[o] # "idle"
  BY DEF CallsInOrder, CallInOrder
<1>2. ASSUME NEW p \in Ops, NEW t \in 1..(N + 1), Call(p, t)
      PROVE  rpc[o][s] = "served"
  BY <1>2 DEF Call, TypeInv, TypeOK
<1>3. ASSUME NEW p \in Ops, NEW n \in Names, NEW v \in Values, StoreSecret(p, n, v)
      PROVE  rpc[o][s] = "served"
  BY <1>2, <1>3, Constants DEF StoreSecret, StoreSecretSplits, StoreSecretRejected
<1>4. ASSUME NEW p \in Ops, NEW n \in Names, DeleteSecret(p, n)
      PROVE  rpc[o][s] = "served"
  BY <1>2, <1>4, Constants DEF DeleteSecret
<1>5. ASSUME NEW p \in Ops, NEW t \in Servers, ServeStore(p, t) \/ ServeDelete(p, t)
      PROVE  /\ status[o] # "idle"
             /\ rpc[o][s] = "served" \/ ServeStore(o, s) \/ ServeDelete(o, s)
  <2>1. CASE p = o /\ t = s
    BY <1>5, <2>1 DEF ServeStore, ServeDelete, IsStore, IsDelete
  <2>2. CASE ~(p = o /\ t = s)
    BY <1>1, <1>5, <2>2 DEF ServeStore, ServeDelete, Served, TypeInv, TypeOK
  <2> QED
    BY <2>1, <2>2
<1>6. ASSUME NEW p \in Ops, NEW t \in Servers, RpcDropped(p, t)
      PROVE  rpc[o][s] = "served"
  BY <1>6 DEF RpcDropped, TypeInv, TypeOK
<1>7. ASSUME NEW p \in Ops, CallEnds(p)
      PROVE  rpc[o][s] = "served"
  <2>1. CASE RpcReturns(p)
    BY <1>2, <2>1, NextPosition DEF RpcReturns
  <2>2. CASE DeleteWarns(p)
    BY <1>2, <2>2, NextPosition DEF DeleteWarns
  <2>3. CASE StoreFails(p)
    BY <2>3 DEF StoreFails
  <2> QED
    BY <1>7, <2>1, <2>2, <2>3 DEF CallEnds
<1>8. CASE rpc' = rpc
  BY <1>1, <1>8
<1> QED
  BY <1>1, <1>3, <1>4, <1>5, <1>6, <1>7, <1>8
  DEF Next, ServerExits, ServerStarts, ManagerRestarts, vars, callVars

\* A server loses a share to a DeleteShare, or with its process.
LEMMA ShareLost ==
    ASSUME TypeInv, [Next]_vars, NEW s \in Servers, NEW n \in Names,
           shares[s][n] # NoShare, shares'[s][n] = NoShare
    PROVE  \/ \E q \in Ops : IsDelete(q) /\ job[q].name = n
           \/ \A o \in Ops : status[o] # "idle" => s \in crashed'[o]
<1>1. ASSUME NEW o \in Ops, NEW t \in Servers, ServeStore(o, t)
      PROVE  FALSE
  <2>1. ShareFor(o, t) # NoShare
    BY Constants DEF ShareFor, Share
  <2> QED
    BY <1>1, <2>1 DEF ServeStore, StoreShare, TypeInv, TypeOK, MapTypeOK
<1>2. ASSUME NEW o \in Ops, NEW t \in Servers, ServeDelete(o, t)
      PROVE  IsDelete(o) /\ job[o].name = n
  BY <1>2 DEF ServeDelete, DeleteShare, TypeInv, TypeOK, MapTypeOK
<1>3. ASSUME NEW t \in Servers, ServerExits(t)
      PROVE  \A o \in Ops : status[o] # "idle" => s \in crashed'[o]
  <2>1. t = s
    BY <1>3 DEF ServerExits, ProcessExits, TypeInv, TypeOK, MapTypeOK
  <2> QED
    BY <1>3, <2>1 DEF ServerExits
<1>4. CASE UNCHANGED shares
  BY <1>4
<1> QED
  BY <1>1, <1>2, <1>3, <1>4
  DEF Next, CallEnds, StoreSecret, StoreSecretSplits, StoreSecretRejected, DeleteSecret,
      Begin, RpcDropped, RpcReturns, StoreFails, DeleteWarns, ServerStarts, ProcessStarts,
      ManagerRestarts, vars, mapVars

LEMMA StoredStep == IInv /\ StoredIsThere /\ [Next]_vars => StoredIsThere'
<1> SUFFICES ASSUME IInv, StoredIsThere, [Next]_vars,
                    NEW o \in Ops, NEW s \in Servers, IsStore(o)', rpc'[o][s] = "served"
             PROVE  \/ shares'[s][job'[o].name] # NoShare
                    \/ s \in crashed'[o]
                    \/ \E q \in Ops : IsDelete(q)' /\ job'[q].name = job'[o].name
  BY DEF StoredIsThere
<1>1. TypeInv /\ CallsInOrder
  BY DEF IInv, TypeInv, CallsInOrder, CallInOrder
<1>2. /\ status[o] # "idle"
      /\ rpc[o][s] = "served" \/ ServeStore(o, s) \/ ServeDelete(o, s)
  BY <1>1, ServedByHandler
<1>3. job'[o] = job[o] /\ crashed[o] \subseteq crashed'[o]
  BY <1>1, <1>2, CallsPersist
<1>4. IsStore(o) /\ job[o].name \in Names
  BY <1>1, <1>2, <1>3 DEF IsStore, CallsInOrder, CallInOrder, Job
<1>5. ASSUME NEW q \in Ops, IsDelete(q), job[q].name = job[o].name
      PROVE  IsDelete(q)' /\ job'[q].name = job'[o].name
  BY <1>1, <1>3, <1>5, CallsPersist DEF IsDelete
<1>6. CASE ServeStore(o, s)
  <2>1. shares'[s][job[o].name] = ShareFor(o, s)
    BY <1>4, <1>6 DEF ServeStore, StoreShare, IInv, TypeOK, MapTypeOK
  <2> QED
    BY <1>3, <2>1, Constants DEF ShareFor, Share
<1>7. CASE ServeDelete(o, s)
  BY <1>4, <1>7 DEF ServeDelete, IsStore, IsDelete
<1>8. CASE rpc[o][s] = "served"
  <2>1. \/ shares[s][job[o].name] # NoShare
        \/ s \in crashed[o]
        \/ \E q \in Ops : IsDelete(q) /\ job[q].name = job[o].name
    BY <1>4, <1>8 DEF StoredIsThere
  <2>2. ASSUME shares[s][job[o].name] # NoShare, shares'[s][job[o].name] = NoShare
        PROVE  \/ \E q \in Ops : IsDelete(q) /\ job[q].name = job[o].name
               \/ s \in crashed'[o]
    BY <1>1, <1>2, <1>4, <2>2, ShareLost
  <2> QED
    BY <1>3, <1>5, <2>1, <2>2
<1> QED
  BY <1>2, <1>6, <1>7, <1>8

\* After two StoreSecret calls on one name, one of them successful, one of the
\* two splits is on half of the servers, for every number of servers
\* (main.go:69-103).
THEOREM HalfKept == Spec => []HalfKeepsASplit
<1>1. Spec => [](IInv /\ StoredIsThere)
  <2>1. Init => StoredIsThere
    BY DEF Init, StoredIsThere, IsStore
  <2> QED
    BY <2>1, StoredStep, Invariance, PTL DEF Spec
<1>2. ASSUME IInv, StoredIsThere, NEW o \in Ops, NEW p \in Ops,
             Acked(o), IsStore(p),
             \A q \in Ops : OnName(q, job[o].name) <=> q \in {o, p},
             crashed[o] \cup crashed[p] = {}
      PROVE  \E q \in {o, p} : 2 * Cardinality(Holders(q)) >= N
  <2>1. IsFiniteSet(Servers) /\ Cardinality(Servers) = N
    BY Constants, FS_Interval DEF Servers
  <2>2. \A s \in Servers : shares[s][job[o].name] # NoShare
    <3>1. \A s \in Servers : rpc[o][s] = "served"
      BY <1>2, Constants DEF IInv, CallsInOrder, CallInOrder, Acked, Servers
    <3>2. \A q \in Ops : ~(IsDelete(q) /\ job[q].name = job[o].name)
      BY <1>2 DEF OnName, IsDelete, IsStore, Acked
    <3> QED
      BY <1>2, <3>1, <3>2 DEF StoredIsThere, Acked
  <2>3. job[o].name \in Names /\ job[p].name = job[o].name
    BY <1>2 DEF IInv, CallsInOrder, CallInOrder, Job, OnName, Acked, IsStore
  <2>4. Servers = Holders(o) \cup Holders(p)
    <3>1. ASSUME NEW s \in Servers PROVE s \in Holders(o) \cup Holders(p)
      <4> DEFINE sh == shares[s][job[o].name]
      <4>1. sh \in Share /\ sh.idx = s /\ IsStore(sh.split) /\ job[sh.split].name = job[o].name
        BY <1>2, <2>2, <2>3 DEF IInv, SharesInPlace, TypeOK, MapTypeOK
      <4>2. sh.split \in {o, p}
        BY <1>2, <4>1 DEF OnName, IsStore, Share
      <4>3. sh = ShareFor(sh.split, s)
        BY <4>1 DEF Share, ShareFor
      <4> QED
        BY <2>3, <4>2, <4>3 DEF Holders
    <3> QED
      BY <3>1 DEF Holders
  <2>5. /\ IsFiniteSet(Holders(o)) /\ Cardinality(Holders(o)) \in Nat
        /\ IsFiniteSet(Holders(p)) /\ Cardinality(Holders(p)) \in Nat
    BY <2>1, FS_Subset, FS_CardinalityType DEF Holders
  <2>6. N <= Cardinality(Holders(o)) + Cardinality(Holders(p))
    <3>1. Cardinality(Holders(o) \cap Holders(p)) \in Nat
      BY <2>5, FS_Intersection, FS_CardinalityType
    <3> QED
      BY <2>1, <2>4, <2>5, <3>1, FS_Union
  <2> QED
    BY <2>5, <2>6, Constants
<1>3. IInv /\ StoredIsThere => HalfKeepsASplit
  BY <1>2 DEF HalfKeepsASplit
<1> QED
  BY <1>1, <1>3, PTL

-----------------------------------------------------------------------------
(* What is left to do for a call.  EveryCallEnds itself needs fairness, for  *)
(* its deadlines to pass; that there are only so many is shown here.         *)

\* The RPCs a call has before it, the current one included.
CallLeft(o) ==
    IF status[o] = "idle" THEN N + 1
    ELSE IF status[o] = "wait" THEN N + 1 - cur[o]
    ELSE 0

\* An answer or an error leaves fewer of them, and nothing leaves more, whatever
\* other calls, servers and the manager's restarts do.
CallsForward ==
    \A o \in Ops :
        /\ CallLeft(o)' <= CallLeft(o)
        /\ CallEnds(o) => CallLeft(o)' < CallLeft(o)

LEMMA CallLeftNat ==
    ASSUME TypeInv, NEW o \in Ops
    PROVE  /\ CallLeft(o) \in Nat
           /\ status[o] = "wait" => CallLeft(o) = N + 1 - cur[o] /\ cur[o] \in 1..N
           /\ status[o] = "idle" => CallLeft(o) = N + 1
           /\ N \in Nat
<1>1. status[o] = "wait" => cur[o] \in 1..N
  BY DEF TypeInv, Servers
<1>2. N \in Nat /\ N + 1 \in Nat /\ \A c \in 1..N : N + 1 - c \in Nat
  BY Constants
<1> QED
  BY <1>1, <1>2 DEF CallLeft

\* Going on to server s, or answering after the last.
LEMMA CallGoesOn ==
    ASSUME TypeInv, NEW o \in Ops, NEW s \in 1..(N + 1), Call(o, s)
    PROVE  CallLeft(o)' = N + 1 - s
<1>1. /\ cur'[o] = s /\ N \in Nat
      /\ status'[o] = IF s \in Servers THEN "wait" ELSE "ok"
  BY Constants DEF TypeInv, TypeOK, Call
<1>2. CASE s \in Servers
  BY <1>1, <1>2 DEF CallLeft
<1>3. CASE s \notin Servers
  <2>1. s = N + 1
    BY <1>1, <1>3 DEF Servers
  <2>2. N + 1 - s = 0
    BY <1>1, <2>1
  <2> QED
    BY <1>1, <1>3, <2>2 DEF CallLeft
<1> QED
  BY <1>2, <1>3

LEMMA EndsForward ==
    ASSUME TypeInv, NEW o \in Ops, CallEnds(o)
    PROVE  CallLeft(o)' < CallLeft(o)
<1>1. status[o] = "wait"
  BY DEF CallEnds, RpcReturns, StoreFails, DeleteWarns
<1>2. /\ CallLeft(o) = N + 1 - cur[o] /\ cur[o] \in 1..N /\ N \in Nat
      /\ CallLeft(o) \in Nat
  BY <1>1, CallLeftNat
<1>3. CASE StoreFails(o)
  <2>1. CallLeft(o)' = 0
    BY <1>3 DEF StoreFails, CallLeft, TypeInv, TypeOK
  <2>2. CallLeft(o) > 0
    BY <1>2
  <2> QED
    BY <2>1, <2>2
<1>4. CASE RpcReturns(o) \/ DeleteWarns(o)
  <2>1. cur[o] + 1 \in 1..(N + 1) /\ Call(o, cur[o] + 1)
    BY <1>1, <1>4, NextPosition DEF RpcReturns, DeleteWarns
  <2>2. CallLeft(o)' = N + 1 - (cur[o] + 1)
    BY <2>1, CallGoesOn
  <2>3. N + 1 - (cur[o] + 1) < N + 1 - cur[o]
    BY <1>2
  <2> QED
    BY <1>2, <2>2, <2>3
<1> QED
  BY <1>3, <1>4 DEF CallEnds

LEMMA StepCallsForward == TypeInv /\ [Next]_vars => [CallsForward]_vars
<1> SUFFICES ASSUME TypeInv, Next, NEW p \in Ops
             PROVE  /\ CallLeft(p)' <= CallLeft(p)
                    /\ CallEnds(p) => CallLeft(p)' < CallLeft(p)
  BY DEF CallsForward
<1>1. CallLeft(p) \in Nat /\ N \in Nat /\ (status[p] = "idle" => CallLeft(p) = N + 1)
  BY CallLeftNat
<1>2. CASE CallEnds(p)
  <2>1. CallLeft(p)' < CallLeft(p)
    BY <1>2, EndsForward
  <2>2. status'[p] \in {"wait", "ok", "error"} /\ cur'[p] \in 1..(N + 1)
    <3>1. TypeInv'
      BY TypeInvStep
    <3> QED
      BY <1>2, <3>1 DEF CallEnds, RpcReturns, StoreFails, DeleteWarns, Call, TypeInv, TypeOK
  <2>3. CallLeft(p)' \in Int
    BY <1>1, <2>2 DEF CallLeft
  <2> QED
    BY <1>1, <2>1, <2>3
<1>3. CASE status'[p] = status[p] /\ cur'[p] = cur[p]
  BY <1>1, <1>2, <1>3 DEF CallLeft
<1>4. CASE status'[p] = "error"
  <2>1. CallLeft(p)' = 0
    BY <1>4 DEF CallLeft
  <2> QED
    BY <1>1, <1>2, <2>1
<1>5. CASE status[p] = "idle" /\ Call(p, 1)
  <2>1. CallLeft(p)' = N + 1 - 1
    BY <1>1, <1>5, CallGoesOn
  <2> QED
    BY <1>1, <1>2, <1>5, <2>1
<1>6. \/ CallEnds(p)
      \/ status'[p] = status[p] /\ cur'[p] = cur[p]
      \/ status'[p] = "error"
      \/ status[p] = "idle" /\ Call(p, 1)
  <2>1. ASSUME NEW o \in Ops, NEW n \in Names, NEW v \in Values, StoreSecret(o, n, v)
        PROVE  \/ status'[p] = status[p] /\ cur'[p] = cur[p]
               \/ status'[p] = "error"
               \/ status[p] = "idle" /\ Call(p, 1)
    <3>1. CASE o = p
      BY <2>1, <3>1 DEF StoreSecret, StoreSecretSplits, StoreSecretRejected, Begin, TypeInv, TypeOK
    <3>2. CASE o # p
      BY <2>1, <3>2
      DEF StoreSecret, StoreSecretSplits, StoreSecretRejected, Call, TypeInv, TypeOK
    <3> QED
      BY <3>1, <3>2
  <2>2. ASSUME NEW o \in Ops, NEW n \in Names, DeleteSecret(o, n)
        PROVE  \/ status'[p] = status[p] /\ cur'[p] = cur[p]
               \/ status[p] = "idle" /\ Call(p, 1)
    <3>1. CASE o = p
      BY <2>2, <3>1 DEF DeleteSecret, Begin
    <3>2. CASE o # p
      BY <2>2, <3>2 DEF DeleteSecret, Call, TypeInv, TypeOK
    <3> QED
      BY <3>1, <3>2
  <2>3. ASSUME NEW o \in Ops, NEW s \in Servers,
               ServeStore(o, s) \/ ServeDelete(o, s) \/ RpcDropped(o, s)
        PROVE  status'[p] = status[p] /\ cur'[p] = cur[p]
    BY <2>3 DEF ServeStore, ServeDelete, RpcDropped, Served
  <2>4. ASSUME NEW o \in Ops, CallEnds(o), o # p
        PROVE  status'[p] = status[p] /\ cur'[p] = cur[p]
    BY <2>4 DEF CallEnds, RpcReturns, StoreFails, DeleteWarns, Call, TypeInv, TypeOK
  <2>5. ASSUME NEW s \in Servers, ServerExits(s) \/ ServerStarts(s)
        PROVE  status'[p] = status[p] /\ cur'[p] = cur[p]
    BY <2>5 DEF ServerExits, ServerStarts, callVars
  <2>6. ASSUME NEW k \in Thresholds, ManagerRestarts(k)
        PROVE  \/ status'[p] = status[p] /\ cur'[p] = cur[p]
               \/ status'[p] = "error"
    BY <2>6 DEF ManagerRestarts, TypeInv, TypeOK
  <2> QED
    BY <2>1, <2>2, <2>3, <2>4, <2>5, <2>6 DEF Next
<1> QED
  BY <1>2, <1>3, <1>4, <1>5, <1>6

\* A call sends at most N RPCs, whatever happens to them and to the servers: every
\* answer or error leaves fewer before it, and nothing brings one back
\* (secret-manager main.go:69-99 and 128-149).
THEOREM CallsAreBounded == Spec => [][CallsForward]_vars
<1>1. Init => TypeInv
  BY TypeInvInit
<1>2. Spec => []TypeInv
  BY <1>1, TypeInvStep, PTL DEF Spec
<1> QED
  BY <1>2, StepCallsForward, PTL DEF Spec
=============================================================================
