------------------------- MODULE ShareServer_proofs -------------------------
(***************************************************************************)
(* Proofs about ShareServer, for any number of requests, names and splits, *)
(* and for all configurations.                                             *)
(***************************************************************************)
EXTENDS ShareServer, SequenceTheorems, TLAPS

-----------------------------------------------------------------------------
(* The inductive invariant.                                                *)

\* What the types leave out: the two functions without a set of their own.
FunctionsOK == DOMAIN req = Requests /\ held \in [Requests -> SUBSET (Share \cup {NoShare})]

\* Who has s.mu: the readers are in `readers`, and a writer that has it is alone.
LockOrder ==
    /\ \A r \in Requests : pc[r] = "locking" => writer = {r} /\ ~ReadsOnly(r)
    /\ \A r \in Requests : pc[r] = "locked" =>
          IF ReadsOnly(r) THEN r \in readers ELSE writer = {r} /\ readers = {}

\* What the map holds of its name while a request is at work has been noted.
HeldNoted == \A r \in Open : map[req[r].name] \in held[r]

ServerInv == TypeOK /\ FunctionsOK /\ LockOrder /\ HeldNoted /\ CallsTakeEffect

\* The interceptor lets a request through or gives one of two errors.
LEMMA DecisionRange ==
    ASSUME NEW c, NEW method, NEW tokens
    PROVE  Decision(c, method, tokens) \in {"handler", "Unauthenticated", "PermissionDenied"}
<1> DEFINE claims == ValidateToken(c.devMode, tokens[1])
<1> QED
  BY DEF Decision

LEMMA InvInit == Init => ServerInv
BY DEF Init, ServerInv, TypeOK, FunctionsOK, LockOrder, HeldNoted, CallsTakeEffect, Open, Empty

-----------------------------------------------------------------------------
(* The steps.                                                              *)

LEMMA InvDies == ServerInv /\ Dies => ServerInv'
BY ZenonT(30) DEF ServerInv, Dies, TypeOK, FunctionsOK, LockOrder, HeldNoted, CallsTakeEffect, Open, Empty,
       ReadsOnly

\* Steps of main that leave the requests alone.
LEMMA InvMain ==
    ServerInv /\ (ProcessStarts \/ Listens \/ ServeBegins \/ NotifiesSignals \/ GracefulStop)
        => ServerInv'
BY DEF ServerInv, ProcessStarts, Listens, ServeBegins, NotifiesSignals, GracefulStop, TypeOK,
       FunctionsOK, LockOrder, HeldNoted, CallsTakeEffect, Open, ReadsOnly, muVars

\* A request is accepted, or turned away without having touched anything.
LEMMA InvArrives ==
    ASSUME ServerInv, NEW r \in Requests, NEW m \in Sends[r], Arrives(r, m)
    PROVE  ServerInv'
<1>1. /\ m.name \in Names /\ map[m.name] \in Share \cup {NoShare}
      /\ pc[r] = "unsent"
      /\ req' = [req EXCEPT ![r] = m]
      /\ UNCHANGED <<env, main, serve, map, readers, writer, got>>
  BY SendsAssumption DEF Arrives, serverVars, muVars, ServerInv, TypeOK
<1>2. CASE Connects(m.transport, Started.transport)
  <2>1. /\ pc' = [pc EXCEPT ![r] = "accepted"]
        /\ held' = [held EXCEPT ![r] = {map[m.name]}]
        /\ answer' = answer
    BY <1>2 DEF Arrives
  <2>2. TypeOK' /\ FunctionsOK'
    BY <1>1, <2>1 DEF ServerInv, TypeOK, FunctionsOK
  <2>3. LockOrder'
    BY <1>1, <2>1 DEF ServerInv, TypeOK, FunctionsOK, LockOrder, ReadsOnly
  <2>4. HeldNoted' /\ CallsTakeEffect'
    BY <1>1, <2>1, ZenonT(30) DEF ServerInv, TypeOK, FunctionsOK, HeldNoted, CallsTakeEffect, Open
  <2> QED
    BY <2>2, <2>3, <2>4 DEF ServerInv
<1>3. CASE ~Connects(m.transport, Started.transport)
  <2>1. /\ pc' = [pc EXCEPT ![r] = "answered"]
        /\ answer' = [answer EXCEPT ![r] = "not connected"]
        /\ held' = held
    BY <1>3 DEF Arrives
  <2>2. TypeOK' /\ FunctionsOK'
    BY <1>1, <2>1 DEF ServerInv, TypeOK, FunctionsOK
  <2>3. LockOrder'
    BY <1>1, <2>1 DEF ServerInv, TypeOK, FunctionsOK, LockOrder, ReadsOnly
  <2>4. HeldNoted' /\ CallsTakeEffect'
    BY <1>1, <2>1, ZenonT(30) DEF ServerInv, TypeOK, FunctionsOK, HeldNoted, CallsTakeEffect, Open
  <2> QED
    BY <2>2, <2>3, <2>4 DEF ServerInv
<1> QED
  BY <1>2, <1>3

LEMMA InvIntercepts ==
    ASSUME ServerInv, NEW r \in Requests, Intercepts(r)
    PROVE  ServerInv'
<1> DEFINE d == Decision(Started, req[r].method, req[r].tokens)
<1>1. /\ pc[r] = "accepted"
      /\ UNCHANGED <<env, main, serve, map, readers, writer, got, req, held>>
  BY DEF Intercepts, serverVars, muVars
<1>2. CASE d = "handler"
  <2>1. pc' = [pc EXCEPT ![r] = "handler"] /\ answer' = answer
    BY <1>2 DEF Intercepts
  <2>2. TypeOK' /\ FunctionsOK'
    BY <1>1, <2>1 DEF ServerInv, TypeOK, FunctionsOK
  <2>3. LockOrder' /\ HeldNoted' /\ CallsTakeEffect'
    BY <1>1, <2>1
    DEF ServerInv, TypeOK, LockOrder, ReadsOnly, HeldNoted, CallsTakeEffect, Open
  <2> QED
    BY <2>2, <2>3 DEF ServerInv
<1>3. CASE d \in {"Unauthenticated", "PermissionDenied"}
  <2>1. pc' = [pc EXCEPT ![r] = "answered"] /\ answer' = [answer EXCEPT ![r] = d]
    BY <1>3 DEF Intercepts
  <2> HIDE DEF d
  <2>2. TypeOK' /\ FunctionsOK'
    BY <1>1, <1>3, <2>1 DEF ServerInv, TypeOK, FunctionsOK
  <2>3. LockOrder' /\ HeldNoted' /\ CallsTakeEffect'
    BY <1>1, <1>3, <2>1
    DEF ServerInv, TypeOK, LockOrder, ReadsOnly, HeldNoted, CallsTakeEffect, Open
  <2> QED
    BY <2>2, <2>3 DEF ServerInv
<1> QED
  BY <1>2, <1>3, DecisionRange

LEMMA InvLocks ==
    ASSUME ServerInv, NEW r \in Requests, RLock(r) \/ LockAnnounces(r) \/ LockAcquires(r)
    PROVE  ServerInv'
<1>1. /\ pc[r] \in {"handler", "locking"}
      /\ \E p \in {"locking", "locked"} : pc' = [pc EXCEPT ![r] = p]
      /\ readers' \in SUBSET Requests /\ writer' \in SUBSET Requests
      /\ UNCHANGED <<env, main, serve, map, got, req, held, answer>>
  BY DEF RLock, LockAnnounces, LockAcquires, serverVars, muVars, ServerInv, TypeOK
<1>2. TypeOK' /\ FunctionsOK'
  BY <1>1, ZenonT(30) DEF ServerInv, TypeOK, FunctionsOK
<1>3. HeldNoted' /\ CallsTakeEffect'
  BY <1>1 DEF ServerInv, TypeOK, HeldNoted, Open, CallsTakeEffect
<1>4. LockOrder'
  <2>1. CASE RLock(r)
    BY <2>1 DEF RLock, serverVars, ServerInv, TypeOK, LockOrder, ReadsOnly
  <2>2. CASE LockAnnounces(r)
    BY <2>2 DEF LockAnnounces, serverVars, ServerInv, TypeOK, LockOrder, ReadsOnly
  <2>3. CASE LockAcquires(r)
    BY <2>3 DEF LockAcquires, serverVars, muVars, ServerInv, TypeOK, LockOrder, ReadsOnly
  <2> QED
    BY <2>1, <2>2, <2>3
<1> QED
  BY <1>2, <1>3, <1>4 DEF ServerInv

\* The names requests at work are about are names of the map.
LEMMA NameOf ==
    ASSUME ServerInv, NEW r \in Requests, pc[r] # "unsent"
    PROVE  /\ req[r] \in Sends[r] /\ req[r].name \in Names
           /\ req[r].method = "StoreShare" => req[r].share \in Share
BY SendsAssumption DEF ServerInv, TypeOK

LEMMA InvGetShare ==
    ASSUME ServerInv, NEW r \in Requests, GetShare(r)
    PROVE  ServerInv'
BY NameOf, ZenonT(30) DEF ServerInv, GetShare, Handles, Finds, Returns, TypeOK, FunctionsOK, LockOrder,
   HeldNoted, CallsTakeEffect, Open, ReadsOnly, serverVars

LEMMA InvHealthCheck ==
    ASSUME ServerInv, NEW r \in Requests, HealthCheck(r)
    PROVE  ServerInv'
BY ZenonT(30) DEF ServerInv, HealthCheck, Returns, TypeOK, FunctionsOK, LockOrder,
   HeldNoted, CallsTakeEffect, Open, ReadsOnly, serverVars

LEMMA InvWrites ==
    ASSUME ServerInv, NEW r \in Requests, StoreShare(r) \/ DeleteShare(r)
    PROVE  ServerInv'
<1> DEFINE n  == req[r].name
           sh == IF req[r].method = "StoreShare" THEN req[r].share ELSE NoShare
<1>1. /\ pc[r] = "locked" /\ ~ReadsOnly(r)
      /\ n \in Names /\ sh \in Share \cup {NoShare}
      /\ map' = [map EXCEPT ![n] = sh]
      /\ held' = [q \in Requests |->
             IF q \in Open /\ req[q].name = n THEN held[q] \cup {sh} ELSE held[q]]
      /\ pc' = [pc EXCEPT ![r] = "answered"]
      /\ answer' = [answer EXCEPT ![r] = "success"]
      /\ readers' = readers \ {r} /\ writer' = writer \ {r}
      /\ UNCHANGED <<env, main, serve, req, got>>
  BY NameOf DEF StoreShare, DeleteShare, Handles, Holds, Returns, ReadsOnly, serverVars
<1> HIDE DEF sh
<1>2. TypeOK' /\ FunctionsOK'
  BY <1>1 DEF ServerInv, TypeOK, FunctionsOK
<1>3. LockOrder'
  BY <1>1 DEF ServerInv, TypeOK, LockOrder, ReadsOnly
<1>4. HeldNoted'
  <2> SUFFICES ASSUME NEW q \in Open' PROVE map'[req[q].name] \in held'[q]
    BY <1>1 DEF HeldNoted
  <2>1. q \in Open /\ q \in Requests /\ q # r /\ req[q].name \in Names
    BY <1>1, NameOf DEF Open, ServerInv, TypeOK
  <2> QED
    BY <1>1, <2>1 DEF ServerInv, TypeOK, FunctionsOK, HeldNoted
<1>5. CallsTakeEffect'
  <2>1. r \in Open /\ sh \in held'[r]
    BY <1>1 DEF Open, ServerInv, FunctionsOK
  <2>2. \A q \in Requests : held[q] \subseteq held'[q]
    BY <1>1
  <2> QED
    BY <1>1, <2>1, <2>2, ZenonT(30) DEF ServerInv, TypeOK, FunctionsOK, CallsTakeEffect, sh, ReadsOnly
<1> QED
  BY <1>2, <1>3, <1>4, <1>5 DEF ServerInv

-----------------------------------------------------------------------------
(* The theorems.                                                           *)

LEMMA InvStep == ServerInv /\ [Next]_vars => ServerInv'
<1> SUFFICES ASSUME ServerInv, [Next]_vars PROVE ServerInv'
  OBVIOUS
<1>1. CASE ProcessStarts \/ Listens \/ ServeBegins \/ NotifiesSignals \/ GracefulStop
  BY <1>1, InvMain
<1>2. CASE StartupFails \/ ProcessStops \/ ProcessKilled
  BY <1>2, InvDies DEF StartupFails, ProcessStops, ProcessKilled
<1>3. ASSUME NEW r \in Requests, NEW m \in Sends[r], Arrives(r, m) PROVE ServerInv'
  BY <1>3, InvArrives
<1>4. ASSUME NEW r \in Requests, Intercepts(r) PROVE ServerInv'
  BY <1>4, InvIntercepts
<1>5. ASSUME NEW r \in Requests, RLock(r) \/ LockAnnounces(r) \/ LockAcquires(r)
      PROVE  ServerInv'
  BY <1>5, InvLocks
<1>6. ASSUME NEW r \in Requests, GetShare(r) PROVE ServerInv'
  BY <1>6, InvGetShare
<1>7. ASSUME NEW r \in Requests, StoreShare(r) \/ DeleteShare(r) PROVE ServerInv'
  BY <1>7, InvWrites
<1>8. ASSUME NEW r \in Requests, HealthCheck(r) PROVE ServerInv'
  BY <1>8, InvHealthCheck
<1>9. CASE UNCHANGED vars
  BY <1>9 DEF vars, serverVars, muVars, ServerInv, TypeOK, FunctionsOK, LockOrder, HeldNoted,
     CallsTakeEffect, Open, ReadsOnly
<1> QED
  BY <1>1, <1>2, <1>3, <1>4, <1>5, <1>6, <1>7, <1>8, <1>9 DEF Next

\* The inductive invariant of a server and its requests.
THEOREM ServerInvariance == Spec => []ServerInv
BY InvInit, InvStep, PTL DEF Spec

\* Every reachable state has the declared types, with any number of requests.
THEOREM ServerTypeCorrect == Spec => []TypeOK
<1>1. ServerInv => TypeOK
  BY DEF ServerInv
<1> QED
  BY <1>1, ServerInvariance, PTL

\* While a handler writes the map no other one is in it (s.mu in
\* share-server main.go:31-80).
THEOREM AccessIsExclusive == Spec => []MapAccessIsExclusive
<1>1. ServerInv => MapAccessIsExclusive
  <2> SUFFICES ASSUME ServerInv, NEW r \in Requests, NEW q \in Requests,
                      pc[r] = "locked", pc[q] = "locked", r # q
               PROVE  ReadsOnly(r) /\ ReadsOnly(q)
    BY DEF MapAccessIsExclusive, ReadsOnly
  <2> QED
    BY DEF ServerInv, LockOrder
<1> QED
  BY <1>1, ServerInvariance, PTL

\* Every request takes effect between its arrival and its answer, however many
\* others there are (share-server main.go:31-80).
THEOREM EveryCallTakesEffect == Spec => []CallsTakeEffect
<1>1. ServerInv => CallsTakeEffect
  BY DEF ServerInv
<1> QED
  BY <1>1, ServerInvariance, PTL

-----------------------------------------------------------------------------
(* The server implements ShareMap with N = 1.                              *)

\* What the abstract map of one server is.
LEMMA OneServer ==
    /\ Abstract!Servers = {1}
    /\ Abstract!Share = Share
    /\ Abstract!Empty = Empty
<1>1. Abstract!Servers = {1}
  BY DEF Abstract!Servers
<1>2. Abstract!Share = Share
  BY <1>1 DEF Abstract!Share, Share
<1>3. Abstract!Empty = Empty
  BY DEF Abstract!Empty, Empty
<1> QED
  BY <1>1, <1>2, <1>3

LEMMA AbstractInit == Init => Abstract!MapInit
<1> SUFFICES ASSUME Init PROVE Abstract!MapInit
  OBVIOUS
<1>1. map = Empty /\ (main # "down") = TRUE
  BY DEF Init
<1>2. [s \in {1} |-> map] = [s \in {1} |-> Empty]
  BY <1>1
<1>3. [s \in {1} |-> main # "down"] = [s \in {1} |-> TRUE]
  BY <1>1
<1> QED
  BY <1>2, <1>3, OneServer DEF Abstract!MapInit

\* The map and whether there is a process are all that ShareMap sees.
LEMMA Unseen ==
    ASSUME map' = map, (main # "down") <=> (main' # "down")
    PROVE  UNCHANGED Abstract!mapVars
BY DEF Abstract!mapVars

LEMMA DiesAbstract ==
    ASSUME main # "down", Dies
    PROVE  Abstract!MapNext
<1>1. [s \in {1} |-> main # "down"][1]
  OBVIOUS
<1>2. [s \in {1} |-> main # "down"]' = [[s \in {1} |-> main # "down"] EXCEPT ![1] = FALSE]
  BY DEF Dies
<1>3. [s \in {1} |-> map]' = [[s \in {1} |-> map] EXCEPT ![1] = Empty]
  BY DEF Dies
<1>4. Abstract!ProcessExits(1)
  BY <1>1, <1>2, <1>3, OneServer DEF Abstract!ProcessExits
<1> QED
  BY <1>4, OneServer DEF Abstract!MapNext

LEMMA StartsAbstract ==
    ASSUME ProcessStarts
    PROVE  Abstract!MapNext
<1>1. ~[s \in {1} |-> main # "down"][1]
  BY DEF ProcessStarts
<1>2. [s \in {1} |-> main # "down"]' = [[s \in {1} |-> main # "down"] EXCEPT ![1] = TRUE]
  BY DEF ProcessStarts
<1>3. [s \in {1} |-> map]' = [s \in {1} |-> map]
  BY DEF ProcessStarts
<1>4. Abstract!ProcessStarts(1)
  BY <1>1, <1>2, <1>3 DEF Abstract!ProcessStarts
<1> QED
  BY <1>4, OneServer DEF Abstract!MapNext

\* A store or a delete is one step of the abstract map.
LEMMA WritesAbstract ==
    ASSUME ServerInv, main # "down", NEW r \in Requests, StoreShare(r) \/ DeleteShare(r)
    PROVE  Abstract!MapNext
<1> DEFINE n == req[r].name
<1>1. pc[r] # "unsent"
  BY DEF StoreShare, DeleteShare, Handles
<1>2. n \in Names
  BY <1>1, NameOf
<1>3. [s \in {1} |-> main # "down"][1]
  OBVIOUS
<1>4. [s \in {1} |-> main # "down"]' = [s \in {1} |-> main # "down"]
  BY DEF StoreShare, DeleteShare, Returns, serverVars
<1>5. CASE StoreShare(r)
  <2> DEFINE sh == req[r].share
  <2>1. sh \in Share
    BY <1>1, <1>5, NameOf DEF StoreShare, Handles
  <2>2. [s \in {1} |-> map]' = [[s \in {1} |-> map] EXCEPT ![1][n] = sh]
    BY <1>5 DEF StoreShare, Holds
  <2>3. Abstract!StoreShare(1, n, sh)
    BY <1>3, <1>4, <2>2 DEF Abstract!StoreShare
  <2> QED
    BY <1>2, <2>1, <2>3, OneServer DEF Abstract!MapNext
<1>6. CASE DeleteShare(r)
  <2>1. [s \in {1} |-> map]' = [[s \in {1} |-> map] EXCEPT ![1][n] = NoShare]
    BY <1>6 DEF DeleteShare, Holds
  <2>2. Abstract!DeleteShare(1, n)
    BY <1>3, <1>4, <2>1 DEF Abstract!DeleteShare
  <2> QED
    BY <1>2, <2>2, OneServer DEF Abstract!MapNext
<1> QED
  BY <1>5, <1>6

\* Without a process no request is at work and none is accepted.
NoProcessNoWork == main = "down" => Open = {} /\ serve = "no"

LEMMA NoWorkInit == Init => NoProcessNoWork
BY DEF Init, NoProcessNoWork

LEMMA NoWorkStep == ServerInv /\ NoProcessNoWork /\ [Next]_vars => NoProcessNoWork'
<1> SUFFICES ASSUME ServerInv, NoProcessNoWork, [Next]_vars, main' = "down"
             PROVE  Open' = {} /\ serve' = "no"
  BY DEF NoProcessNoWork
<1>1. CASE Dies
  BY <1>1 DEF Dies, Open, ServerInv, TypeOK
<1>2. ASSUME NEW r \in Requests, NEW m \in Sends[r], Arrives(r, m)
      PROVE  FALSE
  BY <1>2 DEF Arrives, serverVars, NoProcessNoWork
<1>3. ASSUME NEW r \in Requests, Handler(r)
      PROVE  FALSE
  <2>1. r \in Open
    BY <1>3 DEF Handler, Intercepts, RLock, LockAnnounces, LockAcquires, GetShare, StoreShare,
       DeleteShare, HealthCheck, Handles, Open
  <2>2. main' = main
    BY <1>3 DEF Handler, Intercepts, RLock, LockAnnounces, LockAcquires, GetShare, StoreShare,
       DeleteShare, HealthCheck, Returns, serverVars
  <2> QED
    BY <2>1, <2>2 DEF NoProcessNoWork
<1>4. CASE ProcessStarts \/ Listens \/ ServeBegins \/ NotifiesSignals \/ GracefulStop
  BY <1>4 DEF ProcessStarts, Listens, ServeBegins, NotifiesSignals, GracefulStop
<1>5. CASE UNCHANGED vars
  BY <1>5 DEF vars, serverVars, Open, NoProcessNoWork
<1> QED
  BY <1>1, <1>2, <1>3, <1>4, <1>5
  DEF Next, Handler, StartupFails, ProcessStops, ProcessKilled

LEMMA StepImplements ==
    ServerInv /\ NoProcessNoWork /\ [Next]_vars => [Abstract!MapNext]_(Abstract!mapVars)
<1> SUFFICES ASSUME ServerInv, NoProcessNoWork, [Next]_vars
             PROVE  Abstract!MapNext \/ UNCHANGED Abstract!mapVars
  OBVIOUS
<1>1. CASE ProcessStarts
  BY <1>1, StartsAbstract
<1>2. CASE StartupFails \/ ProcessStops \/ ProcessKilled
  BY <1>2, DiesAbstract DEF StartupFails, ProcessStops, ProcessKilled
<1>3. CASE Listens \/ ServeBegins \/ NotifiesSignals \/ GracefulStop
  BY <1>3, Unseen DEF Listens, ServeBegins, NotifiesSignals, GracefulStop
<1>4. ASSUME NEW r \in Requests, StoreShare(r) \/ DeleteShare(r)
      PROVE  Abstract!MapNext
  <2>1. r \in Open
    BY <1>4 DEF StoreShare, DeleteShare, Handles, Open
  <2> QED
    BY <1>4, <2>1, WritesAbstract DEF NoProcessNoWork
<1>5. ASSUME NEW r \in Requests, NEW m \in Sends[r], Arrives(r, m)
      PROVE  UNCHANGED Abstract!mapVars
  BY <1>5, Unseen DEF Arrives, serverVars
<1>6. ASSUME NEW r \in Requests,
             \/ Intercepts(r) \/ RLock(r) \/ LockAnnounces(r) \/ LockAcquires(r)
             \/ GetShare(r) \/ HealthCheck(r)
      PROVE  UNCHANGED Abstract!mapVars
  BY <1>6, Unseen
  DEF Intercepts, RLock, LockAnnounces, LockAcquires, GetShare, HealthCheck, Returns, serverVars
<1>7. CASE UNCHANGED vars
  BY <1>7, Unseen DEF vars, serverVars
<1> QED
  BY <1>1, <1>2, <1>3, <1>4, <1>5, <1>6, <1>7 DEF Next

\* The lock, the goroutines and the process together give what ShareMap
\* promises: a map on which calls act atomically and which a new process starts
\* empty (share-server main.go:31-80, 117-120).
THEOREM ServerImplementsShareMap == Spec => ImplementsShareMap
<1>1. Spec => []NoProcessNoWork
  BY NoWorkInit, NoWorkStep, ServerInvariance, PTL DEF Spec
<1> QED
  BY AbstractInit, StepImplements, ServerInvariance, <1>1, PTL
  DEF Spec, ImplementsShareMap, Abstract!MapSpec

-----------------------------------------------------------------------------
(* Tokens and identities.                                                  *)

\* Three pieces of a subject: the fixed two, the namespace, and the rest.
LEMMA SubjectParts ==
    ASSUME NEW sub \in Seq(STRING), Len(sub) >= 4
    PROVE  LET id == <<sub[3]>> \o SubSeq(sub, 4, Len(sub))
           IN  /\ id \in Seq(STRING) /\ Len(id) >= 2
               /\ id[1] = sub[3] /\ Tail(id) = SubSeq(sub, 4, Len(sub))
               /\ sub = <<sub[1], sub[2]>> \o id
OBVIOUS

\* And back: what an identity is behind the fixed two.
LEMMA IdentityParts ==
    ASSUME NEW S, NEW a, NEW b, NEW id \in Seq(S), Len(id) >= 2,
           NEW sub, sub = <<a, b>> \o id
    PROVE  /\ Len(sub) >= 4
           /\ sub[1] = a /\ sub[2] = b /\ sub[3] = id[1]
           /\ SubSeq(sub, 4, Len(sub)) = Tail(id)
           /\ <<sub[3]>> \o Tail(id) = id
<1>1. Len(sub) >= 4 /\ sub[1] = a /\ sub[2] = b /\ sub[3] = id[1]
  OBVIOUS
<1>2. SubSeq(sub, 4, Len(sub)) = Tail(id)
  OBVIOUS
<1>3. <<id[1]>> \o Tail(id) = id
  OBVIOUS
<1> QED
  BY <1>1, <1>2, <1>3

\* GetShare gets past the interceptor with the token of an allowed caller, and
\* with no other.
LEMMA DecisionForCallers ==
    ASSUME NEW c, c.callers \subseteq Seq(STRING), c.devMode \in BOOLEAN,
           NEW tokens \in Seq([form : STRING, sub : Seq(STRING), expired : BOOLEAN])
    PROVE  Decision(c, "GetShare", tokens) = "handler"
               <=> c.devMode /\ \E id \in c.callers : IsTokenOf(id, tokens)
<1>1. CASE tokens = <<>>
  BY <1>1 DEF Decision, SkipsAuth, IsTokenOf
<1>2. ASSUME tokens # <<>>
      PROVE  Decision(c, "GetShare", tokens) = "handler"
                 <=> c.devMode /\ \E id \in c.callers : IsTokenOf(id, tokens)
  <2> DEFINE sub    == tokens[1].sub
             rest   == SubSeq(sub, 4, Len(sub))
             claims == ValidateToken(c.devMode, tokens[1])
             parsed == [namespace |-> sub[3], serviceAccount |-> rest]
  <2>1. sub \in Seq(STRING) /\ Len(sub) \in Nat
    <3>1. 1 \in 1..Len(tokens)
      BY <1>2, EmptySeq
    <3>2. tokens[1] \in [form : STRING, sub : Seq(STRING), expired : BOOLEAN]
      BY <3>1, ElementOfSeq
    <3> QED
      BY <3>2, LenProperties
  <2>2. Identity(parsed) = <<sub[3]>> \o rest
    BY DEF Identity
  <2>3. Decision(c, "GetShare", tokens) = "handler" <=> \E d \in claims : Identity(d) \in c.callers
    BY <1>2 DEF Decision, SkipsAuth
  <2>4. claims = IF tokens[1].form # "JSON" \/ sub = <<>> \/ ~c.devMode THEN {}
                 ELSE ParseServiceAccountIdentity(sub)
    BY DEF ValidateToken
  <2>5. ParseServiceAccountIdentity(sub) =
            IF \/ Len(sub) < 4
               \/ sub[1] # "system" \/ sub[2] # "serviceaccount"
               \/ sub[3] = "" \/ rest = <<"">>
            THEN {} ELSE {parsed}
    BY DEF ParseServiceAccountIdentity
  <2>6. ASSUME NEW id \in c.callers, IsTokenOf(id, tokens), c.devMode
        PROVE  id = Identity(parsed) /\ claims = {parsed}
    <3>1. /\ id \in Seq(STRING) /\ Len(id) >= 2 /\ id[1] # "" /\ Tail(id) # <<"">>
          /\ tokens[1].form = "JSON"
          /\ sub = <<"system", "serviceaccount">> \o id
      BY <2>6 DEF IsTokenOf
    <3> HIDE DEF sub, rest, parsed, claims
    <3>2. /\ Len(sub) >= 4
          /\ sub[1] = "system" /\ sub[2] = "serviceaccount" /\ sub[3] = id[1]
          /\ SubSeq(sub, 4, Len(sub)) = Tail(id) /\ <<sub[3]>> \o Tail(id) = id
      <4>1. id \in Seq(STRING)
        BY <3>1
      <4>2. Len(id) >= 2
        BY <3>1
      <4>3. sub = <<"system", "serviceaccount">> \o id
        BY <3>1
      <4> QED
        BY <4>1, <4>2, <4>3, IdentityParts, SMTT(30)
    <3>3. rest = Tail(id)
      BY <3>2 DEF rest
    <3>4. sub # <<>> /\ sub[3] # "" /\ rest # <<"">> /\ ~(Len(sub) < 4)
      <4>1. Len(<<>>) = 0
        OBVIOUS
      <4>2. sub # <<>> /\ ~(Len(sub) < 4)
        BY <3>2, <2>1, <4>1
      <4> QED
        BY <3>1, <3>2, <3>3, <4>2, Zenon
    <3>5. claims = ParseServiceAccountIdentity(sub)
      BY <2>4, <2>6, <3>1, <3>4
    <3>6. ParseServiceAccountIdentity(sub) = {parsed}
      BY <2>5, <3>2, <3>4
    <3> QED
      BY <2>2, <3>2, <3>3, <3>5, <3>6
  <2>7. ASSUME claims # {}, Identity(parsed) \in c.callers
        PROVE  c.devMode /\ IsTokenOf(Identity(parsed), tokens)
    <3>1. /\ tokens[1].form = "JSON" /\ c.devMode /\ Len(sub) >= 4
          /\ sub[1] = "system" /\ sub[2] = "serviceaccount"
          /\ sub[3] # "" /\ rest # <<"">>
      <4> HIDE DEF sub, rest, parsed, claims
      <4>1. /\ ~(tokens[1].form # "JSON" \/ sub = <<>> \/ ~c.devMode)
            /\ claims = ParseServiceAccountIdentity(sub)
        BY <2>4, <2>7
      <4>2. ~( \/ Len(sub) < 4
               \/ sub[1] # "system" \/ sub[2] # "serviceaccount"
               \/ sub[3] = "" \/ rest = <<"">> )
        BY <2>5, <2>7, <4>1
      <4>3. ~(Len(sub) < 4)
        BY <4>2, Zenon
      <4>4. Len(sub) >= 4
        BY <2>1, <4>3
      <4> QED
        BY <4>1, <4>2, <4>4, Zenon
    <3>2. LET id == Identity(parsed)
          IN  /\ Len(id) >= 2 /\ id[1] = sub[3] /\ Tail(id) = rest
              /\ sub = <<sub[1], sub[2]>> \o id
      BY <2>1, <2>2, <3>1, SubjectParts
    <3> QED
      BY <1>2, <3>1, <3>2 DEF IsTokenOf
  <2>8. claims # {} => claims = {parsed}
    BY <2>4, <2>5
  <2> HIDE DEF sub, rest, parsed, claims
  <2> QED
    BY <2>3, <2>6, <2>7, <2>8
<1> QED
  BY <1>1, <1>2

-----------------------------------------------------------------------------
(* Who gets an answer of GetShare.                                         *)

LEMMA StartedIsLoaded == Config(env) # {} => Started \in Config(env)
BY Zenon DEF Started

LEMMA OnByDefault ==
    ASSUME NEW value
    PROVE  /\ getEnvAsBoolOrDefault(value, TRUE) \in BOOLEAN
           /\ getEnvAsBoolOrDefault(value, TRUE) <=> value \in {"", "true", "1", "yes"}
<1>1. getEnvAsBoolOrDefault(value, TRUE) \in BOOLEAN
  <2>1. (value \in {"true", "1", "yes"}) \in BOOLEAN
    OBVIOUS
  <2> QED
    BY <2>1, Zenon DEF getEnvAsBoolOrDefault
<1>2. getEnvAsBoolOrDefault(value, TRUE) <=> value \in {"", "true", "1", "yes"}
  <2>1. CASE value = ""
    BY <2>1, Zenon DEF getEnvAsBoolOrDefault
  <2>2. CASE value # ""
    BY <2>2, Zenon DEF getEnvAsBoolOrDefault
  <2> QED
    BY <2>1, <2>2
<1> QED
  BY <1>1, <1>2

LEMMA ConfigMeans ==
    ASSUME NEW e, NEW c \in Config(e)
    PROVE  /\ c.callers = AllowedCallers(e)
           /\ c.devMode \in BOOLEAN
           /\ c.devMode <=> e.DEV_MODE \in {"", "true", "1", "yes"}
<1>1. PICK l \in LoadShareServerConfig(e) : \E t \in LoadServerTLSConfig(l, e) :
          c = [callers |-> l.callers, devMode |-> l.devMode, transport |-> t]
  BY DEF Config
<1>2. l = [callers |-> AllowedCallers(e),
           devMode |-> getEnvAsBoolOrDefault(e.DEV_MODE, TRUE),
           tls     |-> getEnvAsBoolOrDefault(e.TLS_ENABLED, FALSE)]
  BY DEF LoadShareServerConfig
<1>3. c.callers = AllowedCallers(e) /\ c.devMode = getEnvAsBoolOrDefault(e.DEV_MODE, TRUE)
  BY <1>1, <1>2
<1> QED
  BY <1>3, OnByDefault

Decided(r) == Decision(Started, req[r].method, req[r].tokens)

\* No request is accepted before a configuration has been loaded.
ServesConfigured ==
    /\ main \in {"listening", "waiting", "stopping"} => Config(env) # {}
    /\ serve = "yes" => main \in {"listening", "waiting"}
    /\ \A r \in Requests : pc[r] # "unsent" => Config(env) # {}

\* The interceptor's decision stands while the handler works and in the answer.
DecisionStands ==
    \A r \in Requests :
        /\ pc[r] \in {"handler", "locking", "locked"} => Decided(r) = "handler"
        /\ pc[r] = "answered" =>
              \/ answer[r] = "not connected"
              \/ answer[r] \in {"Unauthenticated", "PermissionDenied"} /\ Decided(r) # "handler"
              \/ answer[r] \in {"share", "not found"} /\ Decided(r) = "handler"
              \/ answer[r] = "success" /\ req[r].method # "GetShare"

AccessInv == ServesConfigured /\ DecisionStands

LEMMA AccessInit == Init => AccessInv
BY DEF Init, AccessInv, ServesConfigured, DecisionStands

\* The configuration never changes, and a decision only if the request does.
LEMMA DecidedAgain ==
    ASSUME env' = env
    PROVE  /\ Config(env)' = Config(env) /\ Started' = Started
           /\ \A r \in Requests : req'[r] = req[r] => Decided(r)' = Decided(r)
<1>1. Config(env)' = Config(env)
  OBVIOUS
<1>2. Started' = Started
  BY DEF Started
<1> QED
  BY <1>1, <1>2 DEF Decided

LEMMA AccessMain ==
    ASSUME ServerInv, AccessInv,
           \/ Dies \/ ProcessStarts \/ Listens \/ ServeBegins \/ NotifiesSignals \/ GracefulStop
    PROVE  AccessInv'
<1>1. env' = env /\ req' = req /\ answer' = answer
  BY DEF Dies, ProcessStarts, Listens, ServeBegins, NotifiesSignals, GracefulStop
<1>2. \A r \in Requests : pc'[r] = pc[r] \/ (pc[r] # "unsent" /\ pc'[r] = "lost")
  BY DEF Dies, ProcessStarts, Listens, ServeBegins, NotifiesSignals, GracefulStop, Open,
     ServerInv, TypeOK
<1>3. ServesConfigured'
  BY <1>1, <1>2, DecidedAgain
  DEF Dies, ProcessStarts, Listens, ServeBegins, NotifiesSignals, GracefulStop, AccessInv,
      ServesConfigured
<1>4. DecisionStands'
  BY <1>1, <1>2, DecidedAgain DEF AccessInv, DecisionStands
<1> QED
  BY <1>3, <1>4 DEF AccessInv

LEMMA AccessArrives ==
    ASSUME ServerInv, AccessInv, NEW r \in Requests, NEW m \in Sends[r], Arrives(r, m)
    PROVE  AccessInv'
<1>1. /\ pc[r] = "unsent" /\ serve = "yes"
      /\ req' = [req EXCEPT ![r] = m]
      /\ UNCHANGED <<env, main, serve>>
  BY DEF Arrives, serverVars
<1>2. Config(env) # {}
  BY <1>1 DEF AccessInv, ServesConfigured
<1>3. \A q \in Requests : q # r => /\ req'[q] = req[q] /\ pc'[q] = pc[q]
                                   /\ answer'[q] = answer[q]
  BY <1>1 DEF Arrives, ServerInv, TypeOK, FunctionsOK
<1>4. ServesConfigured'
  BY <1>1, <1>2, <1>3, DecidedAgain DEF AccessInv, ServesConfigured
<1>5. \/ pc'[r] = "accepted" /\ answer'[r] = answer[r]
      \/ pc'[r] = "answered" /\ answer'[r] = "not connected"
  BY <1>1 DEF Arrives, ServerInv, TypeOK
<1>6. DecisionStands'
  BY <1>1, <1>3, <1>5, DecidedAgain, ZenonT(30) DEF AccessInv, DecisionStands
<1> QED
  BY <1>4, <1>6 DEF AccessInv

LEMMA AccessIntercepts ==
    ASSUME ServerInv, AccessInv, NEW r \in Requests, Intercepts(r)
    PROVE  AccessInv'
<1>1. pc[r] = "accepted" /\ UNCHANGED <<env, main, serve, req>>
  BY DEF Intercepts, serverVars
<1>2. \/ pc'[r] = "handler" /\ Decided(r) = "handler"
      \/ /\ pc'[r] = "answered" /\ Decided(r) # "handler"
         /\ answer'[r] \in {"Unauthenticated", "PermissionDenied"}
  <2> DEFINE d == Decision(Started, req[r].method, req[r].tokens)
  <2>1. d = Decided(r) /\ d \in {"handler", "Unauthenticated", "PermissionDenied"}
    BY DecisionRange DEF Decided
  <2>2. CASE d = "handler"
    BY <2>1, <2>2 DEF Intercepts, ServerInv, TypeOK
  <2>3. CASE d # "handler"
    <3>1. pc' = [pc EXCEPT ![r] = "answered"] /\ answer' = [answer EXCEPT ![r] = d]
      BY <2>3 DEF Intercepts
    <3> HIDE DEF d
    <3> QED
      BY <2>1, <2>3, <3>1 DEF ServerInv, TypeOK
  <2> QED
    BY <2>2, <2>3
<1>3. \A q \in Requests : q # r => pc'[q] = pc[q] /\ answer'[q] = answer[q]
  BY DEF Intercepts, ServerInv, TypeOK
<1>4. ServesConfigured'
  BY <1>1, <1>3, DecidedAgain DEF AccessInv, ServesConfigured
<1>5. DecisionStands'
  BY <1>1, <1>2, <1>3, DecidedAgain DEF AccessInv, DecisionStands
<1> QED
  BY <1>4, <1>5 DEF AccessInv

LEMMA AccessLocks ==
    ASSUME ServerInv, AccessInv, NEW r \in Requests,
           RLock(r) \/ LockAnnounces(r) \/ LockAcquires(r)
    PROVE  AccessInv'
<1>1. /\ pc[r] \in {"handler", "locking"} /\ pc'[r] \in {"locking", "locked"}
      /\ UNCHANGED <<env, main, serve, req, answer>>
  BY DEF RLock, LockAnnounces, LockAcquires, serverVars, ServerInv, TypeOK
<1>2. \A q \in Requests : q # r => pc'[q] = pc[q]
  BY DEF RLock, LockAnnounces, LockAcquires, ServerInv, TypeOK
<1>3. ServesConfigured'
  BY <1>1, <1>2, DecidedAgain DEF AccessInv, ServesConfigured
<1>4. DecisionStands'
  BY <1>1, <1>2, DecidedAgain DEF AccessInv, DecisionStands
<1> QED
  BY <1>3, <1>4 DEF AccessInv

LEMMA AccessAnswers ==
    ASSUME ServerInv, AccessInv, NEW r \in Requests,
           GetShare(r) \/ StoreShare(r) \/ DeleteShare(r) \/ HealthCheck(r)
    PROVE  AccessInv'
<1>1. /\ pc[r] \in {"handler", "locked"} /\ pc'[r] = "answered"
      /\ UNCHANGED <<env, main, serve, req>>
  BY DEF GetShare, StoreShare, DeleteShare, HealthCheck, Handles, Returns, serverVars, ServerInv,
     TypeOK
<1>2. \A q \in Requests : q # r => pc'[q] = pc[q] /\ answer'[q] = answer[q]
  BY DEF GetShare, StoreShare, DeleteShare, HealthCheck, Returns, ServerInv, TypeOK
<1>3. \/ answer'[r] = "success" /\ req[r].method # "GetShare"
      \/ answer'[r] \in {"not found", "share"}
  BY DEF GetShare, StoreShare, DeleteShare, HealthCheck, Handles, Returns, Finds, ServerInv, TypeOK
<1>4. ServesConfigured'
  BY <1>1, <1>2, DecidedAgain DEF AccessInv, ServesConfigured
<1>5. DecisionStands'
  BY <1>1, <1>2, <1>3, DecidedAgain, ZenonT(30) DEF AccessInv, DecisionStands
<1> QED
  BY <1>4, <1>5 DEF AccessInv

LEMMA AccessStep == ServerInv /\ AccessInv /\ [Next]_vars => AccessInv'
<1> SUFFICES ASSUME ServerInv, AccessInv, [Next]_vars PROVE AccessInv'
  OBVIOUS
<1>1. CASE Dies \/ ProcessStarts \/ Listens \/ ServeBegins \/ NotifiesSignals \/ GracefulStop
  BY <1>1, AccessMain
<1>2. ASSUME NEW r \in Requests, NEW m \in Sends[r], Arrives(r, m) PROVE AccessInv'
  BY <1>2, AccessArrives
<1>3. ASSUME NEW r \in Requests, Intercepts(r) PROVE AccessInv'
  BY <1>3, AccessIntercepts
<1>4. ASSUME NEW r \in Requests, RLock(r) \/ LockAnnounces(r) \/ LockAcquires(r)
      PROVE  AccessInv'
  BY <1>4, AccessLocks
<1>5. ASSUME NEW r \in Requests,
             GetShare(r) \/ StoreShare(r) \/ DeleteShare(r) \/ HealthCheck(r)
      PROVE  AccessInv'
  BY <1>5, AccessAnswers
<1>6. CASE UNCHANGED vars
  <2>1. env' = env /\ req' = req
    BY <1>6 DEF vars, serverVars
  <2> QED
    BY <1>6, <2>1, DecidedAgain
    DEF vars, serverVars, AccessInv, ServesConfigured, DecisionStands
<1> QED
  BY <1>1, <1>2, <1>3, <1>4, <1>5, <1>6 DEF Next, StartupFails, ProcessStops, ProcessKilled

LEMMA AccessInvariance == Spec => []AccessInv
BY AccessInit, AccessStep, ServerInvariance, PTL DEF Spec

\* Whatever the environment, and whatever is sent in whatever order: the callers
\* of ALLOWED_CALLERS get an answer of GetShare, and no others do (interceptors.go
\* 36-88, claims.go:22-54, server.go:47-50).
THEOREM OnlyAllowedCallersGetShares == Spec => []GetShareIsForAllowedCallers
<1>1. ServerInv /\ AccessInv => GetShareIsForAllowedCallers
  <2> SUFFICES ASSUME ServerInv, AccessInv, NEW r \in Requests,
                      pc[r] = "answered", answer[r] # "not connected",
                      req[r].method = "GetShare"
               PROVE  answer[r] \in {"share", "not found"} <=>
                          /\ env.DEV_MODE \in {"", "true", "1", "yes"}
                          /\ \E i \in DOMAIN env.callers :
                                IsTokenOf(env.callers[i].id, req[r].tokens)
    BY DEF GetShareIsForAllowedCallers
  <2>1. answer[r] \in {"share", "not found"} <=> Decided(r) = "handler"
    BY DEF AccessInv, DecisionStands
  <2>2. /\ Started.callers = AllowedCallers(env)
        /\ Started.devMode \in BOOLEAN
        /\ Started.devMode <=> env.DEV_MODE \in {"", "true", "1", "yes"}
    <3>1. Config(env) # {}
      BY DEF AccessInv, ServesConfigured
    <3> QED
      BY <3>1, StartedIsLoaded, ConfigMeans
  <2>3. AllowedCallers(env) \subseteq Seq(STRING)
    <3>1. env.callers \in Seq([id : Seq(STRING), blanks : BOOLEAN])
      BY EnvsAssumption DEF ServerInv, TypeOK
    <3>2. \A i \in DOMAIN env.callers : env.callers[i] \in [id : Seq(STRING), blanks : BOOLEAN]
      BY <3>1, ElementOfSeq, LenProperties
    <3> QED
      BY <3>2 DEF AllowedCallers
  <2>4. req[r].tokens \in Seq([form : STRING, sub : Seq(STRING), expired : BOOLEAN])
    BY SendsAssumption DEF ServerInv, TypeOK
  <2>5. Started.devMode \in BOOLEAN /\ Started.callers \subseteq Seq(STRING)
    BY <2>2, <2>3
  <2>6. Decided(r) = "handler"
            <=> Started.devMode /\ \E id \in Started.callers : IsTokenOf(id, req[r].tokens)
    BY <2>4, <2>5, DecisionForCallers DEF Decided
  <2>7. (\E id \in AllowedCallers(env) : IsTokenOf(id, req[r].tokens))
            <=> \E i \in DOMAIN env.callers : IsTokenOf(env.callers[i].id, req[r].tokens)
    BY DEF AllowedCallers
  <2> QED
    BY <2>1, <2>2, <2>6, <2>7
<1> QED
  BY <1>1, ServerInvariance, AccessInvariance, PTL

-----------------------------------------------------------------------------
(* What is left to do for the requests.  StopEnds itself needs fairness for  *)
(* each of these steps; that there is always one, and only so many, is       *)
(* shown here.                                                               *)

\* r can do its next step: Handler(r), by its guards.
CanGoOn(r) ==
    \/ pc[r] = "accepted"
    \/ pc[r] = "handler" /\ (req[r].method = "HealthCheck" \/ writer = {})
    \/ pc[r] = "locking" /\ readers = {}
    \/ \E method \in {"GetShare", "StoreShare", "DeleteShare"} : Handles(r, method)

\* s.mu never blocks all requests that are at work.
NoDeadlock == Open # {} => \E r \in Open : CanGoOn(r)

Place == [unsent |-> 0, accepted |-> 1, handler |-> 2, locking |-> 3, locked |-> 4,
          answered |-> 5, lost |-> 5]

\* No request ever goes back; once the server stops none is accepted any more, and
\* every step until its end takes one of them on.
CloserToTheEnd ==
    /\ \A r \in Requests : Place[pc[r]] <= Place[pc'[r]]
    /\ main = "stopping" /\ main' # "down" =>
          Open' \subseteq Open /\ \E r \in Open : Place[pc[r]] < Place[pc'[r]]

\* Who has s.mu is at work, HealthCheck never asks for it, and Serve is over when
\* the server stops.
WorkInv ==
    /\ \A r \in readers : pc[r] = "locked"
    /\ \A r \in writer : pc[r] \in {"locking", "locked"}
    /\ \A r \in Requests : pc[r] \in {"locking", "locked"} => req[r].method # "HealthCheck"
    /\ serve = "yes" => main \in {"listening", "waiting"}

LEMMA WorkInit == Init => WorkInv
BY DEF Init, WorkInv

LEMMA WorkMain ==
    ServerInv /\ WorkInv /\
    (ProcessStarts \/ Listens \/ ServeBegins \/ NotifiesSignals \/ GracefulStop) => WorkInv'
BY DEF ProcessStarts, Listens, ServeBegins, NotifiesSignals, GracefulStop, muVars, WorkInv

LEMMA WorkArrives ==
    ASSUME ServerInv, WorkInv, NEW r \in Requests, NEW m \in Sends[r], Arrives(r, m)
    PROVE  WorkInv'
<1>1. /\ pc[r] = "unsent" /\ UNCHANGED <<main, serve, readers, writer>>
      /\ \A q \in Requests \ {r} : req'[q] = req[q] /\ pc'[q] = pc[q]
      /\ pc'[r] \in {"accepted", "answered"}
  BY DEF Arrives, serverVars, muVars, ServerInv, TypeOK, FunctionsOK
<1>2. readers \subseteq Requests \ {r} /\ writer \subseteq Requests \ {r}
  BY <1>1 DEF ServerInv, TypeOK, WorkInv
<1> QED
  BY <1>1, <1>2 DEF WorkInv

LEMMA WorkHandler ==
    ASSUME ServerInv, WorkInv, NEW r \in Requests, Handler(r)
    PROVE  WorkInv'
<1>1. /\ UNCHANGED <<main, serve, req>>
      /\ \A q \in Requests \ {r} : pc'[q] = pc[q]
      /\ readers' \subseteq Requests /\ writer' \subseteq Requests
  BY DEF Handler, Intercepts, RLock, LockAnnounces, LockAcquires, GetShare, StoreShare,
     DeleteShare, HealthCheck, Returns, serverVars, muVars, ServerInv, TypeOK
<1>2. /\ r \in readers' => pc'[r] = "locked"
      /\ r \in writer' => pc'[r] \in {"locking", "locked"}
      /\ pc'[r] \in {"locking", "locked"} => req[r].method # "HealthCheck"
      /\ readers' \subseteq readers \cup {r} /\ writer' \subseteq writer \cup {r}
  BY DEF Handler, Intercepts, RLock, LockAnnounces, LockAcquires, GetShare, StoreShare,
     DeleteShare, HealthCheck, Handles, Returns, serverVars, muVars, ServerInv, TypeOK, WorkInv
<1> QED
  BY <1>1, <1>2 DEF WorkInv

LEMMA WorkStep == ServerInv /\ WorkInv /\ [Next]_vars => WorkInv'
<1> SUFFICES ASSUME ServerInv, WorkInv, [Next]_vars PROVE WorkInv'
  OBVIOUS
<1>1. CASE ProcessStarts \/ Listens \/ ServeBegins \/ NotifiesSignals \/ GracefulStop
  BY <1>1, WorkMain
<1>2. CASE Dies
  BY <1>2 DEF Dies, WorkInv, Open, ServerInv, TypeOK
<1>3. ASSUME NEW r \in Requests, NEW m \in Sends[r], Arrives(r, m) PROVE WorkInv'
  BY <1>3, WorkArrives
<1>4. ASSUME NEW r \in Requests, Handler(r) PROVE WorkInv'
  BY <1>4, WorkHandler
<1>5. CASE UNCHANGED vars
  BY <1>5 DEF vars, serverVars, muVars, WorkInv
<1> QED
  BY <1>1, <1>2, <1>3, <1>4, <1>5 DEF Next, Handler, StartupFails, ProcessStops, ProcessKilled

LEMMA WorkInvariance == Spec => [](ServerInv /\ WorkInv)
<1>1. Init => ServerInv /\ WorkInv
  BY InvInit, WorkInit
<1>2. (ServerInv /\ WorkInv) /\ [Next]_vars => (ServerInv /\ WorkInv)'
  BY InvStep, WorkStep
<1> QED
  BY <1>1, <1>2, PTL DEF Spec

\* However many requests there are, readers and writers of the map never all wait for
\* s.mu: one of them can go on (share-server main.go:31-80).
THEOREM NoHandlerDeadlock == Spec => []NoDeadlock
<1>1. ServerInv /\ WorkInv => NoDeadlock
  <2> SUFFICES ASSUME ServerInv, WorkInv, NEW r \in Open
               PROVE  \E q \in Open : CanGoOn(q)
    BY DEF NoDeadlock
  <2>1. ASSUME NEW q \in Requests, pc[q] = "locked"
        PROVE  q \in Open /\ CanGoOn(q)
    <3>1. req[q] \in Sends[q]
      BY <2>1 DEF ServerInv, TypeOK
    <3>2. req[q].method \in {"GetShare", "StoreShare", "DeleteShare"}
      BY <2>1, <3>1, SendsAssumption DEF WorkInv
    <3> QED
      BY <2>1, <3>2 DEF Open, CanGoOn, Handles
  <2>2. CASE readers # {}
    <3>1. PICK q \in readers : q \in Requests /\ pc[q] = "locked"
      BY <2>2 DEF ServerInv, TypeOK, WorkInv
    <3> QED
      BY <2>1, <3>1
  <2>3. CASE readers = {} /\ writer # {}
    <3>1. PICK q \in writer : q \in Requests /\ pc[q] \in {"locking", "locked"}
      BY <2>3 DEF ServerInv, TypeOK, WorkInv
    <3>2. CASE pc[q] = "locking"
      BY <2>3, <3>1, <3>2 DEF Open, CanGoOn
    <3> QED
      BY <2>1, <3>1, <3>2
  <2>4. CASE readers = {} /\ writer = {}
    <3>1. r \in Requests /\ pc[r] \in {"accepted", "handler", "locking", "locked"}
      BY DEF Open
    <3>2. CASE pc[r] # "locked"
      BY <2>4, <3>1, <3>2 DEF CanGoOn
    <3> QED
      BY <2>1, <3>1, <3>2
  <2> QED
    BY <2>2, <2>3, <2>4
<1> QED
  BY <1>1, WorkInvariance, PTL

LEMMA HandlerForward ==
    ASSUME ServerInv, NEW r \in Requests, Handler(r)
    PROVE  /\ r \in Open /\ Place[pc[r]] < Place[pc'[r]]
           /\ \A q \in Requests \ {r} : pc'[q] = pc[q]
<1>1. /\ r \in Open
      /\ \A q \in Requests \ {r} : pc'[q] = pc[q]
  BY DEF Handler, Intercepts, RLock, LockAnnounces, LockAcquires, GetShare, StoreShare,
     DeleteShare, HealthCheck, Handles, Returns, Open, ServerInv, TypeOK
<1>2. \/ pc[r] = "accepted" /\ pc'[r] \in {"handler", "answered"}
      \/ pc[r] = "handler" /\ pc'[r] \in {"locking", "locked", "answered"}
      \/ pc[r] = "locking" /\ pc'[r] = "locked"
      \/ pc[r] = "locked" /\ pc'[r] = "answered"
  BY DEF Handler, Intercepts, RLock, LockAnnounces, LockAcquires, GetShare, StoreShare,
     DeleteShare, HealthCheck, Handles, Returns, ServerInv, TypeOK
<1>3. Place[pc[r]] < Place[pc'[r]]
  BY <1>2 DEF Place
<1> QED
  BY <1>1, <1>3

LEMMA PlaceNat ==
    \A p \in {"unsent", "accepted", "handler", "locking", "locked", "answered", "lost"} :
        Place[p] \in Nat
BY DEF Place

LEMMA StepCloser == ServerInv /\ WorkInv /\ [Next]_vars => [CloserToTheEnd]_vars
<1> SUFFICES ASSUME ServerInv, WorkInv, Next PROVE CloserToTheEnd
  OBVIOUS
<1>1. /\ \A r \in Requests : Place[pc[r]] \in Nat
      /\ \A r \in Requests : Place[pc'[r]] \in Nat
  <2>1. ServerInv'
    BY InvStep
  <2> QED
    BY <2>1, PlaceNat DEF ServerInv, TypeOK
<1>2. ASSUME NEW r \in Requests, Handler(r) PROVE CloserToTheEnd
  <2>1. /\ r \in Open /\ Place[pc[r]] < Place[pc'[r]]
        /\ \A q \in Requests \ {r} : pc'[q] = pc[q]
    BY <1>2, HandlerForward
  <2>2. Open' \subseteq Open
    BY <2>1 DEF Open
  <2>3. \A q \in Requests : Place[pc[q]] <= Place[pc'[q]]
    <3>1. Place[pc[r]] <= Place[pc'[r]]
      BY <1>1, <2>1
    <3> QED
      BY <1>1, <2>1, <3>1
  <2> QED
    BY <2>1, <2>2, <2>3 DEF CloserToTheEnd
<1>3. ASSUME NEW r \in Requests, NEW m \in Sends[r], Arrives(r, m) PROVE CloserToTheEnd
  <2>1. /\ main # "stopping" /\ pc[r] = "unsent" /\ pc'[r] \in {"accepted", "answered"}
        /\ \A q \in Requests \ {r} : pc'[q] = pc[q]
    BY <1>3 DEF Arrives, WorkInv, ServerInv, TypeOK
  <2>2. Place[pc[r]] <= Place[pc'[r]]
    BY <2>1 DEF Place
  <2> QED
    BY <1>1, <2>1, <2>2 DEF CloserToTheEnd
<1>4. CASE Dies
  <2>1. main' = "down"
    BY <1>4 DEF Dies
  <2>2. ASSUME NEW q \in Requests PROVE Place[pc[q]] <= Place[pc'[q]]
    <3>1. pc'[q] = pc[q] \/ (pc'[q] = "lost" /\ q \in Open)
      BY <1>4 DEF Dies
    <3>2. q \in Open => Place[pc[q]] <= Place["lost"]
      BY DEF Open, Place
    <3> QED
      BY <1>1, <3>1, <3>2
  <2> QED
    BY <2>1, <2>2 DEF CloserToTheEnd
<1>5. CASE ProcessStarts \/ Listens \/ ServeBegins \/ NotifiesSignals \/ GracefulStop
  <2>1. main # "stopping" /\ pc' = pc
    BY <1>5 DEF ProcessStarts, Listens, ServeBegins, NotifiesSignals, GracefulStop
  <2> QED
    BY <1>1, <2>1 DEF CloserToTheEnd
<1> QED
  BY <1>2, <1>3, <1>4, <1>5 DEF Next, Handler, StartupFails, ProcessStops, ProcessKilled

\* A stopping server takes a bounded number of steps, four at most for each request,
\* before it ends: it accepts none, and each step takes one of them on
\* (share-server main.go:163-165).
THEOREM StoppingIsBounded == Spec => [][CloserToTheEnd]_vars
BY StepCloser, WorkInvariance, PTL DEF Spec
=============================================================================
