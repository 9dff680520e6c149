------------------------ MODULE ShareFetcher_proofs -------------------------
(***************************************************************************)
(* Proofs about ShareFetcher, for any number of endpoints and any          *)
(* thresholds, retry limits and timeout.                                   *)
(***************************************************************************)
EXTENDS ShareFetcher, FiniteSetTheorems, SequenceTheorems, TLAPS

-----------------------------------------------------------------------------
(* Sequences without repetitions.                                          *)

Elems(s) == {s[i] : i \in 1..Len(s)}

Distinct(s) == \A i, j \in 1..Len(s) : s[i] = s[j] => i = j

LEMMA ElemsType ==
    ASSUME NEW S, NEW s \in Seq(S)
    PROVE  Elems(s) \subseteq S
BY LenProperties DEF Elems

LEMMA ElemsAppend ==
    ASSUME NEW S, NEW s \in Seq(S), NEW x \in S
    PROVE  /\ Append(s, x) \in Seq(S)
           /\ Elems(Append(s, x)) = Elems(s) \cup {x}
<1>1. /\ Append(s, x) \in Seq(S)
      /\ Len(s) \in Nat /\ Len(Append(s, x)) = Len(s) + 1
      /\ \A i \in 1..Len(s) : Append(s, x)[i] = s[i]
      /\ Append(s, x)[Len(s) + 1] = x
  BY AppendProperties, LenProperties
<1>2. 1..(Len(s) + 1) = 1..Len(s) \cup {Len(s) + 1}
  BY <1>1
<1> QED
  BY <1>1, <1>2 DEF Elems

LEMMA DistinctAppend ==
    ASSUME NEW S, NEW s \in Seq(S), NEW x \in S, Distinct(s), x \notin Elems(s)
    PROVE  Distinct(Append(s, x))
<1>1. /\ Len(s) \in Nat /\ Len(Append(s, x)) = Len(s) + 1
      /\ \A i \in 1..Len(s) : Append(s, x)[i] = s[i]
      /\ Append(s, x)[Len(s) + 1] = x
  BY AppendProperties, LenProperties
<1>2. \A i \in 1..Len(s) : s[i] # x
  BY DEF Elems
<1> QED
  BY <1>1, <1>2 DEF Distinct

LEMMA DistinctTail ==
    ASSUME NEW S, NEW s \in Seq(S), s # <<>>, Distinct(s)
    PROVE  /\ Head(s) \in S /\ Head(s) \in Elems(s)
           /\ Tail(s) \in Seq(S) /\ Distinct(Tail(s))
           /\ Elems(Tail(s)) = Elems(s) \ {Head(s)}
<1>1. /\ Head(s) \in S /\ Tail(s) \in Seq(S)
      /\ Len(Tail(s)) = Len(s) - 1
      /\ \A i \in 1..Len(Tail(s)) : Tail(s)[i] = s[i + 1]
  BY HeadTailProperties
<1>2. Len(s) \in Nat \ {0} /\ Head(s) = s[1]
  BY EmptySeq
<1>3. Distinct(Tail(s))
  BY <1>1, <1>2 DEF Distinct
<1>4. Elems(s) = {s[1]} \cup {s[i + 1] : i \in 1..(Len(s) - 1)}
  <2>1. \A i \in 1..Len(s) : i = 1 \/ (i - 1 \in 1..(Len(s) - 1) /\ (i - 1) + 1 = i)
    BY <1>2
  <2>2. \A i \in 1..(Len(s) - 1) : i + 1 \in 1..Len(s)
    BY <1>2
  <2> QED
    BY <1>2, <2>1, <2>2 DEF Elems
<1>5. Elems(Tail(s)) = {s[i + 1] : i \in 1..(Len(s) - 1)}
  BY <1>1 DEF Elems
<1>6. \A i \in 1..(Len(s) - 1) : s[i + 1] # s[1]
  BY <1>2 DEF Distinct
<1> QED
  BY <1>1, <1>2, <1>3, <1>4, <1>5, <1>6

LEMMA DistinctCount ==
    ASSUME NEW S, NEW s \in Seq(S), Distinct(s)
    PROVE  IsFiniteSet(Elems(s)) /\ Cardinality(Elems(s)) = Len(s)
<1>1. Len(s) \in Nat /\ s \in [1..Len(s) -> S]
  BY LenProperties
<1>2. s \in Bijection(1..Len(s), Elems(s))
  BY <1>1 DEF Bijection, Injection, Surjection, IsInjective, Elems, Distinct
<1>3. IsFiniteSet(1..Len(s)) /\ Cardinality(1..Len(s)) = Len(s)
  BY <1>1, FS_Interval, SMTT(30)
<1> QED
  BY <1>2, <1>3, FS_Bijection DEF ExistsBijection

-----------------------------------------------------------------------------
(* The inductive invariant.                                                *)

\* How far FetchShares is says where the goroutines can be.
Phases ==
    /\ main = "call" => \A e \in Endpoints : pc[e] = "new"
    /\ main = "wait" => threshold <= E /\ \A e \in Endpoints : pc[e] # "new"
    /\ main = "collect" => threshold <= E /\ \A e \in Endpoints : pc[e] = "done"
    /\ main = "returned" =>
          \/ threshold > E /\ answer = "error" /\ \A e \in Endpoints : pc[e] = "new"
          \/ threshold <= E /\ \A e \in Endpoints : pc[e] = "done"
    /\ answer = "none" <=> main # "returned"

\* A goroutine has a result from the end of its last attempt on.
ResultsSettle ==
    \A e \in Endpoints : result[e] = "none" <=> pc[e] \in {"new", "attempt", "backoff"}

\* An ended goroutine's result is in the channel once, or was received from it.
OnceInChannel ==
    /\ Distinct(chan)
    /\ Distinct(shares)
    /\ Elems(chan) \cap Elems(shares) = {}
    /\ \A e \in Elems(chan) \cup Elems(shares) : pc[e] = "done"
    /\ \A e \in Elems(shares) : result[e] = "share"
    /\ \A e \in Endpoints :
          pc[e] = "done" =>
              e \in Elems(chan) \cup Elems(shares) \/ result[e] = "error"

\* What has been received, and what the answer says of it.
Collected ==
    /\ Len(shares) <= threshold
    /\ main \in {"call", "wait"} => shares = <<>>
    /\ answer # "ok" => returned = <<>>
    /\ answer = "ok" => Len(shares) = threshold /\ returned = shares
    /\ answer = "error" => chan = <<>> /\ Len(shares) < threshold

\* An endpoint that failed was not given up early.
FailuresExhausted ==
    ~cancelled => \A e \in Endpoints : result[e] = "error" => attempt[e] >= maxRetries

\* Twice the time that a attempts and the a pauses after them may take.
Spent(a) == 2 * a * Timeout + a * (a + 1)

\* The time a goroutine has spent, by where it is in its loop.
Clocks ==
    maxRetries >= 0 =>
        \A e \in Endpoints :
            /\ attempt[e] <= maxRetries
            /\ pc[e] = "new" => attempt[e] = 0 /\ clock[e] = 0
            /\ pc[e] = "attempt" => 2 * clock[e] <= Spent(attempt[e])
            /\ pc[e] = "backoff" => 2 * clock[e] <= Spent(attempt[e]) - 2 * attempt[e]
            /\ pc[e] \in {"send", "done"} => 2 * clock[e] <= Spent(maxRetries) + 2 * Timeout

FetcherInv ==
    /\ TypeOK
    /\ Phases
    /\ ResultsSettle
    /\ OnceInChannel
    /\ Collected
    /\ FailuresExhausted

LEMMA InvInit == Init => FetcherInv
<1> SUFFICES ASSUME Init PROVE FetcherInv
  OBVIOUS
<1>1. \A S : <<>> \in Seq(S) /\ Len(<<>>) = 0
  BY EmptySeq
<1>2. Elems(<<>>) = {} /\ Distinct(<<>>)
  BY <1>1 DEF Elems, Distinct
<1>3. TypeOK
  BY <1>1, FetcherAssumption DEF Init, TypeOK
<1>4. threshold \in Nat \ {0}
  BY FetcherAssumption DEF Init
<1> QED
  BY <1>1, <1>2, <1>3, <1>4
  DEF Init, FetcherInv, Phases, ResultsSettle, OnceInChannel, Collected, FailuresExhausted

-----------------------------------------------------------------------------
(* The steps of FetchShares.                                               *)

LEMMA InvRefuse == FetcherInv /\ Refuse => FetcherInv'
<1> SUFFICES ASSUME FetcherInv, Refuse PROVE FetcherInv'
  OBVIOUS
<1>1. \A e \in Endpoints : pc[e] = "new"
  BY DEF FetcherInv, Phases, Refuse
<1>2. chan = <<>>
  <2>1. chan \in Seq(Endpoints) /\ \A e \in Elems(chan) : e \in Endpoints => pc[e] = "done"
    BY DEF FetcherInv, TypeOK, OnceInChannel
  <2>2. SUFFICES ASSUME chan # <<>> PROVE FALSE
    OBVIOUS
  <2>3. chan[1] \in Endpoints /\ chan[1] \in Elems(chan)
    BY <2>1, <2>2, EmptySeq DEF Elems
  <2> QED
    BY <1>1, <2>1, <2>3
<1>3. threshold \in Nat \ {0} /\ shares = <<>> /\ Len(shares) = 0
  BY FetcherAssumption, EmptySeq DEF FetcherInv, TypeOK, Collected, Refuse
<1>4. /\ main' = "returned" /\ answer' = "error" /\ threshold > E
      /\ UNCHANGED <<f, shares, returned, goVars, chan, cancelled>>
  BY DEF Refuse
<1>5. TypeOK'
  BY <1>4 DEF FetcherInv, TypeOK, f, goVars
<1>6. Phases'
  BY <1>1, <1>4 DEF Phases, f, goVars
<1>7. Collected'
  BY <1>2, <1>3, <1>4 DEF FetcherInv, Phases, Collected, Refuse, f
<1>8. ResultsSettle' /\ OnceInChannel' /\ FailuresExhausted'
  BY <1>4 DEF FetcherInv, ResultsSettle, OnceInChannel, FailuresExhausted, f, goVars
<1> QED
  BY <1>5, <1>6, <1>7, <1>8 DEF FetcherInv

LEMMA InvLaunch == FetcherInv /\ Launch => FetcherInv'
<1> SUFFICES ASSUME FetcherInv, Launch PROVE FetcherInv'
  OBVIOUS
<1>1. /\ main = "call" /\ main' = "wait" /\ threshold <= E
      /\ pc' = [e \in Endpoints |-> "attempt"]
      /\ UNCHANGED <<f, shares, answer, returned, attempt, result, clock, chan, cancelled>>
  BY DEF Launch
<1>2. \A e \in Endpoints : pc[e] = "new"
  BY <1>1 DEF FetcherInv, Phases
<1>3. \A e \in Elems(chan) \cup Elems(shares) : e \in Endpoints
  <2>1. chan \in Seq(Endpoints) /\ shares \in Seq(Endpoints)
    BY DEF FetcherInv, TypeOK
  <2> QED
    BY <2>1, ElemsType
<1>4. TypeOK' /\ Phases'
  BY <1>1 DEF FetcherInv, TypeOK, Phases, f
<1>5. ResultsSettle' /\ Collected' /\ FailuresExhausted'
  BY <1>1, <1>2 DEF FetcherInv, ResultsSettle, Collected, FailuresExhausted, f
<1>6. OnceInChannel'
  BY <1>1, <1>2, <1>3 DEF FetcherInv, OnceInChannel
<1> QED
  BY <1>4, <1>5, <1>6 DEF FetcherInv

LEMMA InvWait == FetcherInv /\ Wait => FetcherInv'
BY FetcherAssumption
DEF FetcherInv, TypeOK, Phases, ResultsSettle, OnceInChannel, Collected, FailuresExhausted,
    Wait, f, goVars

LEMMA InvReceive == FetcherInv /\ Receive => FetcherInv'
<1> SUFFICES ASSUME FetcherInv, Receive PROVE FetcherInv'
  OBVIOUS
<1> DEFINE e == Head(chan)
<1>1. /\ chan \in Seq(Endpoints) /\ chan # <<>> /\ Distinct(chan)
      /\ shares \in Seq(Endpoints) /\ Distinct(shares)
      /\ chan' = Tail(chan)
      /\ shares' = IF result[e] = "share" THEN Append(shares, e) ELSE shares
  BY DEF FetcherInv, TypeOK, OnceInChannel, Receive
<1>2. UNCHANGED <<f, main, answer, returned, goVars, cancelled>>
  BY DEF Receive
<1>3. /\ e \in Endpoints /\ e \in Elems(chan) /\ e \notin Elems(shares)
      /\ chan' \in Seq(Endpoints) /\ Distinct(chan') /\ Elems(chan') = Elems(chan) \ {e}
  BY <1>1, DistinctTail DEF FetcherInv, OnceInChannel
<1>4. pc[e] = "done" /\ result[e] \in {"share", "error"}
  BY <1>3 DEF FetcherInv, OnceInChannel, ResultsSettle, TypeOK
<1>5. /\ shares' \in Seq(Endpoints) /\ Distinct(shares')
      /\ Elems(shares') = IF result[e] = "share" THEN Elems(shares) \cup {e} ELSE Elems(shares)
      /\ Len(shares') = IF result[e] = "share" THEN Len(shares) + 1 ELSE Len(shares)
  <2>1. CASE result[e] = "share"
    <3>1. shares' = Append(shares, e)
      BY <1>1, <2>1
    <3>2. Append(shares, e) \in Seq(Endpoints) /\ Elems(Append(shares, e)) = Elems(shares) \cup {e}
      BY <1>1, <1>3, ElemsAppend
    <3>3. Distinct(Append(shares, e))
      BY <1>1, <1>3, DistinctAppend
    <3>4. Len(Append(shares, e)) = Len(shares) + 1
      BY <1>1, <1>3, AppendProperties
    <3> QED
      BY <2>1, <3>1, <3>2, <3>3, <3>4
  <2>2. CASE result[e] # "share"
    BY <1>1, <2>2
  <2> QED
    BY <2>1, <2>2
<1>6. TypeOK'
  <2>1. /\ main' = main /\ answer' = answer /\ returned' = returned /\ cancelled' = cancelled
        /\ threshold' = threshold /\ maxRetries' = maxRetries
        /\ pc' = pc /\ attempt' = attempt /\ result' = result /\ clock' = clock
    BY <1>2 DEF f, goVars
  <2> QED
    BY <1>3, <1>5, <2>1 DEF FetcherInv, TypeOK
<1>7. Phases' /\ ResultsSettle' /\ FailuresExhausted'
  BY <1>2 DEF FetcherInv, Phases, ResultsSettle, FailuresExhausted, f, goVars
<1>8. OnceInChannel'
  <2>1. \A x \in Endpoints : pc[x] = "done" =>
            x \in Elems(chan') \cup Elems(shares') \/ result[x] = "error"
    BY <1>3, <1>4, <1>5 DEF FetcherInv, OnceInChannel
  <2> QED
    BY <1>2, <1>3, <1>4, <1>5, <2>1 DEF FetcherInv, OnceInChannel, goVars
<1>9. Collected'
  <2>1. main = "collect" /\ Len(shares) < threshold /\ Len(shares) \in Nat /\ threshold \in Nat
    BY <1>1, LenProperties, FetcherAssumption DEF Receive, FetcherInv, TypeOK
  <2>2. answer = "none"
    BY <2>1 DEF FetcherInv, Phases
  <2> QED
    BY <1>2, <1>5, <2>1, <2>2 DEF FetcherInv, Collected, f
<1> QED
  BY <1>6, <1>7, <1>8, <1>9 DEF FetcherInv

LEMMA InvReturnsShares == FetcherInv /\ ReturnsShares => FetcherInv'
<1> SUFFICES ASSUME FetcherInv, ReturnsShares PROVE FetcherInv'
  OBVIOUS
<1>1. /\ shares \in Seq(Endpoints) /\ Len(shares) \in Nat /\ threshold \in Nat
      /\ Len(shares) >= threshold /\ Len(shares) <= threshold
  BY LenProperties, FetcherAssumption DEF FetcherInv, TypeOK, Collected, ReturnsShares
<1>2. Len(shares) = threshold /\ returned' = shares
  BY <1>1, SubSeqFull DEF ReturnsShares
<1> QED
  BY <1>1, <1>2
  DEF FetcherInv, TypeOK, Phases, ResultsSettle, OnceInChannel, Collected, FailuresExhausted,
      ReturnsShares, f, goVars

LEMMA InvReturnsError == FetcherInv /\ ReturnsError => FetcherInv'
BY FetcherAssumption
DEF FetcherInv, TypeOK, Phases, ResultsSettle, OnceInChannel, Collected, FailuresExhausted,
    ReturnsError, f, goVars

-----------------------------------------------------------------------------
(* The steps of a goroutine.                                               *)

\* Goroutines run while FetchShares waits.
LEMMA RunningWaits ==
    ASSUME FetcherInv, NEW e \in Endpoints, pc[e] \in {"attempt", "backoff", "send"}
    PROVE  main = "wait" /\ threshold <= E
BY DEF FetcherInv, TypeOK, Phases

\* What holds of all goroutines survives a step of one inside its loop.
LEMMA LoopStepKeepsInv ==
    ASSUME FetcherInv, NEW e \in Endpoints,
           pc[e] \in {"attempt", "backoff"},
           TypeOK', UNCHANGED <<mainVars, chan, cancelled>>,
           \A x \in Endpoints \ {e} :
               pc'[x] = pc[x] /\ result'[x] = result[x] /\ attempt'[x] = attempt[x],
           \/ pc'[e] \in {"attempt", "backoff"} /\ result'[e] = result[e]
           \/ pc'[e] = "send" /\ result'[e] # "none",
           ~cancelled /\ result'[e] = "error" => attempt'[e] >= maxRetries
    PROVE  FetcherInv'
<1>1. main = "wait" /\ threshold <= E
  BY RunningWaits
<1>2. result[e] = "none"
  BY DEF FetcherInv, ResultsSettle
<1>3. Phases' /\ Collected'
  BY <1>1 DEF FetcherInv, Phases, Collected, mainVars, f
<1>4. ResultsSettle'
  BY <1>2 DEF FetcherInv, ResultsSettle
<1>5. OnceInChannel'
  <2>1. chan' = chan /\ shares' = shares
    BY DEF mainVars
  <2>2. e \notin Elems(chan) \cup Elems(shares)
    BY DEF FetcherInv, OnceInChannel
  <2>3. \A x \in Elems(chan) \cup Elems(shares) : x \in Endpoints \ {e}
    BY <2>2, ElemsType DEF FetcherInv, TypeOK
  <2>4. \A x \in Elems(chan) \cup Elems(shares) : pc'[x] = "done"
    BY <2>3 DEF FetcherInv, OnceInChannel
  <2>5. \A x \in Elems(shares) : result'[x] = "share"
    BY <2>3 DEF FetcherInv, OnceInChannel
  <2>6. \A x \in Endpoints : pc'[x] = "done" =>
            x \in Elems(chan) \cup Elems(shares) \/ result'[x] = "error"
    BY DEF FetcherInv, OnceInChannel
  <2> QED
    BY <2>1, <2>4, <2>5, <2>6 DEF FetcherInv, OnceInChannel
<1>6. FailuresExhausted'
  BY <1>2 DEF FetcherInv, FailuresExhausted, mainVars, f
<1> QED
  BY <1>3, <1>4, <1>5, <1>6 DEF FetcherInv

LEMMA InvNoAttempt ==
    ASSUME FetcherInv, NEW e \in Endpoints, NoAttempt(e)
    PROVE  FetcherInv'
<1>1. TypeOK'
  BY DEF FetcherInv, TypeOK, NoAttempt, mainVars, f
<1>2. attempt[e] >= maxRetries
  BY FetcherAssumption DEF FetcherInv, TypeOK, NoAttempt
<1>3. /\ pc' = [pc EXCEPT ![e] = "send"] /\ pc[e] = "attempt"
      /\ result' = [result EXCEPT ![e] = "error"]
      /\ UNCHANGED <<mainVars, attempt, clock, chan, cancelled>>
  BY DEF NoAttempt
<1>4. /\ pc'[e] = "send" /\ result'[e] = "error" /\ attempt'[e] >= maxRetries
      /\ \A x \in Endpoints \ {e} :
            pc'[x] = pc[x] /\ result'[x] = result[x] /\ attempt'[x] = attempt[x]
  BY <1>2, <1>3 DEF FetcherInv, TypeOK
<1> QED
  BY <1>1, <1>3, <1>4, LoopStepKeepsInv

LEMMA InvAttemptSucceeds ==
    ASSUME FetcherInv, NEW e \in Endpoints, NEW d \in Durations, AttemptSucceeds(e, d)
    PROVE  FetcherInv'
<1>1. TypeOK'
  BY FetcherAssumption DEF FetcherInv, TypeOK, AttemptSucceeds, Durations, mainVars, f
<1> QED
  BY <1>1, LoopStepKeepsInv, ZenonT(30) DEF AttemptSucceeds, FetcherInv, TypeOK

LEMMA InvAttemptFails ==
    ASSUME FetcherInv, NEW e \in Endpoints, NEW d \in Durations, AttemptFails(e, d)
    PROVE  FetcherInv'
<1>1. /\ attempt[e] \in Nat /\ maxRetries \in Int /\ attempt[e] <= maxRetries
      /\ clock[e] \in Nat /\ d \in Nat
  BY FetcherAssumption DEF FetcherInv, TypeOK, AttemptFails, Durations
<1>2. /\ pc[e] = "attempt"
      /\ clock' = [clock EXCEPT ![e] = @ + d]
      /\ UNCHANGED <<mainVars, chan, cancelled>>
  BY DEF AttemptFails
<1>3. CASE attempt[e] < maxRetries
  <2>1. /\ attempt' = [attempt EXCEPT ![e] = @ + 1]
        /\ pc' = [pc EXCEPT ![e] = "backoff"]
        /\ result' = result
    BY <1>3 DEF AttemptFails
  <2>2. TypeOK'
    BY <1>1, <1>2, <2>1, SMTT(30) DEF FetcherInv, TypeOK, mainVars, f
  <2>3. result'[e] # "error"
    BY <1>2, <2>1 DEF FetcherInv, ResultsSettle
  <2>4. /\ pc'[e] \in {"attempt", "backoff"} /\ result'[e] = result[e]
        /\ \A x \in Endpoints \ {e} :
              pc'[x] = pc[x] /\ result'[x] = result[x] /\ attempt'[x] = attempt[x]
    BY <2>1 DEF FetcherInv, TypeOK
  <2>5. pc[e] \in {"attempt", "backoff"}
    BY <1>2
  <2>6. ~cancelled /\ result'[e] = "error" => attempt'[e] >= maxRetries
    BY <2>3
  <2>7. \/ pc'[e] \in {"attempt", "backoff"} /\ result'[e] = result[e]
        \/ pc'[e] = "send" /\ result'[e] # "none"
    BY <2>4
  <2> QED
    BY <1>2, <2>2, <2>4, <2>5, <2>6, <2>7, LoopStepKeepsInv
<1>4. CASE ~(attempt[e] < maxRetries)
  <2>1. /\ result' = [result EXCEPT ![e] = "error"]
        /\ pc' = [pc EXCEPT ![e] = "send"]
        /\ attempt' = attempt
    BY <1>4 DEF AttemptFails
  <2>2. TypeOK'
    BY <1>1, <1>2, <2>1 DEF FetcherInv, TypeOK, mainVars, f
  <2>3. /\ pc'[e] = "send" /\ result'[e] = "error" /\ attempt'[e] >= maxRetries
        /\ \A x \in Endpoints \ {e} :
              pc'[x] = pc[x] /\ result'[x] = result[x] /\ attempt'[x] = attempt[x]
    BY <1>1, <1>4, <2>1 DEF FetcherInv, TypeOK
  <2> QED
    BY <1>2, <2>2, <2>3, LoopStepKeepsInv
<1> QED
  BY <1>3, <1>4

LEMMA InvBackoffEnds ==
    ASSUME FetcherInv, NEW e \in Endpoints, BackoffEnds(e)
    PROVE  FetcherInv'
<1>1. TypeOK'
  BY DEF FetcherInv, TypeOK, BackoffEnds, mainVars, f
<1>2. result[e] = "none" /\ pc[e] = "backoff"
  BY DEF FetcherInv, ResultsSettle, BackoffEnds
<1>3. /\ pc' = [pc EXCEPT ![e] = "attempt"]
      /\ UNCHANGED <<mainVars, attempt, result, chan, cancelled>>
  BY DEF BackoffEnds
<1>4. /\ pc'[e] \in {"attempt", "backoff"} /\ result'[e] = result[e] /\ result'[e] # "error"
      /\ \A x \in Endpoints \ {e} :
            pc'[x] = pc[x] /\ result'[x] = result[x] /\ attempt'[x] = attempt[x]
  BY <1>2, <1>3 DEF FetcherInv, TypeOK
<1>5. pc[e] \in {"attempt", "backoff"}
  BY <1>2
<1>6. ~cancelled /\ result'[e] = "error" => attempt'[e] >= maxRetries
  BY <1>4
<1>7. \/ pc'[e] \in {"attempt", "backoff"} /\ result'[e] = result[e]
      \/ pc'[e] = "send" /\ result'[e] # "none"
  BY <1>4
<1> QED
  BY <1>1, <1>3, <1>4, <1>5, <1>6, <1>7, LoopStepKeepsInv

LEMMA InvBackoffCancelled ==
    ASSUME FetcherInv, NEW e \in Endpoints, BackoffCancelled(e)
    PROVE  FetcherInv'
<1>1. TypeOK'
  <2>1. PICK d \in 0..attempt[e] : clock' = [clock EXCEPT ![e] = @ + d]
    BY DEF BackoffCancelled
  <2> QED
    BY <2>1 DEF FetcherInv, TypeOK, BackoffCancelled, mainVars, f
<1> QED
  BY <1>1, LoopStepKeepsInv, ZenonT(30) DEF BackoffCancelled, FetcherInv, TypeOK

LEMMA InvSend ==
    ASSUME FetcherInv, NEW e \in Endpoints, Send(e)
    PROVE  FetcherInv'
<1>1. main = "wait" /\ threshold <= E
  BY RunningWaits DEF Send
<1>2. /\ chan \in Seq(Endpoints) /\ Distinct(chan)
      /\ e \notin Elems(chan) /\ e \notin Elems(shares)
  BY DEF FetcherInv, TypeOK, OnceInChannel, Send
<1>3. /\ chan' \in Seq(Endpoints) /\ Distinct(chan')
      /\ Elems(chan') = Elems(chan) \cup {e}
  BY <1>2, ElemsAppend, DistinctAppend DEF Send
<1>4. /\ pc' = [pc EXCEPT ![e] = "done"] /\ pc[e] = "send"
      /\ UNCHANGED <<mainVars, attempt, result, clock, cancelled>>
  BY DEF Send
<1>5. TypeOK'
  BY <1>3, <1>4 DEF FetcherInv, TypeOK, mainVars, f
<1>6. Phases' /\ Collected'
  BY <1>1, <1>4 DEF FetcherInv, TypeOK, Phases, Collected, mainVars, f
<1>7. ResultsSettle' /\ FailuresExhausted'
  BY <1>4 DEF FetcherInv, TypeOK, ResultsSettle, FailuresExhausted, mainVars, f
<1>8. OnceInChannel'
  BY <1>2, <1>3, <1>4 DEF FetcherInv, TypeOK, OnceInChannel, mainVars
<1> QED
  BY <1>5, <1>6, <1>7, <1>8 DEF FetcherInv

LEMMA InvStep == FetcherInv /\ [Next]_vars => FetcherInv'
<1> SUFFICES ASSUME FetcherInv, [Next]_vars PROVE FetcherInv'
  OBVIOUS
<1>1. CASE MainStep
  BY <1>1, InvRefuse, InvLaunch, InvWait, InvReceive, InvReturnsShares, InvReturnsError
  DEF MainStep
<1>2. ASSUME NEW e \in Endpoints, GoStep(e) PROVE FetcherInv'
  BY <1>2, InvNoAttempt, InvAttemptSucceeds, InvAttemptFails, InvBackoffEnds,
     InvBackoffCancelled, InvSend DEF GoStep
<1>3. CASE CallerCancelsCtx
  BY <1>3
  DEF FetcherInv, TypeOK, Phases, ResultsSettle, OnceInChannel, Collected, FailuresExhausted,
      CallerCancelsCtx, mainVars, goVars, f
<1>4. CASE UNCHANGED vars
  BY <1>4
  DEF FetcherInv, TypeOK, Phases, ResultsSettle, OnceInChannel, Collected, FailuresExhausted,
      vars, mainVars, goVars, f
<1> QED
  BY <1>1, <1>2, <1>3, <1>4 DEF Next, Done

LEMMA FetcherInvariant == Spec => []FetcherInv
BY InvInit, InvStep, PTL DEF Spec

-----------------------------------------------------------------------------
(* What has been received, counted.                                        *)

LEMMA EndpointsCount == IsFiniteSet(Endpoints) /\ Cardinality(Endpoints) = E
BY FetcherAssumption, FS_Interval DEF Endpoints

LEMMA SharesCount ==
    ASSUME FetcherInv
    PROVE  /\ Elems(shares) \subseteq Endpoints
           /\ IsFiniteSet(Elems(shares)) /\ Cardinality(Elems(shares)) = Len(shares)
           /\ Len(shares) \in Nat /\ threshold \in Nat \ {0}
<1>1. shares \in Seq(Endpoints) /\ Distinct(shares)
  BY DEF FetcherInv, TypeOK, OnceInChannel
<1> QED
  BY <1>1, DistinctCount, ElemsType, LenProperties, FetcherAssumption DEF FetcherInv, TypeOK

\* An endpoint that has a result to send is not in the channel yet, so there
\* is room for the result.
LEMMA RoomToSend == FetcherInv => SendNeverBlocks
<1> SUFFICES ASSUME FetcherInv, NEW e \in Endpoints, pc[e] = "send"
             PROVE  Len(chan) < Cap
  BY DEF SendNeverBlocks
<1>1. chan \in Seq(Endpoints) /\ Distinct(chan) /\ e \notin Elems(chan)
  BY DEF FetcherInv, TypeOK, OnceInChannel
<1>2. Elems(chan) \subseteq Endpoints /\ Cardinality(Elems(chan)) = Len(chan) /\ Len(chan) \in Nat
  BY <1>1, DistinctCount, ElemsType, LenProperties
<1>3. Elems(chan) # Endpoints
  BY <1>1
<1>4. Cardinality(Elems(chan)) <= E /\ Cardinality(Elems(chan)) # E
  BY <1>2, <1>3, EndpointsCount, FS_Subset
<1> QED
  BY <1>2, <1>4, FetcherAssumption DEF Cap

LEMMA ThresholdSharesReturned == FetcherInv => ReturnsThresholdShares
<1> SUFFICES ASSUME FetcherInv, answer = "ok"
             PROVE  /\ Len(returned) = threshold
                    /\ Cardinality({returned[i] : i \in DOMAIN returned}) = threshold
                    /\ \A i \in DOMAIN returned : result[returned[i]] = "share"
  BY DEF ReturnsThresholdShares
<1>1. returned = shares /\ Len(shares) = threshold /\ shares \in Seq(Endpoints)
  BY DEF FetcherInv, TypeOK, Collected
<1>2. DOMAIN returned = 1..Len(shares)
  BY <1>1, LenProperties
<1>3. {returned[i] : i \in DOMAIN returned} = Elems(shares)
  BY <1>1, <1>2 DEF Elems
<1>4. \A i \in DOMAIN returned : returned[i] \in Elems(shares)
  BY <1>1, <1>2 DEF Elems
<1> QED
  BY <1>1, <1>3, <1>4, SharesCount DEF FetcherInv, OnceInChannel

\* When FetchShares gives up, whatever it has not received has failed.
LEMMA NotReceivedFailed ==
    ASSUME FetcherInv, main \in {"collect", "returned"}, threshold <= E, chan = <<>>
    PROVE  \A e \in Endpoints \ Elems(shares) : result[e] = "error"
<1>1. \A e \in Endpoints : pc[e] = "done"
  BY FetcherAssumption DEF FetcherInv, TypeOK, Phases
<1>2. Elems(chan) = {}
  BY EmptySeq DEF Elems
<1> QED
  BY <1>1, <1>2 DEF FetcherInv, OnceInChannel

LEMMA ErrorsExhausted == FetcherInv => ErrorMeansExhausted
<1> DEFINE failed == {e \in Endpoints : result[e] = "error" /\ attempt[e] >= maxRetries}
<1> SUFFICES ASSUME FetcherInv, answer = "error", ~cancelled, threshold <= E
             PROVE  Cardinality(failed) > E - threshold
  BY DEF ErrorMeansExhausted
<1>1. chan = <<>> /\ Len(shares) < threshold /\ main = "returned"
  BY DEF FetcherInv, TypeOK, Phases, Collected
<1>2. Endpoints \ Elems(shares) \subseteq failed
  BY <1>1, NotReceivedFailed DEF FetcherInv, FailuresExhausted
<1>3. IsFiniteSet(failed) /\ Cardinality(failed) \in Nat
  BY EndpointsCount, FS_Subset, FS_CardinalityType
<1>4. Cardinality(Endpoints \ Elems(shares)) <= Cardinality(failed)
  BY <1>2, <1>3, FS_Subset
<1>5. Endpoints \cap Elems(shares) = Elems(shares)
  BY SharesCount
<1>6. Cardinality(Endpoints \ Elems(shares)) = E - Len(shares)
  <2>1. Cardinality(Endpoints \ Elems(shares))
            = Cardinality(Endpoints) - Cardinality(Endpoints \cap Elems(shares))
    BY EndpointsCount, FS_Difference
  <2> QED
    BY <1>5, <2>1, SharesCount, EndpointsCount
<1> QED
  BY <1>1, <1>3, <1>4, <1>6, SharesCount, FetcherAssumption

-----------------------------------------------------------------------------
(* The time.                                                               *)

LEMMA SpentNext ==
    ASSUME NEW a \in Nat
    PROVE  /\ Spent(a) \in Nat
           /\ Spent(a + 1) - 2 * (a + 1) = Spent(a) + 2 * Timeout
<1>1. Timeout \in Nat
  BY FetcherAssumption
<1>2. (a + 1) * ((a + 1) + 1) = a * (a + 1) + 2 * (a + 1)
  OBVIOUS
<1>3. 2 * (a + 1) * Timeout = 2 * a * Timeout + 2 * Timeout
  BY <1>1
<1>4. a * (a + 1) \in Nat /\ 2 * a * Timeout \in Nat
  BY <1>1
<1> QED
  BY <1>1, <1>2, <1>3, <1>4 DEF Spent

LEMMA SpentMonotone ==
    ASSUME NEW a \in Nat, NEW b \in Nat, a <= b
    PROVE  Spent(a) <= Spent(b)
<1>1. Timeout \in Nat
  BY FetcherAssumption
<1>2. PICK c \in Nat : b = a + c
  <2> WITNESS b - a \in Nat
  <2> QED
    OBVIOUS
<1>3. 2 * b * Timeout = 2 * a * Timeout + 2 * c * Timeout
  BY <1>1, <1>2
<1>4. b * (b + 1) = a * (a + 1) + (2 * (a * c) + c * c + c)
  BY <1>2
<1>5. /\ 2 * c * Timeout \in Nat /\ a * c \in Nat /\ c * c \in Nat
      /\ 2 * a * Timeout \in Nat /\ a * (a + 1) \in Nat
  BY <1>1
<1> QED
  BY <1>3, <1>4, <1>5 DEF Spent

LEMMA ClocksInit == Init => Clocks
BY DEF Init, Clocks

\* A step of one goroutine need only be looked at for that goroutine.
LEMMA OneClock ==
    ASSUME Clocks, NEW e \in Endpoints, maxRetries' = maxRetries,
           \A x \in Endpoints \ {e} :
               pc'[x] = pc[x] /\ attempt'[x] = attempt[x] /\ clock'[x] = clock[x],
           pc'[e] # "new",
           maxRetries >= 0 =>
               /\ attempt'[e] <= maxRetries
               /\ pc'[e] = "attempt" => 2 * clock'[e] <= Spent(attempt'[e])
               /\ pc'[e] = "backoff" => 2 * clock'[e] <= Spent(attempt'[e]) - 2 * attempt'[e]
               /\ pc'[e] \in {"send", "done"} =>
                     2 * clock'[e] <= Spent(maxRetries) + 2 * Timeout
    PROVE  Clocks'
BY DEF Clocks, Spent

LEMMA ClocksNoAttempt ==
    ASSUME FetcherInv, Clocks, NEW e \in Endpoints, NoAttempt(e)
    PROVE  Clocks'
<1>1. attempt[e] \in Nat /\ maxRetries \in Int /\ ~(attempt[e] <= maxRetries)
  BY FetcherAssumption DEF FetcherInv, TypeOK, NoAttempt
<1>2. ~(maxRetries >= 0) /\ maxRetries' = maxRetries
  BY <1>1 DEF Clocks, NoAttempt, mainVars, f
<1> QED
  BY <1>2 DEF Clocks

\* The last attempt and everything before it.
LEMMA LastAttempt ==
    ASSUME FetcherInv, Clocks, NEW e \in Endpoints, pc[e] = "attempt", maxRetries >= 0,
           NEW d \in Durations
    PROVE  2 * (clock[e] + d) <= Spent(maxRetries) + 2 * Timeout
<1>1. /\ attempt[e] \in Nat /\ clock[e] \in Nat /\ maxRetries \in Nat
      /\ d \in Nat /\ d <= Timeout /\ Timeout \in Nat
  BY FetcherAssumption DEF FetcherInv, TypeOK, Durations
<1>2. attempt[e] <= maxRetries /\ 2 * clock[e] <= Spent(attempt[e])
  BY DEF Clocks
<1>3. Spent(attempt[e]) <= Spent(maxRetries) /\ Spent(attempt[e]) \in Nat /\ Spent(maxRetries) \in Nat
  BY <1>1, <1>2, SpentMonotone, SpentNext
<1> QED
  BY <1>1, <1>2, <1>3

LEMMA ClocksAttemptSucceeds ==
    ASSUME FetcherInv, Clocks, NEW e \in Endpoints, NEW d \in Durations, AttemptSucceeds(e, d)
    PROVE  Clocks'
<1>1. /\ pc[e] = "attempt" /\ pc' = [pc EXCEPT ![e] = "send"] /\ attempt' = attempt
      /\ clock' = [clock EXCEPT ![e] = @ + d] /\ maxRetries' = maxRetries
      /\ attempt[e] <= maxRetries
  BY DEF AttemptSucceeds, mainVars, f
<1>2. pc'[e] = "send" /\ clock'[e] = clock[e] + d
  BY <1>1 DEF FetcherInv, TypeOK
<1>3. \A x \in Endpoints \ {e} :
          pc'[x] = pc[x] /\ attempt'[x] = attempt[x] /\ clock'[x] = clock[x]
  BY <1>1 DEF FetcherInv, TypeOK
<1>4. maxRetries >= 0 => 2 * clock'[e] <= Spent(maxRetries) + 2 * Timeout
  BY <1>1, <1>2, LastAttempt
<1> QED
  BY <1>1, <1>2, <1>3, <1>4, OneClock

LEMMA ClocksAttemptFails ==
    ASSUME FetcherInv, Clocks, NEW e \in Endpoints, NEW d \in Durations, AttemptFails(e, d)
    PROVE  Clocks'
<1>1. /\ attempt[e] \in Nat /\ clock[e] \in Nat /\ maxRetries \in Int
      /\ d \in Nat /\ d <= Timeout /\ Timeout \in Nat
  BY FetcherAssumption DEF FetcherInv, TypeOK, Durations
<1>2. /\ pc[e] = "attempt" /\ clock' = [clock EXCEPT ![e] = @ + d] /\ maxRetries' = maxRetries
      /\ attempt[e] <= maxRetries
  BY DEF AttemptFails, mainVars, f
<1>3. clock'[e] = clock[e] + d /\ \A x \in Endpoints \ {e} : clock'[x] = clock[x]
  BY <1>2 DEF FetcherInv, TypeOK
<1>4. CASE attempt[e] < maxRetries
  <2>1. attempt' = [attempt EXCEPT ![e] = @ + 1] /\ pc' = [pc EXCEPT ![e] = "backoff"]
    BY <1>4 DEF AttemptFails
  <2>2. /\ pc'[e] = "backoff" /\ attempt'[e] = attempt[e] + 1
        /\ \A x \in Endpoints \ {e} : pc'[x] = pc[x] /\ attempt'[x] = attempt[x]
    BY <2>1 DEF FetcherInv, TypeOK
  <2>3. attempt'[e] <= maxRetries
    BY <1>1, <1>4, <2>2
  <2>4. maxRetries >= 0 => 2 * clock[e] <= Spent(attempt[e])
    BY <1>2 DEF Clocks
  <2>5. maxRetries >= 0 => 2 * clock'[e] <= Spent(attempt'[e]) - 2 * attempt'[e]
    BY <1>1, <1>3, <2>2, <2>4, SpentNext, SMTT(30)
  <2> QED
    BY <1>2, <1>3, <2>2, <2>3, <2>5, OneClock
<1>5. CASE ~(attempt[e] < maxRetries)
  <2>1. attempt' = attempt /\ pc' = [pc EXCEPT ![e] = "send"]
    BY <1>5 DEF AttemptFails
  <2>2. /\ pc'[e] = "send"
        /\ \A x \in Endpoints \ {e} : pc'[x] = pc[x] /\ attempt'[x] = attempt[x]
    BY <2>1 DEF FetcherInv, TypeOK
  <2>3. maxRetries >= 0 => 2 * clock'[e] <= Spent(maxRetries) + 2 * Timeout
    BY <1>2, <1>3, LastAttempt
  <2> QED
    BY <1>2, <1>3, <2>1, <2>2, <2>3, OneClock
<1> QED
  BY <1>4, <1>5

LEMMA ClocksBackoffEnds ==
    ASSUME FetcherInv, Clocks, NEW e \in Endpoints, BackoffEnds(e)
    PROVE  Clocks'
<1>1. attempt[e] \in Nat /\ clock[e] \in Nat /\ Spent(attempt[e]) \in Nat
  BY SpentNext DEF FetcherInv, TypeOK
<1>2. /\ pc[e] = "backoff" /\ pc' = [pc EXCEPT ![e] = "attempt"] /\ attempt' = attempt
      /\ clock' = [clock EXCEPT ![e] = @ + attempt[e]] /\ maxRetries' = maxRetries
  BY DEF BackoffEnds, mainVars, f
<1>3. pc'[e] = "attempt" /\ clock'[e] = clock[e] + attempt[e]
  BY <1>2 DEF FetcherInv, TypeOK
<1>4. \A x \in Endpoints \ {e} :
          pc'[x] = pc[x] /\ attempt'[x] = attempt[x] /\ clock'[x] = clock[x]
  BY <1>2 DEF FetcherInv, TypeOK
<1>5. maxRetries >= 0 =>
          attempt[e] <= maxRetries /\ 2 * clock[e] <= Spent(attempt[e]) - 2 * attempt[e]
  BY <1>2 DEF Clocks
<1>6. maxRetries >= 0 => attempt'[e] <= maxRetries /\ 2 * clock'[e] <= Spent(attempt'[e])
  BY <1>1, <1>2, <1>3, <1>5
<1> QED
  BY <1>2, <1>3, <1>4, <1>6, OneClock

LEMMA ClocksBackoffCancelled ==
    ASSUME FetcherInv, Clocks, NEW e \in Endpoints, BackoffCancelled(e)
    PROVE  Clocks'
<1>1. /\ attempt[e] \in Nat /\ clock[e] \in Nat /\ maxRetries \in Int /\ Timeout \in Nat
      /\ Spent(attempt[e]) \in Nat
  BY SpentNext, FetcherAssumption DEF FetcherInv, TypeOK
<1>2. PICK d \in 0..attempt[e] : clock' = [clock EXCEPT ![e] = @ + d]
  BY DEF BackoffCancelled
<1>3. /\ pc[e] = "backoff" /\ pc' = [pc EXCEPT ![e] = "send"] /\ attempt' = attempt
      /\ maxRetries' = maxRetries
  BY DEF BackoffCancelled, mainVars, f
<1>4. pc'[e] = "send" /\ clock'[e] = clock[e] + d
  BY <1>2, <1>3 DEF FetcherInv, TypeOK
<1>5. \A x \in Endpoints \ {e} :
          pc'[x] = pc[x] /\ attempt'[x] = attempt[x] /\ clock'[x] = clock[x]
  BY <1>2, <1>3 DEF FetcherInv, TypeOK
<1>6. maxRetries >= 0 =>
          attempt[e] <= maxRetries /\ 2 * clock[e] <= Spent(attempt[e]) - 2 * attempt[e]
  BY <1>3 DEF Clocks
<1>7. maxRetries >= 0 => Spent(attempt[e]) <= Spent(maxRetries) /\ Spent(maxRetries) \in Nat
  BY <1>1, <1>6, SpentMonotone, SpentNext
<1>8. maxRetries >= 0 =>
          attempt'[e] <= maxRetries /\ 2 * clock'[e] <= Spent(maxRetries) + 2 * Timeout
  BY <1>1, <1>2, <1>3, <1>4, <1>6, <1>7
<1> QED
  BY <1>3, <1>4, <1>5, <1>8, OneClock

LEMMA ClocksSend ==
    ASSUME FetcherInv, Clocks, NEW e \in Endpoints, Send(e)
    PROVE  Clocks'
<1>1. /\ pc[e] = "send" /\ pc' = [pc EXCEPT ![e] = "done"]
      /\ UNCHANGED <<attempt, clock, maxRetries>>
  BY DEF Send, mainVars, f
<1>2. pc'[e] = "done" /\ \A x \in Endpoints \ {e} : pc'[x] = pc[x]
  BY <1>1 DEF FetcherInv, TypeOK
<1>3. maxRetries >= 0 =>
          attempt[e] <= maxRetries /\ 2 * clock[e] <= Spent(maxRetries) + 2 * Timeout
  BY <1>1 DEF Clocks
<1> QED
  BY <1>1, <1>2, <1>3, OneClock

LEMMA ClocksLaunch == FetcherInv /\ Clocks /\ Launch => Clocks'
<1> SUFFICES ASSUME FetcherInv, Clocks, Launch, maxRetries >= 0, NEW e \in Endpoints
             PROVE  /\ attempt'[e] <= maxRetries /\ pc'[e] = "attempt"
                    /\ 2 * clock'[e] <= Spent(attempt'[e])
  BY DEF Clocks, Launch, f, Spent
<1>1. pc[e] = "new" /\ pc'[e] = "attempt" /\ UNCHANGED <<attempt, clock>>
  BY DEF FetcherInv, Phases, Launch
<1>2. attempt[e] = 0 /\ clock[e] = 0 /\ attempt[e] <= maxRetries
  BY <1>1 DEF Clocks
<1>3. Spent(0) \in Nat
  BY SpentNext
<1> QED
  BY <1>1, <1>2, <1>3

LEMMA ClocksStep == FetcherInv /\ Clocks /\ [Next]_vars => Clocks'
<1> SUFFICES ASSUME FetcherInv, Clocks, [Next]_vars PROVE Clocks'
  OBVIOUS
<1>1. ASSUME UNCHANGED <<maxRetries, pc, attempt, clock>> PROVE Clocks'
  BY <1>1 DEF Clocks, Spent
<1>2. CASE MainStep
  BY <1>1, <1>2, ClocksLaunch
  DEF MainStep, Refuse, Wait, Receive, ReturnsShares, ReturnsError, goVars, f
<1>3. ASSUME NEW e \in Endpoints, GoStep(e) PROVE Clocks'
  BY <1>3, ClocksNoAttempt, ClocksAttemptSucceeds, ClocksAttemptFails, ClocksBackoffEnds,
     ClocksBackoffCancelled, ClocksSend DEF GoStep
<1>4. CASE CallerCancelsCtx \/ UNCHANGED vars
  BY <1>1, <1>4 DEF CallerCancelsCtx, vars, mainVars, goVars, f
<1> QED
  BY <1>2, <1>3, <1>4 DEF Next, Done

LEMMA ClocksBound == FetcherInv /\ Clocks => ReturnsInTime
<1> SUFFICES ASSUME FetcherInv, Clocks, maxRetries >= 0, NEW e \in Endpoints
             PROVE  clock[e] <= (maxRetries + 1) * Timeout
                                    + (maxRetries * (maxRetries + 1)) \div 2
  BY DEF ReturnsInTime
<1>1. /\ attempt[e] \in Nat /\ clock[e] \in Nat /\ maxRetries \in Nat /\ Timeout \in Nat
      /\ pc[e] \in {"new", "attempt", "backoff", "send", "done"}
  BY FetcherAssumption DEF FetcherInv, TypeOK
<1>2. attempt[e] <= maxRetries
  BY DEF Clocks
<1>3. /\ Spent(attempt[e]) <= Spent(maxRetries)
      /\ Spent(attempt[e]) \in Nat /\ Spent(maxRetries) \in Nat
  BY <1>1, <1>2, SpentMonotone, SpentNext
<1>4. 2 * clock[e] <= Spent(maxRetries) + 2 * Timeout
  BY <1>1, <1>3 DEF Clocks
<1>5. Spent(maxRetries) + 2 * Timeout
          = 2 * ((maxRetries + 1) * Timeout) + maxRetries * (maxRetries + 1)
  BY <1>1 DEF Spent
<1>6. /\ (maxRetries + 1) * Timeout \in Nat /\ maxRetries * (maxRetries + 1) \in Nat
  BY <1>1
<1>7. \A x, y, c \in Nat : 2 * c <= 2 * x + y => c <= x + (y \div 2)
  OBVIOUS
<1> QED
  BY <1>1, <1>4, <1>5, <1>6, <1>7

-----------------------------------------------------------------------------
(* FetchShares implements QuorumFetch.                                     *)

QuorumStep == [Quorum!QuorumNext]_<<threshold, result, answer,
                                    {returned[i] : i \in DOMAIN returned}>>

\* Both modules count with the same operator.
LEMMA SameCardinality == \A S : Quorum!Cardinality(S) = Cardinality(S)
BY DEF Quorum!Cardinality, Cardinality

LEMMA QuorumInitially == Init => Quorum!QuorumInit
<1> SUFFICES ASSUME Init PROVE Quorum!QuorumInit
  OBVIOUS
<1>1. {returned[i] : i \in DOMAIN returned} = {}
  BY DEF Init
<1>2. threshold \in Nat \ {0}
  BY FetcherAssumption DEF Init
<1> QED
  BY <1>1, <1>2 DEF Quorum!QuorumInit, Init

\* An endpoint gets its result: it settles.
LEMMA ResultSettles ==
    ASSUME FetcherInv, NEW e \in Endpoints, pc[e] \in {"attempt", "backoff"},
           NEW r \in {"share", "error"}, result' = [result EXCEPT ![e] = r],
           UNCHANGED mainVars
    PROVE  QuorumStep
<1>1. result[e] = "none"
  BY DEF FetcherInv, ResultsSettle
<1>2. UNCHANGED <<threshold, answer, returned>>
  BY DEF mainVars, f
<1>3. Quorum!Settles(e)
  BY <1>1, <1>2 DEF Quorum!Settles
<1> QED
  BY <1>3 DEF QuorumStep, Quorum!QuorumNext

LEMMA RefuseRefuses == FetcherInv /\ Refuse => QuorumStep
<1> SUFFICES ASSUME FetcherInv, Refuse PROVE QuorumStep
  OBVIOUS
<1>1. answer = "none" /\ threshold > Cardinality(Endpoints)
  BY EndpointsCount DEF FetcherInv, Phases, Refuse
<1>2. answer' = "error" /\ UNCHANGED <<threshold, result, returned>>
  BY DEF Refuse, goVars, f
<1>3. UNCHANGED {returned[i] : i \in DOMAIN returned}
  BY <1>2
<1>4. Quorum!Refuses
  BY <1>1, <1>2, <1>3, SameCardinality DEF Quorum!Refuses
<1> QED
  BY <1>4 DEF QuorumStep, Quorum!QuorumNext

\* All goroutines have ended by the time FetchShares answers.
LEMMA AllHaveSettled ==
    ASSUME FetcherInv, main = "collect"
    PROVE  Quorum!AllSettled /\ answer = "none" /\ threshold <= E
BY DEF FetcherInv, Phases, ResultsSettle, Quorum!AllSettled

LEMMA ReturnsSharesAnswers == FetcherInv /\ ReturnsShares => QuorumStep
<1> SUFFICES ASSUME FetcherInv, ReturnsShares PROVE QuorumStep
  OBVIOUS
<1>1. Quorum!AllSettled /\ answer = "none"
  BY AllHaveSettled DEF ReturnsShares
<1>2. FetcherInv'
  BY InvReturnsShares
<1>3. answer' = "ok" /\ UNCHANGED <<threshold, result, shares>>
  BY DEF ReturnsShares, goVars, f
<1>4. returned' = shares /\ Len(shares) = threshold
  BY <1>2, <1>3 DEF FetcherInv, Collected
<1>5. {returned'[i] : i \in DOMAIN returned'} = Elems(shares)
  <2>1. shares \in Seq(Endpoints)
    BY DEF FetcherInv, TypeOK
  <2> QED
    BY <1>4, <2>1, LenProperties DEF Elems
<1>6. Elems(shares) \in SUBSET Quorum!Successes /\ Cardinality(Elems(shares)) = threshold
  BY <1>4, SharesCount DEF FetcherInv, OnceInChannel, Quorum!Successes
<1>7. \E G \in SUBSET Quorum!Successes :
          Cardinality(G) = threshold /\ {returned'[i] : i \in DOMAIN returned'} = G
  BY <1>5, <1>6
<1>8. Quorum!AnswersShares
  BY <1>1, <1>3, <1>7, SameCardinality DEF Quorum!AnswersShares
<1> QED
  BY <1>8 DEF QuorumStep, Quorum!QuorumNext

LEMMA ReturnsErrorAnswers == FetcherInv /\ ReturnsError => QuorumStep
<1> SUFFICES ASSUME FetcherInv, ReturnsError PROVE QuorumStep
  OBVIOUS
<1>1. Quorum!AllSettled /\ answer = "none" /\ threshold <= E
  BY AllHaveSettled DEF ReturnsError
<1>2. /\ main = "collect" /\ chan = <<>> /\ Len(shares) < threshold /\ answer' = "error"
      /\ UNCHANGED <<threshold, result, returned>>
  BY DEF ReturnsError, goVars, f
<1>3. Quorum!Successes \subseteq Elems(shares)
  BY <1>1, <1>2, NotReceivedFailed DEF Quorum!Successes
<1>4. Cardinality(Quorum!Successes) <= Len(shares) /\ Cardinality(Quorum!Successes) \in Nat
  BY <1>3, SharesCount, FS_Subset, FS_CardinalityType
<1>5. Cardinality(Quorum!Successes) < threshold
  BY <1>2, <1>4, SharesCount
<1>6. UNCHANGED {returned[i] : i \in DOMAIN returned}
  BY <1>2
<1>7. Quorum!AnswersError
  BY <1>1, <1>2, <1>5, <1>6, SameCardinality DEF Quorum!AnswersError
<1> QED
  BY <1>7 DEF QuorumStep, Quorum!QuorumNext

LEMMA StepImplementsQuorum == FetcherInv /\ [Next]_vars => QuorumStep
<1> SUFFICES ASSUME FetcherInv, [Next]_vars PROVE QuorumStep
  OBVIOUS
<1>1. ASSUME UNCHANGED <<threshold, result, answer, returned>> PROVE QuorumStep
  BY <1>1 DEF QuorumStep
<1>2. CASE MainStep
  BY <1>1, <1>2, RefuseRefuses, ReturnsSharesAnswers, ReturnsErrorAnswers
  DEF MainStep, Launch, Wait, Receive, goVars, f
<1>3. ASSUME NEW e \in Endpoints, GoStep(e) PROVE QuorumStep
  <2>1. CASE NoAttempt(e)
    BY <2>1, ResultSettles DEF NoAttempt
  <2>2. ASSUME NEW d \in Durations, AttemptSucceeds(e, d) PROVE QuorumStep
    BY <2>2, ResultSettles DEF AttemptSucceeds
  <2>3. ASSUME NEW d \in Durations, AttemptFails(e, d) PROVE QuorumStep
    <3>1. CASE attempt[e] < maxRetries
      BY <1>1, <2>3, <3>1 DEF AttemptFails, mainVars, f
    <3>2. CASE ~(attempt[e] < maxRetries)
      BY <2>3, <3>2, ResultSettles DEF AttemptFails
    <3> QED
      BY <3>1, <3>2
  <2>4. CASE BackoffEnds(e)
    BY <1>1, <2>4 DEF BackoffEnds, mainVars, f
  <2>5. CASE BackoffCancelled(e)
    BY <2>5, ResultSettles DEF BackoffCancelled
  <2>6. CASE Send(e)
    BY <1>1, <2>6 DEF Send, mainVars, f
  <2> QED
    BY <1>3, <2>1, <2>2, <2>3, <2>4, <2>5, <2>6 DEF GoStep
<1>4. CASE CallerCancelsCtx \/ UNCHANGED vars
  BY <1>1, <1>4 DEF CallerCancelsCtx, vars, mainVars, goVars, f
<1> QED
  BY <1>2, <1>3, <1>4 DEF Next, Done

-----------------------------------------------------------------------------
(* The theorems.                                                           *)

\* The variables of the fetcher keep their types (fetcher.go:20-51).
THEOREM Typing == Spec => []TypeOK
BY FetcherInvariant, PTL DEF FetcherInv

\* The channel always has room for the result of a goroutine that is about to
\* send, whatever the number of endpoints: g.Wait and the goroutines never wait
\* for each other (fetcher.go:63-84).
THEOREM NeverBlocks == Spec => []SendNeverBlocks
BY FetcherInvariant, RoomToSend, PTL

\* Success gives the caller exactly Threshold shares, of as many endpoints that
\* answered with one (fetcher.go:90-113).
THEOREM ExactlyThreshold == Spec => []ReturnsThresholdShares
BY FetcherInvariant, ThresholdSharesReturned, PTL

\* An error means that more endpoints than can be missed have failed, each after
\* all its attempts (fetcher.go:106-109, 120).
THEOREM NoEarlyError == Spec => []ErrorMeansExhausted
BY FetcherInvariant, ErrorsExhausted, PTL

\* The time a goroutine takes is bounded for every retry limit and timeout
\* (fetcher.go:120-127, 147).
THEOREM BoundedTime == Spec => []ReturnsInTime
<1>1. Spec => [](FetcherInv /\ Clocks)
  <2>1. Init => FetcherInv /\ Clocks
    BY InvInit, ClocksInit
  <2>2. (FetcherInv /\ Clocks) /\ [Next]_vars => (FetcherInv /\ Clocks)'
    BY InvStep, ClocksStep
  <2> QED
    BY <2>1, <2>2, PTL DEF Spec
<1> QED
  BY <1>1, ClocksBound, PTL

\* FetchShares implements its promise: every endpoint settles once, and the
\* answer comes after the last has settled and is the one QuorumFetch allows
\* (fetcher.go:55-114).
THEOREM FetchImplementsQuorum == Spec => ImplementsQuorumFetch
<1>1. Init => Quorum!QuorumInit
  BY QuorumInitially
<1>2. FetcherInv /\ [Next]_vars => [Quorum!QuorumNext]_(Quorum!quorumVars)
  BY StepImplementsQuorum DEF QuorumStep, Quorum!quorumVars
<1> QED
  BY <1>1, <1>2, FetcherInvariant, PTL DEF Spec, ImplementsQuorumFetch, Quorum!QuorumSpec

-----------------------------------------------------------------------------
(* What is left to do.  Terminates itself needs fairness, for each of these *)
(* steps to be taken; that there is always one, and only so many of them,   *)
(* is shown here.                                                           *)

Retries == IF maxRetries >= 0 THEN maxRetries ELSE 0

MainLeft ==
    CASE main = "call"     -> E + 3
      [] main = "wait"     -> E + 2
      [] main = "collect"  -> Len(chan) + 1
      [] main = "returned" -> 0

GoLeft(e) ==
    CASE pc[e] = "new"     -> 2 * Retries + 4
      [] pc[e] = "attempt" -> 2 * (Retries - attempt[e]) + 3
      [] pc[e] = "backoff" -> 2 * (Retries - attempt[e]) + 4
      [] pc[e] = "send"    -> 1
      [] pc[e] = "done"    -> 0

CancelsLeft == IF cancelled THEN 0 ELSE 1

LeftOK == MainLeft \in Nat /\ \A e \in Endpoints : GoLeft(e) \in Nat

\* A step takes one of FetchShares, its goroutines and the caller who may cancel
\* closer to its end, and none of them away from it.
Forward ==
    /\ MainLeft' <= MainLeft /\ CancelsLeft' <= CancelsLeft
    /\ \A e \in Endpoints : GoLeft(e)' <= GoLeft(e)
    /\ \/ MainLeft' < MainLeft \/ CancelsLeft' < CancelsLeft
       \/ \E e \in Endpoints : GoLeft(e)' < GoLeft(e)

\* Until FetchShares has returned, it or a goroutine has something to do.
CanGoOn ==
    \/ main \in {"call", "collect", "returned"}
    \/ main = "wait" /\ \A e \in Endpoints : pc[e] = "done"
    \/ \E e \in Endpoints :
          \/ pc[e] \in {"attempt", "backoff"}
          \/ pc[e] = "send" /\ Len(chan) < Cap

AttemptsBounded == \A e \in Endpoints : attempt[e] <= Retries

LEMMA RetriesType == FetcherInv => Retries \in Nat /\ maxRetries \in Int
BY FetcherAssumption DEF FetcherInv, TypeOK, Retries

LEMMA AttemptsInit == Init => AttemptsBounded
BY FetcherAssumption DEF Init, AttemptsBounded, Retries

LEMMA AttemptsStep == FetcherInv /\ AttemptsBounded /\ [Next]_vars => AttemptsBounded'
<1> SUFFICES ASSUME FetcherInv, AttemptsBounded, [Next]_vars PROVE AttemptsBounded'
  OBVIOUS
<1>1. Retries' = Retries
  BY DEF Next, MainStep, GoStep, Refuse, Launch, Wait, Receive, ReturnsShares, ReturnsError,
         NoAttempt, AttemptSucceeds, AttemptFails, BackoffEnds, BackoffCancelled, Send,
         CallerCancelsCtx, Done, vars, mainVars, f, Retries
<1>2. CASE UNCHANGED attempt
  BY <1>1, <1>2 DEF AttemptsBounded
<1>3. ASSUME NEW e \in Endpoints, NEW d \in Durations, AttemptFails(e, d)
      PROVE  AttemptsBounded'
  <2>1. attempt \in [Endpoints -> Nat] /\ maxRetries \in Int
    BY RetriesType DEF FetcherInv, TypeOK
  <2>2. \/ attempt' = attempt
        \/ attempt[e] + 1 <= maxRetries /\ attempt' = [attempt EXCEPT ![e] = @ + 1]
    BY <1>3, <2>1 DEF AttemptFails
  <2>3. maxRetries <= Retries
    BY <2>1 DEF Retries
  <2>4. Retries \in Nat
    BY RetriesType
  <2> HIDE DEF Retries
  <2> QED
    BY <1>1, <2>1, <2>2, <2>3, <2>4 DEF AttemptsBounded
<1>4. \/ UNCHANGED attempt
      \/ \E e \in Endpoints, d \in Durations : AttemptFails(e, d)
  BY DEF Next, MainStep, GoStep, Refuse, Launch, Wait, Receive, ReturnsShares, ReturnsError,
         NoAttempt, AttemptSucceeds, BackoffEnds, BackoffCancelled, Send,
         CallerCancelsCtx, Done, vars, mainVars, goVars
<1> QED
  BY <1>2, <1>3, <1>4

LEMMA AttemptsInvariant == Spec => [](FetcherInv /\ AttemptsBounded)
<1>1. Init => FetcherInv /\ AttemptsBounded
  BY InvInit, AttemptsInit
<1>2. (FetcherInv /\ AttemptsBounded) /\ [Next]_vars => (FetcherInv /\ AttemptsBounded)'
  BY InvStep, AttemptsStep
<1> QED
  BY <1>1, <1>2, PTL DEF Spec

LEMMA LeftIsNat == FetcherInv /\ AttemptsBounded => LeftOK
<1> SUFFICES ASSUME FetcherInv, AttemptsBounded PROVE LeftOK
  OBVIOUS
<1>1. Retries \in Nat /\ E \in Nat /\ Len(chan) \in Nat
  BY RetriesType, FetcherAssumption, LenProperties DEF FetcherInv, TypeOK
<1>2. MainLeft \in Nat
  BY <1>1 DEF FetcherInv, TypeOK, MainLeft
<1>3. ASSUME NEW e \in Endpoints PROVE GoLeft(e) \in Nat
  <2>1. /\ attempt[e] \in Nat /\ attempt[e] <= Retries
        /\ pc[e] \in {"new", "attempt", "backoff", "send", "done"}
    BY DEF FetcherInv, TypeOK, AttemptsBounded
  <2> HIDE DEF Retries
  <2>2. /\ 2 * Retries + 4 \in Nat
        /\ 2 * (Retries - attempt[e]) + 3 \in Nat
        /\ 2 * (Retries - attempt[e]) + 4 \in Nat
    BY <1>1, <2>1
  <2> QED
    BY <2>1, <2>2 DEF GoLeft
<1> QED
  BY <1>2, <1>3 DEF LeftOK

\* A step of one goroutine need only be looked at for that goroutine.
LEMMA OneGoesForward ==
    ASSUME LeftOK, LeftOK', NEW e \in Endpoints,
           maxRetries' = maxRetries, MainLeft' = MainLeft, cancelled' = cancelled,
           \A x \in Endpoints \ {e} : pc'[x] = pc[x] /\ attempt'[x] = attempt[x],
           GoLeft(e)' < GoLeft(e)
    PROVE  Forward
<1>1. MainLeft \in Nat /\ CancelsLeft \in Nat /\ \A x \in Endpoints : GoLeft(x) \in Nat
  BY DEF LeftOK, CancelsLeft
<1>2. Retries' = Retries
  BY DEF Retries
<1>3. ASSUME NEW x \in Endpoints, x # e PROVE GoLeft(x)' = GoLeft(x)
  BY <1>2, <1>3 DEF GoLeft
<1>4. CancelsLeft' = CancelsLeft
  BY DEF CancelsLeft
<1>5. GoLeft(e)' \in Nat
  BY DEF LeftOK
<1> HIDE DEF MainLeft, CancelsLeft, GoLeft
<1>6. MainLeft' <= MainLeft /\ CancelsLeft' <= CancelsLeft
  BY <1>1, <1>4
<1>7. GoLeft(e)' <= GoLeft(e)
  BY <1>1, <1>5
<1>8. \A x \in Endpoints : GoLeft(x)' <= GoLeft(x)
  BY <1>1, <1>3, <1>7
<1> QED
  BY <1>6, <1>8 DEF Forward

LEMMA MainForward ==
    ASSUME FetcherInv, LeftOK, LeftOK', MainStep
    PROVE  Forward
<1>1. /\ Len(chan) \in 0..E /\ E \in Nat
      /\ cancelled' = cancelled /\ maxRetries' = maxRetries /\ attempt' = attempt
  <2>1. chan \in Seq(Endpoints) /\ Distinct(chan)
    BY DEF FetcherInv, TypeOK, OnceInChannel
  <2>2. /\ Elems(chan) \subseteq Endpoints /\ Cardinality(Elems(chan)) = Len(chan)
        /\ Len(chan) \in Nat
    BY <2>1, DistinctCount, ElemsType, LenProperties
  <2>3. Cardinality(Elems(chan)) <= E
    BY <2>2, EndpointsCount, FS_Subset
  <2> QED
    BY <2>2, <2>3, FetcherAssumption
    DEF MainStep, Refuse, Launch, Wait, Receive, ReturnsShares, ReturnsError, f, goVars
<1>2. MainLeft' < MainLeft
  <2>1. CASE Refuse
    BY <1>1, <2>1 DEF Refuse, MainLeft
  <2>2. CASE Launch
    BY <1>1, <2>2 DEF Launch, MainLeft
  <2>3. CASE Wait
    BY <1>1, <2>3 DEF Wait, MainLeft
  <2>4. CASE Receive
    <3>1. Len(chan') = Len(chan) - 1
      BY <2>4, HeadTailProperties DEF Receive, FetcherInv, TypeOK
    <3> QED
      BY <1>1, <2>4, <3>1 DEF Receive, MainLeft
  <2>5. CASE ReturnsShares
    BY <1>1, <2>5 DEF ReturnsShares, MainLeft
  <2>6. CASE ReturnsError
    BY <1>1, <2>6 DEF ReturnsError, MainLeft
  <2> QED
    BY <2>1, <2>2, <2>3, <2>4, <2>5, <2>6 DEF MainStep
<1>3. Retries' = Retries /\ CancelsLeft' = CancelsLeft
  BY <1>1 DEF Retries, CancelsLeft
<1>4. MainLeft \in Nat /\ MainLeft' \in Nat /\ CancelsLeft \in Nat
  BY DEF LeftOK, CancelsLeft
<1>5. ASSUME NEW e \in Endpoints
      PROVE  GoLeft(e)' <= GoLeft(e)
  <2>1. GoLeft(e) \in Nat
    BY DEF LeftOK
  <2>2. pc' = pc => GoLeft(e)' = GoLeft(e)
    BY <1>1, <1>3 DEF GoLeft
  <2>3. CASE Launch
    <3>1. pc[e] = "new" /\ pc'[e] = "attempt"
      BY <2>3 DEF Launch, FetcherInv, Phases
    <3>2. GoLeft(e) = 2 * Retries + 4 /\ GoLeft(e)' = 2 * (Retries - attempt[e]) + 3
      BY <1>1, <1>3, <3>1 DEF GoLeft
    <3>3. attempt[e] \in Nat /\ Retries \in Nat
      BY RetriesType DEF FetcherInv, TypeOK
    <3> HIDE DEF Retries
    <3> QED
      BY <3>2, <3>3
  <2>4. Launch \/ pc' = pc
    BY DEF MainStep, Refuse, Wait, Receive, ReturnsShares, ReturnsError, goVars
  <2> QED
    BY <2>1, <2>2, <2>3, <2>4
<1> HIDE DEF MainLeft, CancelsLeft, GoLeft
<1> QED
  BY <1>2, <1>3, <1>4, <1>5 DEF Forward

LEMMA GoForward ==
    ASSUME FetcherInv, AttemptsBounded, LeftOK, LeftOK', NEW e \in Endpoints, GoStep(e)
    PROVE  Forward
<1>1. /\ pc \in [Endpoints -> {"new", "attempt", "backoff", "send", "done"}]
      /\ attempt \in [Endpoints -> Nat] /\ attempt[e] <= Retries
      /\ maxRetries \in Int /\ Retries \in Nat
  BY RetriesType DEF FetcherInv, TypeOK, AttemptsBounded
<1>2. main = "wait"
  BY RunningWaits DEF GoStep, NoAttempt, AttemptSucceeds, AttemptFails, BackoffEnds,
     BackoffCancelled, Send
<1>3. /\ main' = main /\ cancelled' = cancelled /\ maxRetries' = maxRetries
      /\ \A x \in Endpoints \ {e} : pc'[x] = pc[x] /\ attempt'[x] = attempt[x]
  BY <1>1 DEF GoStep, NoAttempt, AttemptSucceeds, AttemptFails, BackoffEnds,
     BackoffCancelled, Send, mainVars, f
<1>4. MainLeft' = MainLeft
  BY <1>2, <1>3 DEF MainLeft
<1>5. Retries' = Retries
  BY <1>3 DEF Retries
<1>6. \/ pc[e] = "attempt" /\ pc'[e] = "send"
      \/ pc[e] = "attempt" /\ pc'[e] = "backoff" /\ attempt'[e] = attempt[e] + 1
      \/ pc[e] = "backoff" /\ pc'[e] = "attempt" /\ attempt'[e] = attempt[e]
      \/ pc[e] = "backoff" /\ pc'[e] = "send"
      \/ pc[e] = "send" /\ pc'[e] = "done"
  <2>1. CASE NoAttempt(e)
    BY <1>1, <2>1 DEF NoAttempt
  <2>2. ASSUME NEW d \in Durations, AttemptSucceeds(e, d)
        PROVE  pc[e] = "attempt" /\ pc'[e] = "send"
    BY <1>1, <2>2 DEF AttemptSucceeds
  <2>3. ASSUME NEW d \in Durations, AttemptFails(e, d)
        PROVE  \/ pc[e] = "attempt" /\ pc'[e] = "send"
               \/ pc[e] = "attempt" /\ pc'[e] = "backoff" /\ attempt'[e] = attempt[e] + 1
    BY <1>1, <2>3 DEF AttemptFails
  <2>4. CASE BackoffEnds(e)
    BY <1>1, <2>4 DEF BackoffEnds
  <2>5. CASE BackoffCancelled(e)
    BY <1>1, <2>5 DEF BackoffCancelled
  <2>6. CASE Send(e)
    BY <1>1, <2>6 DEF Send
  <2> QED
    BY <2>1, <2>2, <2>3, <2>4, <2>5, <2>6 DEF GoStep
<1>7. GoLeft(e)' < GoLeft(e)
  <2> DEFINE R == Retries
             a == attempt[e]
  <2>1. R \in Nat /\ a \in Nat /\ a <= R
    BY <1>1
  <2>2. /\ pc[e] = "attempt" => GoLeft(e) = 2 * (R - a) + 3
        /\ pc[e] = "backoff" => GoLeft(e) = 2 * (R - a) + 4
        /\ pc[e] = "send" => GoLeft(e) = 1
    BY DEF GoLeft
  <2>3. /\ pc'[e] = "attempt" => GoLeft(e)' = 2 * (R - attempt'[e]) + 3
        /\ pc'[e] = "backoff" => GoLeft(e)' = 2 * (R - attempt'[e]) + 4
        /\ pc'[e] = "send" => GoLeft(e)' = 1
        /\ pc'[e] = "done" => GoLeft(e)' = 0
    BY <1>5 DEF GoLeft
  <2> HIDE DEF R, a, GoLeft
  <2>4. attempt'[e] = attempt[e] + 1 => attempt'[e] = a + 1
    BY DEF a
  <2>5. attempt'[e] = attempt[e] => attempt'[e] = a
    BY DEF a
  <2>6. /\ 1 < 2 * (R - a) + 3 /\ 1 < 2 * (R - a) + 4 /\ 0 < 1
        /\ 2 * (R - (a + 1)) + 4 < 2 * (R - a) + 3
        /\ 2 * (R - a) + 3 < 2 * (R - a) + 4
    BY <2>1
  <2> QED
    BY <1>6, <2>2, <2>3, <2>4, <2>5, <2>6
<1> QED
  BY <1>3, <1>4, <1>7, OneGoesForward

LEMMA StepForward == FetcherInv /\ AttemptsBounded /\ LeftOK' /\ [Next]_vars => [Forward]_vars
<1> SUFFICES ASSUME FetcherInv, AttemptsBounded, LeftOK', Next, ~ UNCHANGED vars PROVE Forward
  OBVIOUS
<1>1. LeftOK
  BY LeftIsNat
<1>2. CASE MainStep
  BY <1>1, <1>2, MainForward
<1>3. ASSUME NEW e \in Endpoints, GoStep(e) PROVE Forward
  BY <1>1, <1>3, GoForward
<1>4. CASE CallerCancelsCtx
  <2>1. CancelsLeft' < CancelsLeft
    BY <1>4 DEF CallerCancelsCtx, CancelsLeft
  <2>2. MainLeft' = MainLeft /\ \A e \in Endpoints : GoLeft(e)' = GoLeft(e)
    BY <1>4 DEF CallerCancelsCtx, MainLeft, GoLeft, Retries, mainVars, goVars, f
  <2>3. MainLeft \in Nat /\ \A e \in Endpoints : GoLeft(e) \in Nat
    BY <1>1 DEF LeftOK
  <2>4. CancelsLeft' <= CancelsLeft
    BY <1>4 DEF CallerCancelsCtx, CancelsLeft
  <2> HIDE DEF MainLeft, GoLeft, CancelsLeft
  <2>5. MainLeft' <= MainLeft /\ \A e \in Endpoints : GoLeft(e)' <= GoLeft(e)
    BY <2>2, <2>3
  <2> QED
    BY <2>1, <2>4, <2>5 DEF Forward
<1> QED
  BY <1>2, <1>3, <1>4 DEF Next, Done

\* FetchShares takes a number of steps that its endpoints and MAX_RETRIES bound:
\* what is left for it and for each goroutine is a number, every step makes one of
\* these smaller and none larger (fetcher.go:56-150).
THEOREM EveryStepCounts == Spec => []LeftOK /\ [][Forward]_vars
<1>1. (FetcherInv /\ AttemptsBounded) /\ (FetcherInv /\ AttemptsBounded)' /\ [Next]_vars
         => [Forward]_vars
  BY LeftIsNat, StepForward, PTL
<1> QED
  BY <1>1, AttemptsInvariant, LeftIsNat, PTL DEF Spec

\* Until FetchShares has returned it can go on or a goroutine can: nothing waits
\* for what does not come, whatever the endpoints answer (fetcher.go:63-84).
THEOREM NeverStuck == Spec => []CanGoOn
<1>1. FetcherInv => CanGoOn
  <2> SUFFICES ASSUME FetcherInv, main = "wait",
                      NEW e \in Endpoints, pc[e] # "done"
               PROVE  \/ pc[e] \in {"attempt", "backoff"}
                      \/ pc[e] = "send" /\ Len(chan) < Cap
    BY DEF CanGoOn, FetcherInv, TypeOK
  <2>1. pc[e] \in {"attempt", "backoff", "send"}
    BY DEF FetcherInv, TypeOK, Phases
  <2> QED
    BY <2>1, RoomToSend DEF SendNeverBlocks
<1> QED
  BY <1>1, FetcherInvariant, PTL
=============================================================================
