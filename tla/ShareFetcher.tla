---------------------------- MODULE ShareFetcher ----------------------------
(***************************************************************************)
(* ShareFetcher.FetchShares (pkg/client/fetcher.go): one goroutine per     *)
(* endpoint asks its server for the share, again after a pause when that   *)
(* fails, and sends what came of it on a buffered channel; the caller      *)
(* waits for all goroutines, then drains the channel.                      *)
(*                                                                         *)
(* Goroutines interleave freely.  clock[e] is the time goroutine e has     *)
(* spent in its RPCs and pauses, in units of the 1s the pauses are         *)
(* multiples of; everything else takes no time.                            *)
(***************************************************************************)
EXTENDS Integers, Sequences, FiniteSets

CONSTANTS
    E,             \* len(f.ServerEndpoints)
    Thresholds,    \* values of f.Threshold; LoadSidecarConfig refuses one below 2
    RetryLimits,   \* values of f.MaxRetries, which nothing validates
    Timeout,       \* f.Timeout
    CallerCancels  \* the caller may cancel ctx (the sidecar never does)

ASSUME FetcherAssumption ==
    /\ E \in Nat
    /\ Thresholds \subseteq Nat \ {0}
    /\ RetryLimits \subseteq Int
    /\ Timeout \in Nat
    /\ CallerCancels \in BOOLEAN

Endpoints == 1..E

VARIABLES
    threshold,  \* f.Threshold
    maxRetries, \* f.MaxRetries
    main,       \* where FetchShares is
    shares,     \* the endpoints of the shares it has received, in order
    answer,     \* what it returned
    returned,   \* the endpoints of the shares it returned, in order
    chan,       \* shareChan: endpoints whose ShareResult waits to be received
    pc,         \* pc[e]: where the goroutine of endpoint e is
    attempt,    \* attempt[e]: its loop variable
    result,     \* result[e]: the Share or Error of its ShareResult
    clock,      \* clock[e]: see above
    cancelled   \* ctx is cancelled

f == <<threshold, maxRetries>>
mainVars == <<f, main, shares, answer, returned>>
goVars == <<pc, attempt, result, clock>>
vars == <<mainVars, goVars, chan, cancelled>>

TypeOK ==
    /\ threshold \in Thresholds
    /\ maxRetries \in RetryLimits
    /\ main \in {"call", "wait", "collect", "returned"}
    /\ answer \in {"none", "ok", "error"}
    /\ shares \in Seq(Endpoints)
    /\ returned \in Seq(Endpoints)
    /\ chan \in Seq(Endpoints)
    /\ pc \in [Endpoints -> {"new", "attempt", "backoff", "send", "done"}]
    /\ attempt \in [Endpoints -> Nat]
    /\ result \in [Endpoints -> {"none", "share", "error"}]
    /\ clock \in [Endpoints -> Nat]
    /\ cancelled \in BOOLEAN

\* Mutant: the loop variable starts one before the first attempt.
InitBeforeFirst ==
    /\ threshold \in Thresholds
    /\ maxRetries \in RetryLimits
    /\ main = "call"
    /\ shares = <<>>
    /\ answer = "none"
    /\ returned = <<>>
    /\ chan = <<>>
    /\ pc = [e \in Endpoints |-> "new"]
    /\ attempt = [e \in Endpoints |-> -1]
    /\ result = [e \in Endpoints |-> "none"]
    /\ clock = [e \in Endpoints |-> 0]
    /\ cancelled = FALSE

Init ==
    /\ threshold \in Thresholds
    /\ maxRetries \in RetryLimits
    /\ main = "call"
    /\ shares = <<>>
    /\ answer = "none"
    /\ returned = <<>>
    /\ chan = <<>>
    /\ pc = [e \in Endpoints |-> "new"]
    /\ attempt = [e \in Endpoints |-> 0]
    /\ result = [e \in Endpoints |-> "none"]
    /\ clock = [e \in Endpoints |-> 0]
    /\ cancelled = FALSE

-----------------------------------------------------------------------------
(* FetchShares.                                                            *)

\* Mutant: room for the shares that are needed only.
CapThreshold == threshold

\* The capacity of shareChan.
Cap == E

Refuse ==
    /\ main = "call"
    /\ threshold > E
    /\ main' = "returned"
    /\ answer' = "error"
    /\ UNCHANGED <<f, shares, returned, goVars, chan, cancelled>>

Launch ==
    /\ main = "call"
    /\ threshold <= E
    /\ main' = "wait"
    /\ pc' = [e \in Endpoints |-> "attempt"]
    /\ UNCHANGED <<f, shares, answer, returned, attempt, result, clock, chan,
                   cancelled>>

\* Mutant: the channel is closed as soon as it holds enough results.
WaitForThreshold ==
    /\ main = "wait"
    /\ Len(chan) >= threshold
    /\ main' = "collect"
    /\ UNCHANGED <<f, shares, answer, returned, goVars, chan, cancelled>>

\* g.Wait returns, the channel is closed.
Wait ==
    /\ main = "wait"
    /\ \A e \in Endpoints : pc[e] = "done"
    /\ main' = "collect"
    /\ UNCHANGED <<f, shares, answer, returned, goVars, chan, cancelled>>

\* Mutant: every result counts as a share.
ReceiveAll ==
    /\ main = "collect"
    /\ chan # <<>>
    /\ Len(shares) < threshold
    /\ chan' = Tail(chan)
    /\ shares' = Append(shares, Head(chan))
    /\ UNCHANGED <<f, main, answer, returned, goVars, cancelled>>

\* The results behind the Threshold-th share stay unread.
Receive ==
    /\ main = "collect"
    /\ chan # <<>>
    /\ Len(shares) < threshold
    /\ chan' = Tail(chan)
    /\ shares' = IF result[Head(chan)] = "share" THEN Append(shares, Head(chan))
                                                 ELSE shares
    /\ UNCHANGED <<f, main, answer, returned, goVars, cancelled>>

ReturnsShares ==
    /\ main = "collect"
    /\ Len(shares) >= threshold
    /\ main' = "returned"
    /\ answer' = "ok"
    /\ returned' = SubSeq(shares, 1, threshold)
    /\ UNCHANGED <<f, shares, goVars, chan, cancelled>>

ReturnsError ==
    /\ main = "collect"
    /\ chan = <<>>
    /\ Len(shares) < threshold
    /\ main' = "returned"
    /\ answer' = "error"
    /\ UNCHANGED <<f, shares, returned, goVars, chan, cancelled>>

-----------------------------------------------------------------------------
(* fetchFromServer, in the goroutine of endpoint e.                        *)

\* Mutant: the per-attempt deadline fires late.
DurationsNoDeadline == 0..(Timeout + 1)

\* fetchAttempt runs under context.WithTimeout.
Durations == 0..Timeout

\* With a negative MaxRetries the loop has no iteration, and the goroutine
\* reports "all retries exhausted" without having asked.
NoAttempt(e) ==
    /\ pc[e] = "attempt"
    /\ attempt[e] > maxRetries
    /\ result' = [result EXCEPT ![e] = "error"]
    /\ pc' = [pc EXCEPT ![e] = "send"]
    /\ UNCHANGED <<mainVars, attempt, clock, chan, cancelled>>

AttemptSucceeds(e, d) ==
    /\ pc[e] = "attempt"
    /\ attempt[e] <= maxRetries
    /\ result' = [result EXCEPT ![e] = "share"]
    /\ pc' = [pc EXCEPT ![e] = "send"]
    /\ clock' = [clock EXCEPT ![e] = @ + d]
    /\ UNCHANGED <<mainVars, attempt, chan, cancelled>>

\* Whatever the error is, "not found" and "permission denied" included.
AttemptFails(e, d) ==
    /\ pc[e] = "attempt"
    /\ attempt[e] <= maxRetries
    /\ clock' = [clock EXCEPT ![e] = @ + d]
    /\ IF attempt[e] < maxRetries
       THEN /\ attempt' = [attempt EXCEPT ![e] = @ + 1]
            /\ pc' = [pc EXCEPT ![e] = "backoff"]
            /\ UNCHANGED result
       ELSE /\ result' = [result EXCEPT ![e] = "error"]
            /\ pc' = [pc EXCEPT ![e] = "send"]
            /\ UNCHANGED attempt
    /\ UNCHANGED <<mainVars, chan, cancelled>>

BackoffEnds(e) ==
    /\ pc[e] = "backoff"
    /\ ~cancelled
    /\ clock' = [clock EXCEPT ![e] = @ + attempt[e]]
    /\ pc' = [pc EXCEPT ![e] = "attempt"]
    /\ UNCHANGED <<mainVars, attempt, result, chan, cancelled>>

\* Mutant: a goroutine returns its error, and errgroup cancels the others.
BackoffCancelledByGroup(e) ==
    /\ pc[e] = "backoff"
    /\ \E g \in Endpoints : pc[g] = "done" /\ result[g] = "error"
    /\ result' = [result EXCEPT ![e] = "error"]
    /\ pc' = [pc EXCEPT ![e] = "send"]
    /\ UNCHANGED <<mainVars, attempt, clock, chan, cancelled>>

\* ctx.Done, or the pause ends and the next attempt fails on the dead context.
BackoffCancelled(e) ==
    /\ pc[e] = "backoff"
    /\ cancelled
    /\ \E d \in 0..attempt[e] : clock' = [clock EXCEPT ![e] = @ + d]
    /\ result' = [result EXCEPT ![e] = "error"]
    /\ pc' = [pc EXCEPT ![e] = "send"]
    /\ UNCHANGED <<mainVars, attempt, chan, cancelled>>

\* The goroutine ends with nil, so errgroup never cancels gctx.
Send(e) ==
    /\ pc[e] = "send"
    /\ Len(chan) < Cap
    /\ chan' = Append(chan, e)
    /\ pc' = [pc EXCEPT ![e] = "done"]
    /\ UNCHANGED <<mainVars, attempt, result, clock, cancelled>>

CallerCancelsCtx ==
    /\ CallerCancels
    /\ main \in {"call", "wait", "collect"}
    /\ ~cancelled
    /\ cancelled' = TRUE
    /\ UNCHANGED <<mainVars, goVars, chan>>

-----------------------------------------------------------------------------
MainStep ==
    \/ Refuse
    \/ Launch
    \/ Wait
    \/ Receive
    \/ ReturnsShares
    \/ ReturnsError

GoStep(e) ==
    \/ NoAttempt(e)
    \/ \E d \in Durations : AttemptSucceeds(e, d) \/ AttemptFails(e, d)
    \/ BackoffEnds(e)
    \/ BackoffCancelled(e)
    \/ Send(e)

\* FetchShares has returned and nothing of it is left running.
Done == main = "returned" /\ UNCHANGED vars

Next ==
    \/ MainStep
    \/ \E e \in Endpoints : GoStep(e)
    \/ CallerCancelsCtx
    \/ Done

Spec == Init /\ [][Next]_vars

\* The runtime schedules every runnable goroutine; an attempt ends by its
\* answer, its error or its timeout, a pause by its timer.
Fairness == WF_vars(MainStep) /\ \A e \in Endpoints : WF_vars(GoStep(e))

FairSpec == Spec /\ Fairness

-----------------------------------------------------------------------------
(* Properties.                                                             *)

\* No goroutine ever blocks on the channel, although its reader only starts
\* when all of them have ended: otherwise g.Wait would wait for the goroutines
\* and they for the reader (fetcher.go:63-84).
SendNeverBlocks ==
    \A e \in Endpoints : pc[e] = "send" => Len(chan) < Cap

\* Success returns exactly Threshold shares of as many distinct endpoints, each
\* of which really answered with a share (fetcher.go:90-113).
ReturnsThresholdShares ==
    answer = "ok" =>
        /\ Len(returned) = threshold
        /\ Cardinality({returned[i] : i \in DOMAIN returned}) = threshold
        /\ \A i \in DOMAIN returned : result[returned[i]] = "share"

\* FetchShares only gives up when so many endpoints have failed that Threshold
\* shares are out of reach, and each of these has used up all its attempts: no
\* failure of one endpoint costs another one its retries (fetcher.go:78, 120).
ErrorMeansExhausted ==
    answer = "error" /\ ~cancelled /\ threshold <= E =>
        Cardinality({e \in Endpoints :
                        result[e] = "error" /\ attempt[e] >= maxRetries})
            > E - threshold

\* However the servers behave, FetchShares returns within MaxRetries + 1
\* timeouts and the pauses in between (fetcher.go:120-127, 147).
ReturnsInTime ==
    maxRetries >= 0 =>
        \A e \in Endpoints :
            clock[e] <= (maxRetries + 1) * Timeout
                            + (maxRetries * (maxRetries + 1)) \div 2

\* FetchShares returns, whatever the servers do.
Terminates == <>(main = "returned")

\* FetchShares implements the promise of QuorumFetch.  An endpoint settles
\* when its goroutine has its result.
Quorum == INSTANCE QuorumFetch
              WITH outcome <- result,
                   got <- {returned[i] : i \in DOMAIN returned}

ImplementsQuorumFetch == Quorum!QuorumSpec
=============================================================================
