---------------------------- MODULE QuorumFetch -----------------------------
(***************************************************************************)
(* What fetching the shares of a secret promises its caller: each endpoint *)
(* settles once, on a share or on failure; when all have, the caller gets  *)
(* K shares of distinct endpoints if that many endpoints had one,  *)
(* and an error otherwise.  How often an endpoint is asked, how long that  *)
(* takes and which shares are picked is left open.                         *)
(***************************************************************************)
EXTENDS Integers, FiniteSets

CONSTANT Endpoints   \* positions in the endpoint list

VARIABLES
    threshold, \* K
    outcome,   \* outcome[e]: what endpoint e settled on
    answer,    \* "none", "ok" or "error"
    got        \* the endpoints whose shares the caller was given

quorumVars == <<threshold, outcome, answer, got>>

Successes == {e \in Endpoints : outcome[e] = "share"}

QuorumInit ==
    /\ threshold \in Nat \ {0}
    /\ outcome = [e \in Endpoints |-> "none"]
    /\ answer = "none"
    /\ got = {}

Settles(e) ==
    /\ outcome[e] = "none"
    /\ \E r \in {"share", "error"} : outcome' = [outcome EXCEPT ![e] = r]
    /\ UNCHANGED <<threshold, answer, got>>

AllSettled == \A e \in Endpoints : outcome[e] # "none"

AnswersShares ==
    /\ answer = "none"
    /\ AllSettled
    /\ \E G \in SUBSET Successes : Cardinality(G) = threshold /\ got' = G
    /\ answer' = "ok"
    /\ UNCHANGED <<threshold, outcome>>

AnswersError ==
    /\ answer = "none"
    /\ AllSettled
    /\ Cardinality(Successes) < threshold
    /\ answer' = "error"
    /\ UNCHANGED <<threshold, outcome, got>>

\* A threshold above the number of endpoints is refused unasked.
Refuses ==
    /\ answer = "none"
    /\ threshold > Cardinality(Endpoints)
    /\ answer' = "error"
    /\ UNCHANGED <<threshold, outcome, got>>

QuorumNext ==
    \/ \E e \in Endpoints : Settles(e)
    \/ AnswersShares
    \/ AnswersError
    \/ Refuses

QuorumSpec == QuorumInit /\ [][QuorumNext]_quorumVars
=============================================================================
