------------------------------ MODULE ShareMap ------------------------------
(***************************************************************************)
(* What a share server promises (cmd/share-server): a map from secret      *)
(* names to shares, kept in memory only, on which StoreShare, DeleteShare  *)
(* and GetShare act atomically, and which starts empty whenever the        *)
(* process does.  There are N servers, numbered in the order of the        *)
(* secret manager's endpoint list.                                         *)
(*                                                                         *)
(* This is the abstract specification of a server and, at the same time,   *)
(* the module the protocol modules extend.                                 *)
(***************************************************************************)
EXTENDS Integers, FiniteSets

CONSTANTS
    N,        \* number of share servers (len(shareServerEndpoints))
    Names,    \* non-empty secret names
    Ops,      \* calls of the secret manager; a call that splits names its split
    NoShare   \* what a server holds for a name it has no share of

Servers == 1..N

\* shamir.Split number o produces the shares [split |-> o, idx |-> i].  Its
\* bytes are left out: what matters is which split a share comes from, and
\* whether two shares are the same one (the same x coordinate).
Share == [split : Ops, idx : Servers]

ASSUME ShareMapAssumption == N \in Nat /\ NoShare \notin Share

VARIABLES
    shares,   \* shares[s][n]: the share server s holds for name n
    up        \* up[s]: the process of server s is running

mapVars == <<shares, up>>

Empty == [n \in Names |-> NoShare]

MapTypeOK ==
    /\ shares \in [Servers -> [Names -> Share \cup {NoShare}]]
    /\ up \in [Servers -> BOOLEAN]

MapInit ==
    /\ shares = [s \in Servers |-> Empty]
    /\ up = [s \in Servers |-> TRUE]

-----------------------------------------------------------------------------
(* The handlers, each under s.mu.                                          *)

StoreShare(s, n, sh) ==
    /\ up[s]
    /\ shares' = [shares EXCEPT ![s][n] = sh]
    /\ UNCHANGED up

DeleteShare(s, n) ==
    /\ up[s]
    /\ shares' = [shares EXCEPT ![s][n] = NoShare]
    /\ UNCHANGED up

\* GetShare changes nothing; sh is its answer, and without one the handler
\* returns the error "not found on this server".
GetShare(s, n, sh)   == up[s] /\ shares[s][n] = sh /\ sh # NoShare
GetShareNotFound(s, n) == up[s] /\ shares[s][n] = NoShare

-----------------------------------------------------------------------------
(* The process: the map is not persisted.                                  *)

\* Mutant: the new process does not make its map.
ProcessExitsNil(s) ==
    /\ up[s]
    /\ up' = [up EXCEPT ![s] = FALSE]
    /\ shares' = [shares EXCEPT ![s] = NoShare]

ProcessExits(s) ==
    /\ up[s]
    /\ up' = [up EXCEPT ![s] = FALSE]
    /\ shares' = [shares EXCEPT ![s] = Empty]

ProcessStarts(s) ==
    /\ ~up[s]
    /\ up' = [up EXCEPT ![s] = TRUE]
    /\ UNCHANGED shares

MapNext ==
    \E s \in Servers :
        \/ \E n \in Names : \E sh \in Share : StoreShare(s, n, sh)
        \/ \E n \in Names : DeleteShare(s, n)
        \/ ProcessExits(s)
        \/ ProcessStarts(s)

MapSpec == MapInit /\ [][MapNext]_mapVars
=============================================================================
