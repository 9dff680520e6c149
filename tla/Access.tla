------------------------------- MODULE Access -------------------------------
(***************************************************************************)
(* Who gets through to a share server's handlers: its configuration        *)
(* (pkg/config/server.go), TLS on both sides (pkg/transport/tls.go,        *)
(* pkg/config/sidecar.go), tokens and identities (pkg/auth), and the       *)
(* decision of the interceptor (pkg/transport/interceptors.go).            *)
(*                                                                         *)
(* A string the code splits is the sequence of its pieces: an identity is  *)
(* split at ":", and "a:" is <<"a", "">>.  A result that may be an error   *)
(* is a set: of the one value, or empty.                                   *)
(***************************************************************************)
EXTENDS Integers, Sequences

-----------------------------------------------------------------------------
(* The environment of the server process, and what it loads from it.  The  *)
(* values of ALLOWED_CALLERS come with the blanks around them or not.      *)

\* An unset variable, "", gives the default; anything but the three is false.
getEnvAsBoolOrDefault(value, default) ==
    IF value = "" THEN default ELSE value \in {"true", "1", "yes"}

AllowedCallers(env) == {env.callers[i].id : i \in DOMAIN env.callers}

LoadShareServerConfig(env) ==
    IF env.callers = <<>> THEN {}
    ELSE {[callers |-> AllowedCallers(env),
           devMode |-> getEnvAsBoolOrDefault(env.DEV_MODE, TRUE),
           tls     |-> getEnvAsBoolOrDefault(env.TLS_ENABLED, FALSE)]}

\* cert and ca are what the files of TLS_CERT_PATH and TLS_CA_PATH hold; a CA
\* makes the server ask for client certificates.
LoadServerTLSConfig(cfg, env) ==
    IF ~cfg.tls THEN {[tls |-> FALSE]}
    ELSE IF env.cert = "unreadable" \/ env.ca = "unreadable" THEN {}
    ELSE {[tls |-> TRUE, cert |-> env.cert, clientCert |-> env.ca # "none"]}

\* main loads both before it listens, or log.Fatals.
Config(env) ==
    UNION {{[callers |-> c.callers, devMode |-> c.devMode, transport |-> t] :
                t \in LoadServerTLSConfig(c, env)} : c \in LoadShareServerConfig(env)}

-----------------------------------------------------------------------------
(* Connections.                                                            *)

\* The sidecar's LoadTLSConfig.  It loads no CA, and has no certificate of its
\* own; with TLS_INSECURE and no TLS_CA_PATH it does not use TLS at all.
LoadTLSConfig(TLSInsecure, TLSCAPath) ==
    IF TLSInsecure /\ TLSCAPath = "" THEN [tls |-> FALSE]
    ELSE [tls |-> TRUE, skipVerify |-> TLSInsecure]

\* The manager dials with insecure.NewCredentials.
ManagerTransport == [tls |-> FALSE]

\* crypto/tls and gRPC: both sides or none use TLS; the client has only the
\* system's CAs to verify with.
Connects(client, server) ==
    /\ client.tls = server.tls
    /\ server.tls => /\ ~server.clientCert
                     /\ client.skipVerify \/ server.cert = "public"

-----------------------------------------------------------------------------
(* Tokens and identities.                                                  *)

\* Mutant: of a name with colons the first piece is taken.
ParseFirstPiece(subject) ==
    IF \/ Len(subject) < 4
       \/ subject[1] # "system" \/ subject[2] # "serviceaccount"
       \/ subject[3] = "" \/ subject[4] = ""
    THEN {}
    ELSE {[namespace |-> subject[3], serviceAccount |-> <<subject[4]>>]}

ParseServiceAccountIdentity(subject) ==
    IF \/ Len(subject) < 4
       \/ subject[1] # "system" \/ subject[2] # "serviceaccount"
       \/ subject[3] = ""
       \/ SubSeq(subject, 4, Len(subject)) = <<"">>
    THEN {}
    ELSE {[namespace |-> subject[3], serviceAccount |-> SubSeq(subject, 4, Len(subject))]}

Identity(claims) == <<claims.namespace>> \o claims.serviceAccount

\* token.form is how far the code gets with the text: "empty", "not three parts",
\* "not base64", "not JSON" or "JSON"; sub is <<>> when there is no such string in
\* it.  "Bearer " and blanks are removed, so that a token is the same with or
\* without them.  No other claim is looked at: token.expired says that exp has
\* passed.
ValidateToken(devMode, token) ==
    IF token.form # "JSON" \/ token.sub = <<>> \/ ~devMode THEN {}
    ELSE ParseServiceAccountIdentity(token.sub)

SkipsAuth == {"HealthCheck", "StoreShare", "DeleteShare"}

\* Unary's decision.  tokens are the values of the authorization header.
Decision(cfg, method, tokens) ==
    IF method \in SkipsAuth THEN "handler"
    ELSE IF tokens = <<>> THEN "Unauthenticated"
    ELSE LET claims == ValidateToken(cfg.devMode, tokens[1])
         IN  IF claims = {} THEN "Unauthenticated"
             ELSE IF \E c \in claims : Identity(c) \in cfg.callers THEN "handler"
             ELSE "PermissionDenied"
=============================================================================
