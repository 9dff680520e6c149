------------------------------ MODULE DemoApp -------------------------------
(***************************************************************************)
(* The demo application (examples/demo-app): what it loads from the files  *)
(* it finds when it starts, and what its handlers answer from that for the *)
(* rest of its life.  The map of files is from paths (as in SidecarConfig) *)
(* to contents; what was loaded is a map from the files' base names.       *)
(***************************************************************************)
EXTENDS Integers, Sequences, FiniteSets

CONSTANT Dotted   \* the texts that begin with a dot

Base(path)   == path[Len(path)]
Hidden(path) == Base(path)[1] \in Dotted

\* Mutant: only the files of the directory itself are read.
FoundAtTop(files, dir) == {p \in DOMAIN files : ~Hidden(p) /\ Len(p) = Len(dir) + 1}

\* WalkDir goes through all directories below dir.
Found(files, dir) ==
    {p \in DOMAIN files : ~Hidden(p) /\ SubSeq(p, 1, Len(dir)) = dir}

\* Of several files with one base name the last one is kept; which one that is
\* is left open.  A file that cannot be read is listed as not loaded: those of
\* the sidecar can, both run as the same user.
loadSecrets(files, dir) ==
    LET found == Found(files, dir)
        names == {Base(p) : p \in found}
    IN  {[b \in names |-> [loaded |-> TRUE, content |-> files[kept[b]]]] :
            kept \in {f \in [names -> found] : \A b \in names : Base(f[b]) = b}}

countLoadedSecrets(secrets) == Cardinality({b \in DOMAIN secrets : secrets[b].loaded})

healthHandler(secrets) == IF countLoadedSecrets(secrets) = 0 THEN 503 ELSE 200

\* The message of the status page.
statusHandler(secrets) ==
    IF DOMAIN secrets # {} /\ countLoadedSecrets(secrets) = Cardinality(DOMAIN secrets)
      THEN "all"
    ELSE IF countLoadedSecrets(secrets) > 0 THEN "some"
    ELSE "none"

secretsListHandler(secrets) == DOMAIN secrets

\* The welcome page lists the secrets that were loaded.
rootHandler(secrets) == {b \in DOMAIN secrets : secrets[b].loaded}

\* A request for /secret/ or /verify/ that names no secret.
NoName == <<"", 0>>

\* /secret/<name> tells whether it was loaded, /verify/<name> its hash, which
\* stands for the content.
secretGetHandler(secrets, b) ==
    IF b = NoName THEN [status |-> 400]
    ELSE IF b \notin DOMAIN secrets THEN [status |-> 404]
    ELSE [status |-> 200, loaded |-> secrets[b].loaded]

verifyHandler(secrets, b) ==
    IF b = NoName THEN [status |-> 400]
    ELSE IF b \notin DOMAIN secrets THEN [status |-> 404]
    ELSE IF ~secrets[b].loaded THEN [status |-> 500]
    ELSE [status |-> 200, content |-> secrets[b].content]
=============================================================================
