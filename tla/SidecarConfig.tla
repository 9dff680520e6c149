--------------------------- MODULE SidecarConfig ----------------------------
(***************************************************************************)
(* What the sidecar makes of its environment (pkg/config/sidecar.go), and  *)
(* of an output path (cmd/sidecar/main.go:100).                            *)
(*                                                                         *)
(* A path is a sequence of components, each a text and how many of its     *)
(* characters there are: "/secrets" is << <<"secrets", 7>> >>, and with    *)
(* its last two characters cut off << <<"secrets", 5>> >>.  A secret's     *)
(* name is a sequence of components too, as it may hold slashes.  Paths    *)
(* are absolute.  A result that may be an error is a set: of the one       *)
(* value, or empty.                                                        *)
(***************************************************************************)
EXTENDS Integers, Sequences, FiniteSets

\* The number of characters of a path, and of "/" in front of a name.
PathLength(p) ==
    LET upTo[i \in 0..Len(p)] == IF i = 0 THEN 0 ELSE upTo[i-1] + 1 + p[i][2]
    IN  upTo[Len(p)]

\* The first n characters of a path; a slash at its end counts for nothing.
FirstChars(p, n) ==
    LET whole == CHOOSE i \in 0..Len(p) :
                     /\ PathLength(SubSeq(p, 1, i)) <= n
                     /\ i < Len(p) => PathLength(SubSeq(p, 1, i + 1)) > n
        rest  == n - PathLength(SubSeq(p, 1, whole))
    IN  SubSeq(p, 1, whole) \o (IF rest <= 1 THEN <<>> ELSE <<<<p[whole + 1][1], rest - 1>>>>)

\* Mutant: one character too many is cut off.
DirOfShort(path, name) ==
    IF PathLength(path) < PathLength(name) + 1 THEN {}
    ELSE {FirstChars(path, PathLength(path) - PathLength(name) - 1)}

\* OutputPath without the length of "/"+Name; a slice beyond the start panics.
DirOf(path, name) ==
    IF PathLength(path) < PathLength(name) THEN {}
    ELSE {FirstChars(path, PathLength(path) - PathLength(name))}

-----------------------------------------------------------------------------
(* An entry of SECRETS is <<name, path>>, without a path of its own if      *)
(* path is <<>>; a blank entry is <<>>.                                     *)

Mapping(env, name, path) ==
    [name |-> name, path |-> IF path = <<>> THEN env.SECRETS_DIR \o name ELSE path]

\* SECRET_NAME is for a SECRETS that is empty, not for one with blank entries.
SecretMappings(env) ==
    IF env.SECRETS = <<>>
      THEN IF env.SECRET_NAME = <<>> THEN <<>>
           ELSE <<Mapping(env, env.SECRET_NAME, env.SECRET_OUTPUT_PATH)>>
      ELSE LET entries == SelectSeq(env.SECRETS, LAMBDA e : e # <<>>)
           IN  [i \in DOMAIN entries |-> Mapping(env, entries[i][1], entries[i][2])]

LoadSidecarConfig(env) ==
    LET secrets   == SecretMappings(env)
        endpoints == env.SHARE_SERVER_ENDPOINTS
    IN  IF \/ secrets = <<>>
           \/ env.TIMEOUT = "invalid"
           \/ endpoints = <<>>
           \/ env.THRESHOLD < 2 \/ env.THRESHOLD > Len(endpoints)
        THEN {}
        ELSE {[secrets |-> secrets, endpoints |-> endpoints, threshold |-> env.THRESHOLD]}
=============================================================================
