------------------------------- MODULE MCPod --------------------------------
(* Two secrets, deployed in the ways the chart and the parser allow.         *)
EXTENDS Pod

Secrets  == <<<<"secrets", 7>>>>
Password == <<<<"password", 8>>>>
Key      == <<<<"key", 3>>>>
DbKey    == <<<<"db", 2>>, <<"key", 3>>>>    \* "db/key"
DotEnv   == <<<<".env", 4>>>>

MCNames  == {Password, Key}
MCDotted == {".env"}

Entry(name, path) == <<name, path>>
Blank == <<>>

Deployed(entries, endpoints, k) ==
    [SECRETS_DIR |-> Secrets, SECRETS |-> entries, SECRET_NAME |-> Password,
     SECRET_OUTPUT_PATH |-> <<>>, THRESHOLD |-> k, TIMEOUT |-> "10s",
     SHARE_SERVER_ENDPOINTS |-> endpoints]

Two == <<Entry(Password, <<>>), Blank, Entry(Key, <<>>)>>

ChartEnvs == {Deployed(Two, <<1, 2>>, 2)}

MCEnvs == ChartEnvs \cup
    { Deployed(<<Entry(Password, Secrets \o DbKey), Entry(Key, <<>>)>>, <<1, 2>>, 2),
      Deployed(<<Entry(Password, Secrets \o Key \o Password), Entry(Key, Secrets \o DotEnv)>>, <<1, 2>>, 2),
      Deployed(<<Entry(Key, <<>>), Entry(Password, Secrets \o Key \o Password)>>, <<1, 2>>, 2),
      Deployed(<<Entry(Password, Key)>>, <<1, 2>>, 2),
      Deployed(<<Entry(Key, <<>>), Entry(Key, <<>>)>>, <<1, 2>>, 2),
      Deployed(<<>>, <<1, 2, 2>>, 2),
      Deployed(<<Blank>>, <<1, 2>>, 2),
      Deployed(Two, <<1, 2>>, 3),
      [Deployed(Two, <<1, 2>>, 2) EXCEPT !.TIMEOUT = "invalid"],
      Deployed(Two, <<>>, 2) }
=============================================================================
