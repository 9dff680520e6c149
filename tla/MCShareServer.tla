--------------------------- MODULE MCShareServer ----------------------------
(* Three requests on one server: the first is anything a manager, a sidecar  *)
(* or a probe may send, the others store, delete and get.                    *)
EXTENDS ShareServer

CONSTANTS n1, n2, p1, p2

Plain    == [tls |-> FALSE]
Sidecars == {LoadTLSConfig(i, c) : i \in BOOLEAN, c \in {"", "ca.crt"}}

Caller(id, blanks) == [id |-> id, blanks |-> blanks]
Demo == Caller(<<"default", "demo">>, FALSE)

Deployed(callers, devMode, tls, cert, ca) ==
    [callers |-> callers, DEV_MODE |-> devMode, TLS_ENABLED |-> tls, cert |-> cert, ca |-> ca]

MCEnvs ==
    { Deployed(<<Demo, Caller(<<"ops", "a", "b">>, TRUE)>>, "", "", "private", "none"),
      Deployed(<<Demo, Caller(<<"">>, FALSE)>>, "True", "false", "unreadable", "none"),
      Deployed(<<Demo>>, "yes", "true", "private", "none"),
      Deployed(<<Demo>>, "yes", "true", "public", "none"),
      Deployed(<<Demo>>, "1", "1", "private", "readable"),
      Deployed(<<Demo>>, "1", "1", "unreadable", "none"),
      Deployed(<<Caller(<<"*", "*">>, FALSE)>>, "true", "", "private", "none"),
      Deployed(<<>>, "true", "", "private", "none") }

Token(sub) == [form |-> "JSON", sub |-> sub, expired |-> FALSE]
Account(id) == Token(<<"system", "serviceaccount">> \o id)

Tokens ==
    { Account(<<"default", "demo">>), Account(<<"ops", "a", "b">>),
      [Account(<<"default", "demo">>) EXCEPT !.expired = TRUE],
      Account(<<"ops", "a">>), Account(<<"default", "demo", "">>), Account(<<"", "demo">>),
      Account(<<"">>), Token(<<>>), Token(<<"system", "node", "default", "demo">>),
      [form |-> "not three parts", sub |-> <<>>, expired |-> FALSE] }

Get(n, tokens, t) == [method |-> "GetShare", name |-> n, tokens |-> tokens, transport |-> t]
StoreOver(n, p, t) == [method |-> "StoreShare", name |-> n, share |-> [split |-> p, idx |-> 1],
                       tokens |-> <<>>, transport |-> t]
Store(n, p) == StoreOver(n, p, ManagerTransport)
Delete(n) == [method |-> "DeleteShare", name |-> n, tokens |-> <<>>, transport |-> ManagerTransport]
Probe(t) == [method |-> "HealthCheck", name |-> n1, tokens |-> <<>>, transport |-> t]

DemoGets == {Get(n1, <<Account(<<"default", "demo">>)>>, t) : t \in Sidecars}

MCSends ==
    [r \in Requests |->
        IF r = 1 THEN DemoGets \cup {Get(n1, <<t>>, Plain) : t \in Tokens}
                        \cup {Get(n1, <<>>, Plain), Probe(Plain)}
                        \cup {StoreOver(n1, p1, t) : t \in Sidecars}
        ELSE IF r = 2 THEN {Store(n1, p1), Store(n2, p2), Delete(n1)}
        ELSE {Store(n1, p2), Delete(n2)} \cup DemoGets]
=============================================================================
