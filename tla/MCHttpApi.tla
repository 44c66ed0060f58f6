----------------------------- MODULE MCHttpApi -----------------------------
(***************************************************************************)
(* HttpApi for TLC: one client besides the health-check command, with and  *)
(* without a token configured.                                             *)
(***************************************************************************)
EXTENDS HttpApi

MCDurations == "12h" :> 43200 @@ "300s" :> 300

Typical == "LETSENCRYPT_DOMAIN" :> <<[star |-> FALSE, name |-> "a"]>>
           @@ "DUCKDNS_TOKEN" :> "token"

MCEnvironments == {Typical, "API_AUTH_TOKEN" :> "secret" @@ Typical}

Q(path, method, header) == [path |-> path, method |-> method, header |-> header]

Right == <<"bearer", "secret">>

\* The right token; the right token behind a wrong scheme, and among three words;
\* another token; none; none, and a method that is wrong, too.
MCRequests ==
  {Q("/api/v1/certificates/renew", "POST", Right),
   Q("/api/v1/certificates/renew", "POST", Append(Right, "more")),
   Q("/api/v1/ip/current", "GET", Right),
   Q("/api/v1/ip/current", "GET", <<"basic", "secret">>),
   Q("/api/v1/duckdns/update-ip", "POST", <<"bearer", "other">>),
   Q("/api/v1/duckdns/update-ip", "POST", <<>>),
   Q("/api/v1/ip/current", "POST", <<>>)}
=============================================================================
