---------------------------- MODULE MCLifecycle ----------------------------
(***************************************************************************)
(* Lifecycle for TLC: a typical environment, and others that override it.  *)
(* An interval of zero is left out: the comment at config.go:216 says both *)
(* that zero disables and that the default is used.                        *)
(***************************************************************************)
EXTENDS Lifecycle

MCDurations == "12h" :> 43200 @@ "300s" :> 300 @@ "1h" :> 3600 @@ "-5m" :> -300

Plain(n)    == [star |-> FALSE, name |-> n]
Wildcard(n) == [star |-> TRUE, name |-> n]
Blank       == Plain("")

Typical ==
  "LETSENCRYPT_DOMAIN" :> <<Plain("a")>> @@ "DUCKDNS_TOKEN" :> "token"

List(items, wildcard) ==
  "LETSENCRYPT_DOMAIN" :> items @@ "LETSENCRYPT_WILDCARD" :> wildcard

Renewal(interval) == "RENEWAL_CHECK_INTERVAL_HOURS" :> interval

Doubled  == <<Plain("a"), Wildcard("a")>>
Repeated == <<Blank, Plain("b"), Plain("a"), Plain("b")>>

\* The last four are rejected.
Overrides ==
  {<<>>,
   List(<<Wildcard("a")>>, "true") @@ Renewal(""),
   List(<<Wildcard("a")>>, "0") @@ Renewal("-5m"),
   List(Doubled, "True") @@ Renewal("soon"),
   List(Doubled, "no") @@ Renewal("1h"),
   List(Repeated, "1") @@ "DUCKDNS_IP_UPDATE_INTERVAL_SECONDS" :> "-5m",
   List(Repeated, "false") @@ "DUCKDNS_IP_UPDATE_DOMAIN" :> <<>>,
   "CERTS_BASE_PATH" :> "" @@ "DUCKDNS_IP_UPDATE_TOKEN" :> "other",
   List(<<Blank>>, "false"), List(<<>>, "true"),
   "DUCKDNS_TOKEN" :> "", "DUCKDNS_TOKEN" :> Placeholder}

MCEnvironments == {overrides @@ Typical : overrides \in Overrides}
=============================================================================
