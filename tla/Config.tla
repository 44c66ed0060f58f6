------------------------------- MODULE Config -------------------------------
(***************************************************************************)
(* LoadConfig, internal/config/config.go, and what is derived from its     *)
(* result: the environment is a function whose domain is the set of the    *)
(* variables that are set.  A list of domains is the sequence of its       *)
(* comma-separated items; an item is blank (name ""), or a name with or    *)
(* without "*." in front ("*." alone is not considered).                   *)
(***************************************************************************)
EXTENDS Integers, Sequences, SequencesExt

CONSTANTS Durations,   \* what time.ParseDuration makes of a string, in seconds
          Placeholder  \* the DUCKDNS_TOKEN that validateRequired knows is none

ASSUME DurationsAssumption == Durations \in [DOMAIN Durations -> Int]
                              /\ "" \notin DOMAIN Durations

getEnv(env, key, fallback) == IF key \in DOMAIN env THEN env[key] ELSE fallback

\* strconv.ParseBool; what it does not know is false, too.
parseBool(str) == str \in {"1", "t", "T", "TRUE", "true", "True"}

parseDurationAsIs(str, defaultVal) ==
  IF str \in DOMAIN Durations THEN Durations[str] ELSE defaultVal

\* Empty, not a duration, zero or negative: the default.
parseDuration(str, defaultVal) ==
  IF str \in DOMAIN Durations /\ Durations[str] > 0 THEN Durations[str]
                                                    ELSE defaultVal

IsBlank(item) == item.name = ""

\* The loop over the items keeps those that are not blank.
Keep(result, item) == IF IsBlank(item) THEN result ELSE Append(result, item)

parseStringSlice(list) ==
  LET result[n \in 0..Len(list)] ==
        IF n = 0 THEN <<>> ELSE Keep(result[n - 1], list[n])
  IN  result[Len(list)]

\* strings.TrimPrefix(domain, "*."), and "*." in front again.
Base(domain)  == [domain EXCEPT !.star = FALSE]
Star(domain)  == [domain EXCEPT !.star = TRUE]

TwelveHours    == 43200
FiveMinutes    == 300

\* The address updater's domain defaults to the first certificate domain.
UpdateDomain(env, domains) ==
  LET set == getEnv(env, "DUCKDNS_IP_UPDATE_DOMAIN", <<>>)
  IN  IF set # <<>> \/ domains = <<>> THEN set ELSE <<Base(domains[1])>>

\* ... and its token to the token of the DNS challenges.
UpdateToken(env) ==
  LET set == getEnv(env, "DUCKDNS_IP_UPDATE_TOKEN", "")
  IN  IF set = "" THEN getEnv(env, "DUCKDNS_TOKEN", "") ELSE set

BasePath(env) == getEnv(env, "CERTS_BASE_PATH", "/data/config")

\* A variable that is set but empty is kept, except where the fields below
\* treat it like one that is not set.
LoadConfig(env) ==
  LET domains == parseStringSlice(getEnv(env, "LETSENCRYPT_DOMAIN", <<>>))
  IN  [LetsEncryptDomains      |-> domains,
       UseWildcard             |->
         parseBool(getEnv(env, "LETSENCRYPT_WILDCARD", "false")),
       RenewalCheckInterval    |->
         parseDuration(getEnv(env, "RENEWAL_CHECK_INTERVAL_HOURS", "12h"),
                       TwelveHours),
       DuckDNSToken            |-> getEnv(env, "DUCKDNS_TOKEN", ""),
       DuckDNSIPUpdateDomain   |-> UpdateDomain(env, domains),
       DuckDNSIPUpdateInterval |->
         parseDuration(getEnv(env, "DUCKDNS_IP_UPDATE_INTERVAL_SECONDS", "300s"),
                       FiveMinutes),
       DuckDNSIPUpdateToken    |-> UpdateToken(env),
       CertsBasePath           |-> BasePath(env),
       APIAuthToken            |-> getEnv(env, "API_AUTH_TOKEN", "")]

\* The three checks of validateRequired; main exits if one fails.
ValidateRequired(cfg) ==
  /\ cfg.DuckDNSToken \notin {"", Placeholder}
  /\ cfg.DuckDNSIPUpdateDomain # <<>> => cfg.DuckDNSIPUpdateToken # ""
  /\ cfg.LetsEncryptDomains # <<>>

-----------------------------------------------------------------------------
(***************************************************************************)
(* determineTargetDomains, internal/acme/manager.go: the names the         *)
(* certificate is ordered for.  The first also names its directory.        *)
(***************************************************************************)

AddAlways(domains, domain) == Append(domains, domain)
AddOnce(domains, domain) ==
  IF Contains(domains, domain) THEN domains ELSE Append(domains, domain)

\* The loop over the list, after the names taken before it.
Taken(before, list) ==
  LET taken[n \in 0..Len(list)] ==
        IF n = 0 THEN before ELSE AddOnce(taken[n - 1], list[n])
  IN  taken[Len(list)]

TargetDomains(cfg) ==
  LET first == Base(cfg.LetsEncryptDomains[1])
  IN  Taken(IF cfg.UseWildcard THEN <<Star(first), first>> ELSE <<>>,
            cfg.LetsEncryptDomains)
=============================================================================
