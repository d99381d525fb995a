-------------------------------- MODULE Urls --------------------------------
(***************************************************************************)
(* What FederationConfig says of a URL: is_local_url and verify_url_valid  *)
(* (config.rs).  A URL is a record of scheme, host, port and path; hosts   *)
(* are told apart only by what these two functions look at.                *)
(***************************************************************************)
EXTENDS Naturals

CONSTANTS
    Urls,           \* the URLs that occur: [scheme, host, port, path]
    LocalDomain,    \* domain, as [host, port]
    IpHosts,        \* hosts that are addresses: Url::domain is None
    OddHosts,       \* names DOMAIN_REGEX does not match
    PrivateHosts,   \* names that resolve to an address validate_ip refuses
    BlockedHosts,   \* names the application's UrlVerifier refuses
    Undotted,       \* [name |-> name without its trailing dot], for those with one
    Debug,          \* debug
    AllowHttpUrls,  \* allow_http_urls
    AllowLocalIp    \* DANGER_FEDERATION_ALLOW_LOCAL_IP is set

NoPort == 0

ASSUME UrlsAssumption ==
    /\ Urls # {}
    /\ \A u \in Urls : {"scheme", "host", "port", "path"} \subseteq DOMAIN u
    /\ {Debug, AllowHttpUrls, AllowLocalIp} \subseteq BOOLEAN

\* is_local_url: host, and port when there is one, as in the configured domain.
IsLocalUrl(u) == u.host = LocalDomain.host /\ u.port = LocalDomain.port

\* Url::domain.  Two addresses have the same domain, namely none.
Domain(u) == IF u.host \in IpHosts THEN "None" ELSE u.host

WithoutDot(host) == IF host \in DOMAIN Undotted THEN Undotted[host] ELSE host

\* verify_url_valid, given whether the name could be resolved.  Local URLs
\* need no more than a permitted scheme.  If addresses are not looked at, names
\* are not resolved.
UrlValid(u, resolved) ==
    /\ u.scheme = "https" \/ (u.scheme = "http" /\ AllowHttpUrls)
    /\ \/ IsLocalUrl(u)
       \/ /\ u.host \notin IpHosts \cup OddHosts
          /\ ~ Debug => /\ u.port = NoPort
                        /\ AllowLocalIp \/ (resolved /\ u.host \notin PrivateHosts)
          /\ WithoutDot(u.host) \notin BlockedHosts
=============================================================================
