------------------------ MODULE MCRequestDispatcher ------------------------
(***************************************************************************)
(* RequestDispatcher with two threads and three clients.  "plain" is a     *)
(* site with a limit and bans, "slow" one with a limit and no bans; "shop" *)
(* and "img" are served over TLS, "shop2" and "img2" are the same after a  *)
(* reload that moves a name from one to the other.                         *)
(***************************************************************************)
EXTENDS RequestDispatcher, TLC

CONSTANT Peers  \* clients that compete at a rate limiter, all alike

Com == <<"shop", "com">>
At(label, domain) == << label >> \o domain
Img == At("img", Com)

Bind(domain, wildcard, to) == [domain |-> domain, wildcard |-> wildcard, to |-> to]

MCClients == Peers \cup {"c1", "c2", "c3", "c4"}
MCSites == {"plain", "slow", "shop", "img", "shop2", "img2"}

Http == {Bind(Com, FALSE, "plain"), Bind(Com, TRUE, "plain"), Bind(Img, TRUE, "slow")}
Tls == [contexts |-> {Bind(Com, FALSE, "cert1"), Bind(Com, TRUE, "cert1"),
                      Bind(Img, TRUE, "cert2")},
        default |-> "cert1", reject_unknown_sni |-> FALSE]

MCConfigs ==
  << [http |-> Http,
      https |-> {Bind(Com, FALSE, "shop"), Bind(Com, TRUE, "shop"), Bind(Img, TRUE, "img")},
      tls |-> Tls, trusted |-> {"c3"}],
     [http |-> Http,
      https |-> {Bind(Com, FALSE, "shop2"), Bind(Com, TRUE, "img2"), Bind(Img, TRUE, "img2")},
      tls |-> [Tls EXCEPT !.reject_unknown_sni = TRUE], trusted |-> {"c2", "c3"}] >>

Condition(field, operation, values) == [field |-> field, operation |-> operation, values |-> values]
Rule(action, status, conditions) ==
  [enabled |-> TRUE, action |-> action, status |-> status, conditions |-> conditions]

OpenPolicy ==
  [acl_rules |-> << >>, redirects |-> << >>, force_https |-> FALSE,
   hotlink |-> [enabled |-> FALSE, allow_empty_referer |-> TRUE, hosts |-> {}, redirect |-> FALSE]]
StrictPolicy ==
  [acl_rules |-> << Rule("allow", 0, << Condition("uri", "equal", {"/open"}) >>),
                    Rule("return", 404, << Condition("uri", "not_equal", {"/", "/open"}) >>),
                    Rule("deny", 403, << Condition("ip", "equal", {"c4"}) >>) >>,
   redirects |-> << [enabled |-> TRUE, any_host |-> FALSE, source_host |-> Bind(Com, TRUE, ""),
                     source_paths |-> {"/open"}, status |-> 301] >>,
   force_https |-> FALSE,
   hotlink |-> [enabled |-> TRUE, allow_empty_referer |-> TRUE,
                hosts |-> {Bind(Com, TRUE, "")}, redirect |-> FALSE]]

NoLimit == [enabled |-> FALSE, window_seconds |-> 1, max_requests |-> 1, ban_seconds |-> 0]
NoAuth == [enabled |-> FALSE, scope_all |-> FALSE, protected_uris |-> {}, validity_seconds |-> 1,
           primary_key |-> NoKey, backup_key |-> NoKey]
SignedUrls == [enabled |-> TRUE, scope_all |-> FALSE, protected_uris |-> {"/film"},
               validity_seconds |-> 1, primary_key |-> "k1", backup_key |-> NoKey]

SpecOf(policy, rate_limit, url_auth) ==
  [policy |-> policy, rate_limit |-> rate_limit, url_auth |-> url_auth]
MCSiteSpec ==
  [plain |-> SpecOf(OpenPolicy, [enabled |-> TRUE, window_seconds |-> 1, max_requests |-> 2,
                                ban_seconds |-> 1], NoAuth),
   slow |-> SpecOf(StrictPolicy, [enabled |-> TRUE, window_seconds |-> 2, max_requests |-> 1,
                                 ban_seconds |-> 0], NoAuth),
   shop |-> SpecOf(OpenPolicy, NoLimit, SignedUrls),
   img |-> SpecOf([OpenPolicy EXCEPT !.force_https = TRUE], NoLimit, NoAuth),
   shop2 |-> SpecOf(OpenPolicy, NoLimit, [SignedUrls EXCEPT !.backup_key = "k2"]),
   img2 |-> SpecOf(OpenPolicy, NoLimit, [SignedUrls EXCEPT !.scope_all = TRUE])]

Plain(host, peer) ==
  [https |-> FALSE, host |-> host, sni |-> NoSni, config |-> 1, handshake |-> 1,
   target |-> "path", method |-> "get", path |-> "/", too_long |-> FALSE, query |-> << >>,
   referer |-> NoReferer, protected_extension |-> FALSE, peer |-> peer, headers |-> << >>]
Secure(host, sni, config, handshake) ==
  [Plain(host, "c1") EXCEPT !.https = TRUE, !.sni = sni, !.config = config,
                            !.handshake = handshake]

Key(timestamp, path, key) ==
  [name |-> "auth_key", value |-> [timestamp |-> timestamp, signed |-> << path, timestamp, key >>]]
Other(name) == [name |-> name, value |-> [timestamp |-> 0, signed |-> << >>]]
Queries ==
  {<< >>, << Other("q"), Key(1, "/film", "k1"), Other("sign") >>,
   << Key(3, "/film", "k2"), Other("q") >>, << Key(2, "/", "k1") >>,
   << Key(1, "/film", "k1"), Key(1, "/film", "k1") >>,
   << [name |-> "auth_key", value |-> Malformed] >>}

Xff(value) == [name |-> "X-Forwarded-For", value |-> value]
RealIp(value) == [name |-> "X-Real-IP", value |-> value]

\* Requests that reach a rate limiter, and those refused before or after it.
BannedRequests == {Plain(At("a", Com), c) : c \in Peers}
SlowRequests == {Plain(At("a", Img), c) : c \in Peers}
PolicyRequests ==
  {Plain(At("a", Img), "c4"),
   [Plain(At("a", Img), "c1") EXCEPT !.path = "/open"],
   [Plain(At("a", Img), "c1") EXCEPT !.path = "/closed"],
   [Plain(At("a", Img), "c1") EXCEPT !.protected_extension = TRUE, !.referer = <<"evil", "com">>],
   [Plain(Com, "c1") EXCEPT !.method = "trace"],
   [Plain(Com, "c1") EXCEPT !.too_long = TRUE],
   [Plain(Com, "c1") EXCEPT !.method = "connect"],
   [Plain(Com, "c1") EXCEPT !.target = "*"],
   Plain(InvalidHost, "c1"), Plain(<<"com">>, "c1")}

\* Signed URLs, before and after the reload.
SignedRequests ==
  {[Secure(Com, Com, config, 1) EXCEPT !.path = "/film", !.query = q] :
     config \in 1..2, q \in Queries}
\* A name of the handshake against the Host, across the reload.
TlsRequests ==
  {Secure(host, sni, config, handshake) :
     host \in {Com, At("a", Com), At("a", Img), At("b", At("a", Com))},
     sni \in {NoSni, InvalidHost, Com, At("a", Com), <<"x", "org">>},
     config \in 1..2, handshake \in 1..2}
\* Chains of proxies; a reload trusts more of them.
ProxiedRequests ==
  {[Secure(Com, Com, config, 1) EXCEPT !.peer = peer, !.headers = headers] :
     config \in 1..2, peer \in {"c1", "c3"},
     headers \in {<< Xff(<<"c1", "c2">>) >>, << Xff(<<"c2", "c3">>), RealIp(<<"c1">>) >>,
                  << Xff(<<"c1", Unparsable>>), RealIp(<<"c2">>) >>,
                  << Xff(<<"c3", "c1", "c2">>) >>, << RealIp(<< >>) >>}}

\* Clients compete at the limiters; the other decisions concern one request.
MCTraffic ==
  {BannedRequests, SlowRequests}
    \cup {{r} : r \in PolicyRequests \cup SignedRequests \cup TlsRequests \cup ProxiedRequests}

Symmetry == Permutations(Workers) \cup Permutations(Peers)

=============================================================================
