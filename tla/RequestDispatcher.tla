-------------------------- MODULE RequestDispatcher --------------------------
(***************************************************************************)
(* RequestDispatcher::start on the threads of the io_context: a request    *)
(* is routed, checked against the TLS handshake of its connection, passed  *)
(* through its site's policy and URL authentication, and handed to a proxy *)
(* transaction.                                                            *)
(*                                                                         *)
(* The threads share the rate limiters.  RateLimiter::check reads the      *)
(* clock before it takes the mutex, so a thread that had to wait uses a    *)
(* reading older than those of the threads it waited for.                  *)
(*                                                                         *)
(* A request carries the snapshot it loaded (`config`) and the one of its  *)
(* connection's handshake (`handshake`), which a reload may have replaced. *)
(***************************************************************************)
EXTENDS RequestPolicy, ClientIpResolver, UrlAuthenticator

CONSTANTS
  Workers,    \* threads of the io_context
  Traffic,    \* sets of requests that clients send side by side
  Configs,    \* the published snapshots, in order
  Sites,      \* virtual hosts: every snapshot makes its own
  SiteSpec,   \* their policy, rate_limit and url_auth
  Clients,    \* addresses of clients
  MaxClock,   \* bound on the clock
  MaxChecks   \* bound on the checks

ASSUME DispatcherAssumption ==
  /\ DOMAIN SiteSpec = Sites
  /\ IsFiniteSet(Workers)
  /\ MaxClock \in Nat \ {0} /\ MaxChecks \in Nat
  /\ \A i \in DOMAIN Configs : \A bindings \in {Configs[i].http, Configs[i].https} :
       /\ ValidBindings(bindings)
       /\ \A b \in bindings : b.domain \in Seq(STRING) /\ b.wildcard \in BOOLEAN /\ b.to \in Sites

\* What the constructors of RequestPolicy, RateLimiter and UrlAuthenticator let through.
ASSUME SiteSpecAssumption ==
  \A s \in Sites :
    LET rules == SiteSpec[s].policy.acl_rules
        rate == SiteSpec[s].rate_limit
    IN  /\ rules \in Seq(Range(rules))
        /\ \A i \in DOMAIN rules : rules[i].action = "deny" => rules[i].status \in {403, 404, 429}
        /\ rate.enabled => /\ rate.window_seconds \in Nat \ {0}
                           /\ rate.max_requests \in Nat \ {0}
                           /\ rate.ban_seconds \in Nat
        /\ SiteSpec[s].url_auth.validity_seconds \in Nat

VARIABLES
  requests,  \* the ones of this behaviour
  clock,     \* the steady and the system clock
  worker,    \* what each thread is doing
  table,     \* the rate limiters of the sites that have one
  checks,    \* checks made by the rate limiters so far
  failed,    \* whether memory has run out once: one failure per behaviour
  admitted,  \* history: readings of the admissions a bucket still accounts for
  promise,   \* history: what a refused client was told
  seen       \* history: clients of a site, by their last check

dispatchVars == << requests, clock, worker, table, checks, failed, admitted, promise, seen >>

Rate(s) == SiteSpec[s].rate_limit
Limited == {s \in Sites : Rate(s).enabled}

Idle == [pc |-> "idle"]
NoPromise == [ban |-> 0, retry |-> 0]

DispatchInit ==
  /\ requests \in Traffic
  /\ clock = 1
  /\ worker = [w \in Workers |-> Idle]
  /\ table = [s \in Limited |-> NewTable]
  /\ checks = 0
  /\ failed = FALSE
  /\ admitted = [s \in Limited |-> [c \in Clients |-> << >>]]
  /\ promise = [s \in Limited |-> [c \in Clients |-> NoPromise]]
  /\ seen = [s \in Limited |-> << >>]

-----------------------------------------------------------------------------
(* What start() decides before the policy                                  *)

Bindings(r) == IF r.https THEN Configs[r.config].https ELSE Configs[r.config].http
SiteOf(r) == Find(Bindings(r), r.host)
Handshake(r) == Configs[r.handshake].tls
Presented(r) == SelectedContext(Handshake(r), r.sni)

\* Mutant: a Host that another certificate covers is served all the same.
MisdirectedBySniOnly(r) ==
  r.https /\ SniHost(r.sni) # NoSni /\ Find(Bindings(r), SniHost(r.sni)) # SiteOf(r)

\* The certificate the connection presented has to cover the Host, and the name
\* asked for in the handshake has to lead to the same site, in this snapshot.
Misdirected(r) ==
  /\ r.https
  /\ \/ ~MatchesDomain(Handshake(r), Presented(r), r.host)
     \/ /\ SniHost(r.sni) # NoSni
        /\ Find(Bindings(r), SniHost(r.sni)) # SiteOf(r)

ValidTarget(r) ==
  \/ r.target = "path"
  \/ r.target = "*" /\ r.method = "options"

\* RequestView, and the client's address from the snapshot's resolver.
ClientOf(r) == Resolve(Configs[r.config].trusted, r.peer, r.headers)
View(r) ==
  [ip |-> ClientOf(r), uri |-> r.path, host |-> r.host, method |-> r.method, path |-> r.path,
   too_long |-> r.too_long, https |-> r.https, referer |-> r.referer,
   protected_extension |-> r.protected_extension]

\* The status of a request answered before the rate limiter; 0 goes on.
Refusal(r) ==
  LET site == SiteOf(r)
  IN  IF r.host = InvalidHost THEN 400
      ELSE IF site = NoHost THEN 404
      ELSE IF Misdirected(r) THEN 421
      ELSE IF ~ValidTarget(r) THEN 400
      ELSE IF r.method = "connect" THEN 501
      ELSE EvaluateBeforeLimit(SiteSpec[site].policy, View(r))

\* The requests that end there.
Refused == {r \in UNION Traffic : Refusal(r) # 0}

\* A request is what the HTTP parser makes of one.
ASSUME TrafficAssumption ==
  \A batch \in Traffic : \A r \in batch :
    /\ r.host \in Seq(STRING) /\ r.sni \in Seq(STRING) /\ r.https \in BOOLEAN
    /\ r.config \in DOMAIN Configs
    /\ r.headers \in Seq(Range(r.headers)) /\ r.query \in Seq(Range(r.query))
    /\ \A i \in DOMAIN r.headers : r.headers[i].value \in Seq(Range(r.headers[i].value))
    /\ \A i \in DOMAIN r.query : r.query[i].value.timestamp \in Int
    /\ ClientOf(r) \in Clients

-----------------------------------------------------------------------------
(* start(), split where threads can overtake each other                    *)

\* A thread is between requests; a handshake that was rejected brings none.
Arrives(w, r) ==
  /\ worker[w].pc \in {"idle", "proxy"}
  /\ r.https => Presented(r) # Rejected

\* complete(): the session writes the answer; nothing that is shared changes.
Answer(w, r) ==
  /\ Arrives(w, r)
  /\ r \in Refused
  /\ worker' = [worker EXCEPT ![w] = Idle]
  /\ UNCHANGED << requests, clock, table, checks, failed, admitted, promise, seen >>

Passed(job) == [pc |-> "passed", req |-> job.req, site |-> job.site, client |-> job.client]

\* check() reads the clock; a site without a limit skips it.
ReadClock(w, r) ==
  /\ Arrives(w, r)
  /\ r \notin Refused
  /\ checks + Cardinality({v \in Workers : worker[v].pc = "timed"}) < MaxChecks
  /\ worker' = [worker EXCEPT ![w] =
       LET job == [pc |-> "timed", req |-> r, site |-> SiteOf(r), client |-> ClientOf(r),
                   now |-> clock]
       IN  IF SiteOf(r) \in Limited THEN job ELSE Passed(job)]
  /\ UNCHANGED << requests, clock, table, checks, failed, admitted, promise, seen >>

\* What a client knows after a check: when it may come back, and its ban.
Told(old, spec, now, retry) ==
  IF retry = 0 THEN NoPromise
  ELSE [retry |-> now + retry * TicksPerSecond,
        ban |-> IF spec.ban_seconds = 0 THEN 0
                ELSE IF old.ban > now THEN old.ban
                ELSE now + spec.ban_seconds * TicksPerSecond]

\* check() under the mutex: 429 with Retry-After, or on to the rest.  The history
\* follows the bucket: it starts over with a new entry and after a ban.
LockedCheck(w) ==
  /\ worker[w].pc = "timed"
  /\ LET s == worker[w].site
         c == worker[w].client
         now == worker[w].now
         known == Counted(Rate(s), table[s], now).entries
         result == Check(Rate(s), table[s], c, now)
         entries == result.table.entries
         evicted == DOMAIN known \ DOMAIN entries
         kept == IF c \in DOMAIN known /\ promise[s][c].ban = 0
                 THEN admitted[s][c] ELSE << >>
     IN  /\ table' = [table EXCEPT ![s] = result.table]
         /\ worker' = [worker EXCEPT ![w] = IF result.retry = 0 THEN Passed(@) ELSE Idle]
         /\ checks' = checks + 1
         /\ admitted' = [admitted EXCEPT ![s] =
              [d \in Clients |->
                 IF d = c THEN IF result.retry = 0 THEN Append(kept, now) ELSE @[d]
                 ELSE IF d \in DOMAIN entries THEN @[d] ELSE << >>]]
         /\ promise' = [promise EXCEPT ![s] =
              [d \in Clients |->
                 IF d = c THEN Told(@[d], Rate(s), now, result.retry)
                 ELSE IF d \in evicted THEN NoPromise ELSE @[d]]]
         /\ seen' = [seen EXCEPT ![s] = Append(Select(@, Range(@) \ {c}), c)]
  /\ UNCHANGED << requests, clock, failed >>

\* No memory for a new entry: the eviction stays, the list is put back, and the
\* exception ends the session.
CheckThrows(w) ==
  /\ worker[w].pc = "timed"
  /\ ~failed
  /\ LET s == worker[w].site
         t == Counted(Rate(s), table[s], worker[w].now)
         u == EvictOldest(t)
     IN  /\ worker[w].client \notin DOMAIN t.entries
         /\ table' = [table EXCEPT ![s] = u]
         /\ admitted' = [admitted EXCEPT ![s] =
              [d \in Clients |-> IF d \in DOMAIN u.entries THEN @[d] ELSE << >>]]
         /\ promise' = [promise EXCEPT ![s] =
              [d \in Clients |-> IF d \in DOMAIN t.entries \ DOMAIN u.entries
                                 THEN NoPromise ELSE @[d]]]
  /\ worker' = [worker EXCEPT ![w] = Idle]
  /\ checks' = checks + 1
  /\ failed' = TRUE
  /\ UNCHANGED << requests, clock, seen >>

\* The rest of the policy, the signature of the URL, and the hand-over.
Forward(w) ==
  /\ worker[w].pc = "passed"
  /\ LET r == worker[w].req
         spec == SiteSpec[worker[w].site]
         authentication == Authenticate(spec.url_auth, r.path, r.query, clock \div TicksPerSecond)
     IN  worker' = [worker EXCEPT ![w] =
           IF EvaluateAfterLimit(spec.policy, View(r)) # 0 \/ ~authentication.allowed THEN Idle
           ELSE [pc |-> "proxy", query |-> authentication.query]]
  /\ UNCHANGED << requests, clock, table, checks, failed, admitted, promise, seen >>

Tick ==
  /\ clock < MaxClock
  /\ clock' = clock + 1
  /\ UNCHANGED << requests, worker, table, checks, failed, admitted, promise, seen >>

DispatchNext ==
  \/ \E w \in Workers, r \in requests : Answer(w, r) \/ ReadClock(w, r)
  \/ \E w \in Workers : LockedCheck(w) \/ CheckThrows(w) \/ Forward(w)
  \/ Tick

DispatchSpec == DispatchInit /\ [][DispatchNext]_dispatchVars

-----------------------------------------------------------------------------
(* Properties                                                              *)

DispatchTypeOK ==
  /\ clock \in 1..MaxClock
  /\ checks \in 0..MaxChecks /\ failed \in BOOLEAN
  /\ \A w \in Workers :
       worker[w].pc \in {"timed", "passed"}
         => worker[w].req \in requests /\ worker[w].site \in Sites /\ worker[w].client \in Clients
  /\ \A s \in Limited : DOMAIN table[s].entries \subseteq Clients

\* A log of admissions fits a bucket that holds max_requests and refills as many
\* in a window.
Conforms(spec, log) ==
  \A j \in DOMAIN log : \A i \in 1..j :
    (j - i + 1) * Unit(spec) <= Full(spec) + spec.max_requests * (log[j] - log[i])

Checked(w) == worker[w].pc = "timed" /\ worker'[w] # worker[w] /\ failed' = failed
Admitted(w) == worker'[w].pc = "passed"

\* RateLimiter::check with a reading of the clock that other threads may have
\* overtaken: a client that is not banned is let in exactly when its admissions,
\* in the order of the mutex and at their readings, stay within the configured
\* rate and burst.  No interleaving admits more, and none loses a request.
ExactBucket ==
  [][\A w \in Workers : Checked(w) =>
       LET s == worker[w].site
           c == worker[w].client
           now == worker[w].now
           known == c \in DOMAIN Counted(Rate(s), table[s], now).entries
           banned == known /\ promise[s][c].ban > now
           log == IF known /\ promise[s][c].ban = 0 THEN admitted[s][c] ELSE << >>
       IN  ~banned => (Admitted(w) <=> Conforms(Rate(s), Append(log, now)))]_dispatchVars

\* The answers of check() hold: a client that comes back no sooner than the
\* Retry-After it was given last is let in, and one that is banned is not while the
\* ban lasts, whatever other clients, cleanups and threads do in between; only the
\* eviction from a full table ends a ban early.
RefusalHonest ==
  [][\A w \in Workers : Checked(w) =>
       LET told == promise[worker[w].site][worker[w].client]
       IN  /\ told.retry # 0 /\ worker[w].now >= told.retry => Admitted(w)
           /\ clock < told.ban => ~Admitted(w)]_dispatchVars

\* The table of a rate limiter: its list names its entries from the one checked
\* longest ago to the latest, also after an insertion that failed; there are never
\* more than the maximum; and a client that an address rule denies takes no place.
TableSound ==
  \A s \in Limited :
    LET entries == DOMAIN table[s].entries
    IN  /\ table[s].lru = Select(seen[s], entries)
        /\ Cardinality(entries) <= MaxEntries
        /\ \A c \in entries :
             ~ \E i \in DOMAIN SiteSpec[s].policy.acl_rules :
                 LET rule == SiteSpec[s].policy.acl_rules[i]
                 IN  /\ rule.enabled /\ rule.action = "deny"
                     /\ \A k \in DOMAIN rule.conditions :
                          /\ rule.conditions[k].field = "ip"
                          /\ rule.conditions[k].operation = "equal"
                          /\ c \in rule.conditions[k].values

Covers(binding, host) ==
  IF binding.wildcard THEN Below(host, binding.domain) ELSE binding.domain = host
MoreSpecific(a, b) ==
  \/ ~a.wildcard /\ b.wildcard
  \/ a.wildcard = b.wildcard /\ Len(a.domain) > Len(b.domain)
BestMatch(bindings, host, site) ==
  \E b \in bindings :
    /\ b.to = site /\ Covers(b, host)
    /\ \A d \in bindings \ {b} : Covers(d, host) => MoreSpecific(b, d)

\* Every hop between the address and this server is a trusted proxy, and the
\* address is not one, unless it is the first of the chain.
NearestUntrusted(trusted, hops, address) ==
  \E i \in DOMAIN hops :
    /\ hops[i] = address
    /\ \A j \in i + 1 .. Len(hops) : hops[j] \in trusted
    /\ i = 1 \/ address \notin trusted

Vouched(r, address) ==
  \/ NearestUntrusted(Configs[r.config].trusted, << r.peer >>, address)
  \/ /\ r.peer \in Configs[r.config].trusted
     /\ \E i \in DOMAIN r.headers :
          LET h == r.headers[i]
          IN  IF h.name # "X-Forwarded-For" THEN h.value = << address >>
              ELSE \/ Len(h.value) > MaximumChain
                   \/ NearestUntrusted(Configs[r.config].trusted, Append(h.value, r.peer), address)

\* What reaches the backend of a site.  The site is the most specific one the
\* request's snapshot binds the Host to; over TLS the certificate that was presented
\* covers the Host and the name of the handshake leads to the same site, even if a
\* reload came between handshake and request; the client is the nearest address
\* that no trusted proxy vouches against (of a chain longer than the part that is read
\* nothing is claimed); a protected path was signed, in time, with a key of that site,
\* and its signature is not passed on.
HandedOverSoundly ==
  [][\A w \in Workers : worker[w].pc = "passed" /\ worker'[w].pc = "proxy" =>
    LET r == worker[w].req
        site == worker[w].site
        auth == SiteSpec[site].url_auth
    IN  /\ BestMatch(Bindings(r), r.host, site)
        /\ r.https =>
             /\ \E b \in Handshake(r).contexts :
                  /\ b.to = Presented(r) /\ Covers(b, r.host)
                  /\ b.wildcard => Len(r.host) = Len(b.domain) + 1
             /\ r.sni \notin {NoSni, InvalidHost} => BestMatch(Bindings(r), r.sni, site)
        /\ Vouched(r, worker[w].client)
        /\ auth.enabled /\ (auth.scope_all \/ r.path \in auth.protected_uris) =>
             /\ \E i \in DOMAIN r.query :
                  LET token == r.query[i].value
                  IN  /\ r.query[i].name = "auth_key"
                      /\ \A k \in DOMAIN r.query \ {i} : r.query[k].name # "auth_key"
                      /\ \E key \in {auth.primary_key, auth.backup_key} \ {NoKey} :
                           token.signed = << r.path, token.timestamp, key >>
                      /\ clock \div TicksPerSecond \in
                           token.timestamp - FutureSkew .. token.timestamp + auth.validity_seconds
             /\ worker'[w].query
                  = Select(r.query, {p \in Range(r.query) : p.name \notin Reserved})]_dispatchVars

=============================================================================
