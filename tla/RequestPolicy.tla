---------------------------- MODULE RequestPolicy ----------------------------
(***************************************************************************)
(* The policy of a virtual host: the filters that depend on the request    *)
(* alone, in the order of RequestPolicy::Impl::evaluate, and the rate      *)
(* limiter between them, a token bucket per client with temporary bans in  *)
(* a table of bounded size.  These are functions; RequestDispatcher calls  *)
(* them from several threads.                                              *)
(*                                                                         *)
(* Time is counted in ticks, and tokens in units of which a tick refills   *)
(* max_requests, so that the code's doubles are integers here.             *)
(***************************************************************************)
EXTENDS VirtualHostRouter, Integers, FiniteSets

CONSTANTS
  TicksPerSecond,  \* resolution of the clock
  MaxEntries,      \* max_rate_limit_entries (65536)
  CleanupPeriod    \* calls of check() between two cleanups (1024)

\* A tick is some whole milliseconds, to which seconds_until cuts a time.
ASSUME PolicyAssumption ==
  /\ TicksPerSecond \in Nat \ {0} /\ 1000 % TicksPerSecond = 0
  /\ MaxEntries \in Nat \ {0}
  /\ CleanupPeriod \in Nat \ {0}

Least(a, b) == IF a < b THEN a ELSE b
Most(a, b) == IF a > b THEN a ELSE b
CeilDiv(a, b) == (a + b - 1) \div b

-----------------------------------------------------------------------------
(* RateLimiter; `spec` is a RateLimitSpec                                  *)

Unit(spec) == spec.window_seconds * TicksPerSecond   \* one token
Full(spec) == spec.max_requests * Unit(spec)         \* the whole bucket
NoBan == 0                                           \* time_point{}: before any reading

\* entries_, lru_ (least recent first) and request_count_.
NewTable == [entries |-> << >>, lru |-> << >>, request_count |-> 0]

Forget(t, gone) ==
  [t EXCEPT !.entries = [c \in DOMAIN t.entries \ gone |-> t.entries[c]],
            !.lru = Select(t.lru, Range(t.lru) \ gone)]

Retention(spec) == (spec.window_seconds + spec.ban_seconds + 1) * TicksPerSecond

\* Mutant: an idle entry is dropped with its ban.
CleanupBanned(spec, t, now) ==
  Forget(t, {c \in DOMAIN t.entries : now > t.entries[c].updated})

Cleanup(spec, t, now) ==
  Forget(t, {c \in DOMAIN t.entries :
               /\ t.entries[c].banned_until <= now
               /\ now - t.entries[c].updated > Retention(spec)})

\* The head of check(): every CleanupPeriod-th call sweeps the table first.
Counted(spec, t, now) ==
  LET n == (t.request_count + 1) % CleanupPeriod
      u == [t EXCEPT !.request_count = n]
  IN  IF n = 0 THEN Cleanup(spec, u, now) ELSE u

\* A full table gives up the entry that was not used for the longest time.
EvictOldest(t) ==
  IF Cardinality(DOMAIN t.entries) >= MaxEntries /\ t.lru # << >>
  THEN Forget(t, {Head(t.lru)}) ELSE t

Insert(spec, t, c, now) ==
  LET u == EvictOldest(t)
      entry == [tokens |-> Full(spec) - Unit(spec), updated |-> now, banned_until |-> NoBan]
  IN  [u EXCEPT !.entries = [d \in DOMAIN @ \cup {c} |-> IF d = c THEN entry ELSE @[d]],
                !.lru = Append(@, c)]

\* The end of a ban fills the bucket.
LiftBan(spec, e, now) ==
  IF e.banned_until = NoBan THEN e
  ELSE [tokens |-> Full(spec), updated |-> now, banned_until |-> NoBan]

\* Mutant: time that seems to run backwards counts as none, and is refilled again.
RefillForwards(spec, e, now) ==
  [tokens |-> Least(Full(spec), e.tokens + spec.max_requests * Most(0, now - e.updated)),
   updated |-> now, banned_until |-> e.banned_until]

\* `now` may be older than e.updated: then tokens are taken away.
Refill(spec, e, now) ==
  [tokens |-> Least(Full(spec), e.tokens + spec.max_requests * (now - e.updated)),
   updated |-> now, banned_until |-> e.banned_until]

\* Whole seconds, rounded up, at least one.
SecondsUntil(deadline, now) == Most(1, CeilDiv(deadline - now, TicksPerSecond))

RetryAfter(spec, e) == Most(1, CeilDiv(Unit(spec) - e.tokens, spec.max_requests * TicksPerSecond))

\* Take a token, or be banned, or be told when to come back; retry 0 admits.
Spend(spec, e, now) ==
  LET f == Refill(spec, LiftBan(spec, e, now), now)
  IN  CASE f.tokens >= Unit(spec) ->
             [entry |-> [f EXCEPT !.tokens = @ - Unit(spec)], retry |-> 0]
        [] f.tokens < Unit(spec) /\ spec.ban_seconds # 0 ->
             [entry |-> [f EXCEPT !.banned_until = now + spec.ban_seconds * TicksPerSecond],
              retry |-> spec.ban_seconds]
        [] OTHER -> [entry |-> f, retry |-> RetryAfter(spec, f)]

\* Mutant: a client is not moved to the end of the list when it comes back.
TouchNothing(t, c) == t

Touch(t, c) == [t EXCEPT !.lru = Append(Select(@, Range(@) \ {c}), c)]

CheckKnown(spec, t, c, now) ==
  LET e == t.entries[c]
      u == Touch(t, c)
      spent == Spend(spec, e, now)
  IN  IF e.banned_until > now
      THEN [table |-> u, retry |-> SecondsUntil(e.banned_until, now)]
      ELSE [table |-> [u EXCEPT !.entries[c] = spent.entry], retry |-> spent.retry]

\* RateLimiter::check under mutex_, with a reading of the clock taken before it.
Check(spec, table, c, now) ==
  LET t == Counted(spec, table, now)
  IN  IF c \in DOMAIN t.entries THEN CheckKnown(spec, t, c, now)
      ELSE [table |-> Insert(spec, t, c, now), retry |-> 0]

-----------------------------------------------------------------------------
(* The filters; a decision is a status, 0 lets the request pass            *)

WildcardHostMatches(pattern, host) ==
  IF pattern.wildcard THEN Below(host, pattern.domain) ELSE host = pattern.domain

\* A condition compares one field with the values its operator selects.
Negative == {"not_equal", "not_contains", "not_in_cidr"}
MatchCondition(condition, view) ==
  (view[condition.field] \in condition.values) # (condition.operation \in Negative)

RuleMatches(rule, view) ==
  \A i \in DOMAIN rule.conditions : MatchCondition(rule.conditions[i], view)

IsPreRateLimitIpDeny(rule) ==
  /\ rule.action = "deny"
  /\ \A i \in DOMAIN rule.conditions :
       /\ rule.conditions[i].field = "ip"
       /\ rule.conditions[i].operation \in {"equal", "in_cidr", "not_in_cidr"}

\* compile_acl: the enabled rules, split in two lists that keep their order.
PreRateLimitAclRules(policy) ==
  Select(policy.acl_rules, {rule \in Range(policy.acl_rules) :
                              rule.enabled /\ IsPreRateLimitIpDeny(rule)})
AclRules(policy) ==
  Select(policy.acl_rules, {rule \in Range(policy.acl_rules) :
                              rule.enabled /\ ~IsPreRateLimitIpDeny(rule)})

\* The first rule that matches decides; "allow" ends the list without a decision.
EvaluateAcl(rules, view) ==
  LET hits == Select(rules, {rule \in Range(rules) : RuleMatches(rule, view)})
  IN  IF hits = << >> \/ Head(hits).action = "allow" THEN 0 ELSE Head(hits).status

EvaluateRedirects(policy, view) ==
  LET hits == Select(policy.redirects, {rule \in Range(policy.redirects) :
                /\ rule.enabled
                /\ rule.any_host \/ WildcardHostMatches(rule.source_host, view.host)
                /\ view.path \in rule.source_paths})
  IN  IF hits = << >> THEN 0 ELSE Head(hits).status

NoReferer == << "no referer" >>

\* A Referer that cannot be parsed matches no pattern, as a foreign one.
EvaluateHotlink(policy, view) ==
  LET h == policy.hotlink
      allowed == IF view.referer = NoReferer THEN h.allow_empty_referer
                 ELSE \E p \in h.hosts : WildcardHostMatches(p, view.referer)
  IN  IF ~h.enabled \/ ~view.protected_extension \/ allowed THEN 0
      ELSE IF h.redirect THEN 302 ELSE 403

EvaluatePostAcl(policy, view) ==
  LET redirect == EvaluateRedirects(policy, view)
  IN  IF policy.force_https /\ ~view.https THEN 308
      ELSE IF redirect # 0 THEN redirect
      ELSE EvaluateHotlink(policy, view)

\* evaluate() up to the rate limiter, and after it.
EvaluateBeforeLimit(policy, view) ==
  CASE view.method \in {"trace", "track"} -> 405
    [] view.method \notin {"trace", "track"} /\ view.too_long -> 414
    [] OTHER -> EvaluateAcl(PreRateLimitAclRules(policy), view)

EvaluateAfterLimit(policy, view) ==
  LET acl == EvaluateAcl(AclRules(policy), view)
  IN  IF acl # 0 THEN acl ELSE EvaluatePostAcl(policy, view)

=============================================================================
