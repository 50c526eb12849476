--------------------------- MODULE UrlAuthenticator ---------------------------
(***************************************************************************)
(* UrlAuthenticator::authenticate: signed URLs.  A query is the sequence   *)
(* of its parameters, a signature the tuple it was computed from (the hash *)
(* is taken to be free of collisions), and an auth_key either malformed or *)
(* a timestamp with a signature.                                           *)
(***************************************************************************)
EXTENDS Integers, Lists

CONSTANTS
  FutureSkew  \* maximum_future_clock_skew_seconds (300)

ASSUME SkewAssumption == FutureSkew \in Nat

Malformed == [timestamp |-> -1, signed |-> << >>]
Reserved == {"auth_key", "sign", "time"}
NoKey == "no key"

Protects(spec, path) == spec.scope_all \/ path \in spec.protected_uris

\* parse_query: how often auth_key occurs, and what is left for the backend.
AuthKeys(query) == Select(query, {p \in Range(query) : p.name = "auth_key"})
Retained(query) == Select(query, {p \in Range(query) : p.name \notin Reserved})

InTime(spec, timestamp, now) ==
  timestamp - now <= FutureSkew /\ now <= timestamp + spec.validity_seconds

\* The digest of path, timestamp and a key; an unset key matches nothing.
MatchesKey(key, path, token) == key # NoKey /\ token.signed = <<path, token.timestamp, key>>

Signed(spec, path, query, now) ==
  LET keys == AuthKeys(query)
      token == Head(keys).value
  IN  /\ Len(keys) = 1
      /\ token # Malformed
      /\ InTime(spec, token.timestamp, now)
      /\ \/ MatchesKey(spec.primary_key, path, token)
         \/ MatchesKey(spec.backup_key, path, token)

\* The query that goes on to the backend; only a verified one is rewritten.
Authenticate(spec, path, query, now) ==
  IF ~spec.enabled \/ ~Protects(spec, path) THEN [allowed |-> TRUE, query |-> query]
  ELSE IF Signed(spec, path, query, now) THEN [allowed |-> TRUE, query |-> Retained(query)]
  ELSE [allowed |-> FALSE, query |-> query]

=============================================================================
