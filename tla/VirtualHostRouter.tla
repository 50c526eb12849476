-------------------------- MODULE VirtualHostRouter --------------------------
(***************************************************************************)
(* The two searches by host name: VirtualHostRouter::find, which picks the *)
(* site of a request, and TlsContextManager::find, which picks the         *)
(* certificate of a handshake.  A normalised name is the sequence of its   *)
(* labels; a pattern is a domain, or with the wildcard what lies below it. *)
(***************************************************************************)
EXTENDS Naturals, Lists

NoHost == "none"
InvalidHost == <<"invalid">>  \* what HostNormalizer refuses

\* ends_with(suffix), a longer host, and a dot in front of the suffix.
Below(host, domain) ==
  Len(host) > Len(domain) /\ SubSeq(host, Len(host) - Len(domain) + 1, Len(host)) = domain

OneLabelBelow(host, domain) == Below(host, domain) /\ Len(host) = Len(domain) + 1

Exact(bindings) == {b \in bindings : ~b.wildcard}
Wildcard(bindings) == {b \in bindings : b.wildcard}

\* What comes first in wildcard_hosts_ (and wildcard_contexts_), which the constructor
\* sorts.  Domains above the same host are nested: the longer one has the more labels.
Longest(hits) == CHOOSE b \in hits : \A d \in hits : Len(d.domain) <= Len(b.domain)

\* The exact map, then the first of the wildcard entries that match, in sorted order.
Search(bindings, host, hits) ==
  LET exact == {b \in Exact(bindings) : b.domain = host}
  IN  IF exact # {} THEN (CHOOSE b \in exact : TRUE).to
      ELSE IF hits # {} THEN Longest(hits).to ELSE NoHost

\* VirtualHostRouter::find.
Find(bindings, host) ==
  Search(bindings, host, {b \in Wildcard(bindings) : Below(host, b.domain)})

\* The constructor refuses a domain that is bound twice, and "*.com".
ValidBindings(bindings) ==
  /\ \A a, b \in bindings : a.domain = b.domain /\ a.wildcard = b.wildcard => a = b
  /\ \A b \in bindings : b.wildcard => Len(b.domain) > 1

-----------------------------------------------------------------------------
(* TlsContextManager; `tls` holds the bindings of names to certificates    *)

\* TlsContextManager::find: a wildcard stands for one label.
FindContext(tls, host) ==
  Search(tls.contexts, host,
         {b \in Wildcard(tls.contexts) : OneLabelBelow(host, b.domain)})

NoSni == << >>
Rejected == "rejected"

\* server_name_callback: what the handshake presents.
SelectedContext(tls, sni) ==
  LET found == FindContext(tls, sni)
  IN  IF sni = NoSni THEN tls.default
      ELSE IF found # NoHost THEN found
      ELSE IF tls.reject_unknown_sni THEN Rejected ELSE tls.default

\* The name it leaves for the requests: none, if it cannot be normalised.
SniHost(sni) == IF sni = InvalidHost THEN NoSni ELSE sni

\* SslContextHolder::matches_domain.
MatchesDomain(tls, context, host) ==
  \E b \in tls.contexts :
    /\ b.to = context
    /\ IF b.wildcard THEN OneLabelBelow(host, b.domain) ELSE b.domain = host

=============================================================================
