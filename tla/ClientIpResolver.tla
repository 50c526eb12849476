--------------------------- MODULE ClientIpResolver ---------------------------
(***************************************************************************)
(* ClientIpResolver::resolve: whose request is it, when it may have come   *)
(* through proxies.  A header is its name and the list of its              *)
(* comma-separated entries; the trusted ranges are the set of addresses in *)
(* them.                                                                   *)
(***************************************************************************)
EXTENDS Naturals, Lists

CONSTANTS
  Unparsable,   \* an entry that is no address
  MaximumChain  \* entries of X-Forwarded-For that are read (64)

ASSUME ChainAssumption == MaximumChain \in Nat \ {0}

\* Entries are read from the left, up to the maximum; one that cannot be parsed
\* discards the header.
ParsedChain(value) ==
  LET chain == SubSeq(value, 1, IF Len(value) < MaximumChain THEN Len(value) ELSE MaximumChain)
  IN  IF Unparsable \in ToSet(chain) THEN << >> ELSE chain

\* From right to left, for as long as the address reached is a trusted proxy.
Walk(trusted, peer, chain) ==
  LET current[n \in 0 .. Len(chain)] ==
        IF n = 0 THEN peer
        ELSE IF current[n - 1] \in trusted THEN chain[Len(chain) - n + 1] ELSE current[n - 1]
  IN  current[Len(chain)]

Usable(header) ==
  IF header.name = "X-Forwarded-For" THEN ParsedChain(header.value) # << >>
  ELSE Len(header.value) = 1 /\ header.value[1] # Unparsable

\* The first usable header, in the configured order, if the peer is trusted.
Resolve(trusted, peer, headers) ==
  LET usable == Select(headers, {h \in Range(headers) : Usable(h)})
  IN  CASE peer \notin trusted \/ usable = << >> -> peer
        [] OTHER -> IF Head(usable).name = "X-Forwarded-For"
                    THEN Walk(trusted, peer, ParsedChain(Head(usable).value))
                    ELSE Head(usable).value[1]

=============================================================================
