----------------------- MODULE MCBackendConnectionPool -----------------------
EXTENDS BackendConnectionPool

CONSTANTS c1, c2, c3, k1, k2

TwoKeys == (c1 :> k1) @@ (c2 :> k1) @@ (c3 :> k2)

=============================================================================
